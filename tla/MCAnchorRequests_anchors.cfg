CONSTANTS
    g = g  c = c  d = d  e = e  r = r  A = A  B = B  E = E
    NoCommit = NoCommit
    NoRequest = NoRequest
    Genesis = g
    Commit = {g, c, d, r, A, B}
    TimeEvents = {A, B}
    Prev <- PrevOf
    AnchorTime <- TimeOf
    Rank <- RankOf
    Invalid = {}
    Expires <- NoExpiry
    Remote = {r}
    Api = {g, c}
    Flaky = {}
    MaxRequests = 2
    MaxCrashes = 1
SPECIFICATION FairSpec
CHECK_DEADLOCK FALSE
INVARIANTS RequestRemembered AnsweredAnchorsAreDurable
PROPERTY EveryRequestIsAnswered

CONSTANTS
    n1 = n1  n2 = n2
    g = g  a = a  b = b  c = c  d = d  e = e  A = A  B = B  C = C
    NoCommit = NoCommit
    Node = {n1, n2}
    Genesis = g
    Commit = {g, a, b, c, d, e, A, C}
    TimeEvents = {A, C}
    Prev <- ForkPrev
    AnchorTime <- ForkTime
    Rank <- RankOf
    Invalid = {}
    Expires <- ForkExpiry
    Flaky = {}
    MaxNow = 3
SPECIFICATION FairSpec
INVARIANTS StrongConvergence CommitIdsStayLoadable
PROPERTY EventualAgreement

CONSTANTS
    g = g  a = a  b = b  x = x  y = y  d = d  A = A  D = D
    n1 = n1  n2 = n2
    w1 = w1  w2 = w2  t1 = t1  t2 = t2  e1 = e1  l1 = l1  l2 = l2  l3 = l3  v1 = v1
    NoCommit = NoCommit
    NoCall = NoCall
    Genesis = g
    Commit = {g, a, b, x, y, d, A, D}
    TimeEvents = {A, D}
    Prev <- PrevOf
    AnchorTime <- TimeOf
    Rank <- RankOf
    Invalid = {}
    Expires <- NoExpiry
    Call = {w1, w2, e1, l1, l2, t1, t2, l3}
    Kind <- KindOf
    Arg <- ArgOf
    Net = {b, D}
    View = {v1}
    At <- AtOf
    Loader <- LoaderOf
    Batches <- SomeBatches
    Node = {n1, n2}
    Settings <- TypesAndExposures
    Refused = {x}
    MaxNow = 2
    MaxContent = 5
SPECIFICATION SpecStreams
SYMMETRY NodeSymmetry
CHECK_DEADLOCK FALSE
INVARIANTS UpdatesKept ContentFollowsLog
PROPERTIES RunningStateIsARegister ImplementsRegister ImplementsTipSync

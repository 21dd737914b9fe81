CONSTANTS
    n1 = n1  n2 = n2
    g = g  a = a  b = b  c = c  d = d  e = e  A = A  B = B  C = C
    NoCommit = NoCommit
    Node = {n1, n2}
    Genesis = g
    Commit = {g, a, b, c, d, e, A, B, C}
    TimeEvents = {A, B, C, e}
    Prev <- TiePrev
    AnchorTime <- TieTime
    Rank <- RankOf
    Invalid = {}
    Expires <- NoExpiry
    Flaky = {}
    MaxNow = 3
SPECIFICATION Spec
SYMMETRY NodeSymmetry
INVARIANT StrongConvergence

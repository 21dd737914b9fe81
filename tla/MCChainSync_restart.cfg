CONSTANTS
    m1 = m1
    Model = {m1}
    Nameless = Nameless
    Confirmations = 1
    DefaultStart = 2
    Empty = {4}
    Batch = 2
    RetryLimit = 1
    MaxHead = 6
    MaxCrashes = 1
    MaxReorgs = 1
    MaxFailures = 1
    Settings <- Restarting
    Requested <- MCRequested
    DepthLimit = 3
    Publications <- MCPublications
    Operators <- MCOperators
    ModelsOfJob = {1, 2}
    MaxMoves = 1
    MaxRestarts = 1
SPECIFICATION SpecChainSync
CHECK_DEADLOCK FALSE
INVARIANTS StartCatchesUp

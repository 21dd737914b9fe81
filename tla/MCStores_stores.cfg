CONSTANTS
    Stream = {s1, s2}
    NoEntry = NoEntry
    MaxTime = 3
    MaxUpdates = 3
    MaxCrashes = 1
    Stale = 1
    Faults = {"reorder", "step back", "no token"}
    c1 = c1  c2 = c2  c3 = c3
    Call = {c1, c2, c3}
    Settings <- OrderlyAndNot
    MaxLog = 3
    MaxCalls = 5
SPECIFICATION SpecStores
SYMMETRY CallSymmetry
CHECK_DEADLOCK FALSE
INVARIANTS UpdatesLieAhead StoredIsPinned

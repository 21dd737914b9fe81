SPECIFICATION Spec
CONSTANTS
    Streams = {s1, s2}
    Tips = {t1, t2}
    RecentSize = 2
    Interval = 4
    Day = 6
    Expiry = 3
    QueriesPerSecond = 1
    MaxQueuedQueries = 1
    MaxQueries = 3
    MaxFaults = 2
    Models = {m1, m2}
    Limit = 2
    MaxEvents = 4
    MaxFailures = 2
    Blocks = {b1, big, far}
    TooBig = {big}
    Elsewhere = {far}
    CacheSize = 1
    Retries = 3
    Workloads = { {"update", "channel"}, {"query", "time"}, {"query", "update"},
                  {"time", "channel"}, {"blocks"}, {"recon"} }
CHECK_DEADLOCK FALSE
INVARIANTS
    EveryTipIsTried
    LateAnswersAreTaken
    CursorCovered
PROPERTIES
    ListensOrLetsGo
    FeedIsFollowed

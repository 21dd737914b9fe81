CONSTANTS
    s1 = s1  s2 = s2  s3 = s3  s4 = s4
    sub1 = sub1  sub2 = sub2  sub3 = sub3
    load1 = load1  load2 = load2  load3 = load3  resync1 = resync1
    NoActor = NoActor
    Stream = {s1, s2, s3, s4}
    Actor = {sub1, sub2, sub3, load1, load2, load3, resync1}
    StreamOf <- StreamOfActor
    Kind <- KindOfActor
    Stored = {s1, s3, s4}
    Hasty = {sub1, sub3}
    Limit = 2
    Doc = {1, 2}
    Handle = {1, 2}
    Field = {"a", "b"}
    Oversized <- MCOversized
    MaxWatches = 2
    Scenes <- MCScenes
    Inputs <- MCInputs
    Asked <- MCAsked
    Commits <- MCCommits
    States <- MCStates
    Habits <- MCHabits
    Drawn <- MCDrawn
    FromFile <- MCFromFile
    MaxStarts = 3
SPECIFICATION SpecApplications
CHECK_DEADLOCK FALSE
INVARIANTS
    SubscribersAreServed DurableIsSubscribed
    UpdateMeansWhatItSays BatchSeesNewest
    ReadAsWritten SentIsReceived
    ConfigurationIsKept
PROPERTY ViewCatchesUp

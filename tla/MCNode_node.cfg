CONSTANTS
    a = a  b = b  c = c  g = g  k = k  ld = ld  h = h
    d = d  e = e  m = m  dl = dl
    loadingQ = loadingQ  executionQ = executionQ
    NoTask = NoTask
    Task = {a, b, c, g, k, ld, h}
    Name = {d, e, m, dl}
    Queue = {loadingQ, executionQ}
    NameOf <- SomeName
    QueueOf <- SomeQueue
    Limit <- LimitOne
    Child <- ModelChild
    Op <- SomeOp
    After <- LoadFirst
    AnchorOf <- AnchorTask
    Lives <- MCLives
SPECIFICATION FairNode
INVARIANT AckedIsDurable
PROPERTIES ImplementsSerialLanes EverythingEnds
CHECK_DEADLOCK FALSE

SPECIFICATION EventFairSpec
CONSTANTS
    n1 = n1
    n2 = n2
    f1 = f1
    f2 = f2
    Firers = {f1}
    Events = {1, 2, 3, 4}
    Kind <- MCKind
    Nodes = {n1}
    NodeKind <- MCNodeKind
    ALL = ALL
    NULL = NULL
    DISPATCH_QUEUE_LEN = 1
    MAX_DISPATCH = 3
    InitialThreads = 1
    CallbackFires = FALSE
    Prompt = TRUE
INVARIANTS UnboundIsQuiet
PROPERTIES QueuedIsFreed ShutdownReturns
CHECK_DEADLOCK FALSE

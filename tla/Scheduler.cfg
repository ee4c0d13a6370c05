CONSTANTS
    NULL = NULL
    plain = plain
    threaded = threaded
    Tasks = {plain, threaded}
    OwnThread = {threaded}
    NoDel = {}
    Users = {u1}
    Epoch = 10
    Horizon = 12
    Delays = {0}
    Intervals = {1}
    Prompt = TRUE
    Stops = TRUE
CHECK_DEADLOCK FALSE
SPECIFICATION FairSpec
INVARIANTS
    InUseIsListed
    DeletedRunsOnceMore
PROPERTIES
    SpacedOut
    DueRuns
    DestroyedIsFreed

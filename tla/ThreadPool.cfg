SPECIFICATION EndingSpec
CONSTANTS
    Workers = {w1, w2}
    Launchers = {l1, l2}
    Main = main
    Threads = {w1, w2, l1, l2, main}
    Values = {s1, k}
    Sessions = {s1}
    NULL = NULL
    Bounds = 4
    Calls = {"push", "pop_timeout", "term"}
    SpuriousWakeups = FALSE
    ThreadFailures = TRUE
INVARIANTS CountsAreExact OneThreadPerSession
PROPERTIES EveryLaunchStarts WorkersLeave
CHECK_DEADLOCK FALSE

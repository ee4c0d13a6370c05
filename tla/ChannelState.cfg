CONSTANTS
    NULL = NULL
    Threads = {t1, t2}
    Wanted = {"INIT", "ROUTING", "HIBERNATE"}
    NewLoops = 2
    QueueLen = 2
    Patient = TRUE
    EarlyHangup = TRUE
SPECIFICATION FairSpec
INVARIANTS
    NoSilentSleep
    HandledOnce
PROPERTIES
    NoRevival
    HangupEnds
    StateIsRun

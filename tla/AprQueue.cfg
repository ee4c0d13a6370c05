SPECIFICATION QueueFairSpec
CONSTANTS
    Threads = {t1, t2}
    Values = {a, b}
    NULL = NULL
    Bounds = 2
    Calls = {"push", "trypush", "pop", "pop_timeout", "trypop", "interrupt_all", "term"}
    SpuriousWakeups = TRUE
INVARIANTS NoLostWakeup TermReachesEveryone
PROPERTIES ImplementsFifo TermReleasesCallers

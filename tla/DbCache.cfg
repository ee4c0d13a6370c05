CONSTANTS
    t1 = t1
    t2 = t2
    h1 = h1
    h2 = h2
    h3 = h3
    h4 = h4
    None = None
    Threads = {t1, t2}
    Dsns = {core, ext}
    Handles = {h1, h2, h3}
    max_db_handles = 2
    Interfaces = {ext}
    CoreDsn = core
    Core = h1
    InMemory = TRUE
    MaxNest = 2
SPECIFICATION FairSpec
INVARIANTS HeldIsOpen SameHandle CountersAreExact
PROPERTIES IdleIsClosed

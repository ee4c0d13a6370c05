SPECIFICATION FairSpec
CONSTANTS
    Threads = {t1, t2}
    s1 = s1
    s2 = s2
    u1 = u1
    u2 = u2
    u3 = u3
    Sess = {s1, s2}
    Uuids = {u1, u2}
    NewUuids = {}
    ExternalIds = {}
    NULL = NULL
    Requestable <- OwnUuid
    session_limit = 1
    sps_total = 2
    UnlimitedCalls = FALSE
    ForcedLocates = FALSE
    DirectDestroys = FALSE
INVARIANTS LocatedIsSafe
PROPERTIES HupAllHangsUp DownIsFreed
CHECK_DEADLOCK FALSE

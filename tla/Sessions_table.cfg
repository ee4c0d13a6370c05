SPECIFICATION Spec
CONSTANTS
    Threads = {t1, t2}
    s1 = s1
    s2 = s2
    u1 = u1
    u2 = u2
    u3 = u3
    Sess = {s1, s2}
    Uuids = {u1, u2}
    NewUuids = {u2}
    ExternalIds = {u1}
    NULL = NULL
    Requestable <- SameUuid
    session_limit = 1
    sps_total = 2
    UnlimitedCalls = TRUE
    ForcedLocates = TRUE
    DirectDestroys = TRUE
SYMMETRY Symmetry
INVARIANTS FoundIsThere NoStaleKey
CHECK_DEADLOCK FALSE

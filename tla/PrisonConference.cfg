\* Two calls of one extension; the officer may be reached for the first.
SPECIFICATION ConfFairSpec
CONSTANTS
    Calls <- MCCalls
    TalkTimes <- MCTalkTimes
    Minute = 1
    callGwWaitTime = 0
    Horizon = 4
    Reached = {1}
    Quick = FALSE
    DialsInTime = TRUE
    NULL = NULL
INVARIANTS NothingIsLeft
PROPERTIES CutOnlyWhenOver ConferenceEnds

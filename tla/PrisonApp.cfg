SPECIFICATION FairSpec
CONSTANTS
    Accounts <- MCAccounts
    Keys <- MCKeys
    Texts = {"old", "new", "newPwd="}
    NewPwds <- MCNewPwds
    FutureLimit = 6
    LuaStack = 3
INVARIANTS OneCall
PROPERTIES DialledIsAllowed ScriptEnds
CHECK_DEADLOCK FALSE

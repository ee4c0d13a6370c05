------------------------------ MODULE PrisonApp ------------------------------
(***************************************************************************)
(* One run of aisScript/prison_app.lua: the inmate's phone is answered, the *)
(* officer's phone is attached, number and password are asked for, and the *)
(* menu futureProcess lets the caller dial one relative.                    *)
(*                                                                         *)
(* The menu calls itself instead of looping, and what follows the inner    *)
(* call is executed when it returns.  `stack' holds, for every call of     *)
(* futureProcess that still has something to do, what that is:             *)
(*   "silent"   no key was pressed: the test for a wrong key comes next    *)
(*   "wrong"    the key was no number: callRelative(nil) comes next        *)
(* (calls after which nothing follows leave no entry).  The script runs on *)
(* the session's own thread, so it goes on when the caller hangs up: from  *)
(* then on every playAndGetDigits returns "" at once.                      *)
(***************************************************************************)
EXTENDS Integers, Sequences

CONSTANTS Accounts,       \* what the web service may say of a number: prisonData
          Keys,           \* numbers the caller may dial in the menu
          Texts,          \* texts that passwords, and what is stored as one, are made of
          NewPwds,        \* passwords the caller may choose
          FutureLimit,    \* 30 in the code: futureProcess gives up
          LuaStack        \* depth of recursion at which Lua raises "stack overflow"

Relative == [serialnumber: Int, telstatus: BOOLEAN]
Info == [pwd: Seq(Texts), callTime: Int, surplustime: Int, relatives: SUBSET Relative]

ASSUME LimitsAssumption == FutureLimit \in Nat /\ LuaStack \in Nat \ {0}
ASSUME AccountsAssumption == /\ Accounts \subseteq Info
                             /\ NewPwds \subseteq Seq(Texts) /\ "newPwd=" \in Texts

VARIABLES pc,             \* where the script is
          up,             \* switch_channel_ready of the caller's channel
          i,              \* the counter of the two `for i = 1, 3' loops
          prisonInfo,     \* what prisonLogin stored
          callFutureTime, \* calls of futureProcess so far, FutureLimit standing for more
          stack,          \* pending continuations of futureProcess, innermost first
          depth,          \* calls of processModifyPwd that have not returned
          knewPwd,        \* history: the password was given
          newPwd,         \* history: the password the service has accepted last, or none
          dialled         \* history: the relatives conferences were started for

vars == <<pc, up, i, prisonInfo, callFutureTime, stack, depth, knewPwd, newPwd, dialled>>

\* Passwords are sequences of pieces, so that .. is \o; "" is the empty sequence.
Nobody == [pwd |-> <<>>, callTime |-> 0, surplustime |-> 0, relatives |-> {}]

Init == /\ pc = "start" /\ up = TRUE /\ i = 1
        /\ prisonInfo = Nobody
        /\ callFutureTime = 0 /\ stack = <<>> /\ depth = 0
        /\ knewPwd = FALSE /\ newPwd = <<>> /\ dialled = <<>>

\* sendRedisMsg hangs the call up when the answer cannot be decoded, and every caller
\* of it ignores its result.
sendRedisMsg == up' \in {FALSE, up}

\* preSetInfo, sendAisCallCenterFlag, answer.
Start ==
    /\ pc = "start"
    /\ sendRedisMsg
    /\ pc' = "police"
    /\ UNCHANGED <<i, prisonInfo, callFutureTime, stack, depth, knewPwd, newPwd, dialled>>

\* checkPoliceStatus: the service and the originate to the officer's phone both agree,
\* or the caller is hung up and the script is over.
checkPoliceStatus ==
    /\ pc = "police"
    /\ \/ pc' = "number" /\ UNCHANGED up
       \/ pc' = "done" /\ up' = FALSE
    /\ UNCHANGED <<i, prisonInfo, callFutureTime, stack, depth, knewPwd, newPwd, dialled>>

\* Mutant of NumberFailed: rounds without end.
NoCount(stillUp) ==
    /\ pc' = "number" /\ up' = stillUp
    /\ UNCHANGED <<i, prisonInfo, callFutureTime, stack, depth, knewPwd, newPwd, dialled>>

\* After a failed round of pleaseInputNo: the third hangs up, and the script goes on
\* to the password all the same.
NumberFailed(stillUp) ==
    /\ i' = IF i = 3 THEN 1 ELSE i + 1
    /\ pc' = IF i = 3 THEN "password" ELSE "number"
    /\ up' = IF i = 3 THEN FALSE ELSE stillUp
    /\ UNCHANGED <<prisonInfo, callFutureTime, stack, depth, knewPwd, newPwd, dialled>>

\* pleaseInputNo with prisonLogin: no digits, a number the service refuses, a service
\* that fails or an inmate who may not phone (both hang up), or a login.
InputNo ==
    /\ pc = "number"
    /\ \/ NumberFailed(up)
       \/ up /\ NumberFailed(FALSE)
       \/ /\ up
          /\ prisonInfo' \in Accounts
          /\ pc' = "password" /\ i' = 1
          /\ UNCHANGED <<up, callFutureTime, stack, depth, knewPwd, newPwd, dialled>>

\* pleaseInputPwd: without a password the script ends here.
NoPwd ==
    /\ pc = "password"
    /\ prisonInfo.pwd = <<>>
    /\ pc' = "done"
    /\ UNCHANGED <<up, i, prisonInfo, callFutureTime, stack, depth, knewPwd, newPwd, dialled>>

RightPwd ==
    /\ pc = "password"
    /\ prisonInfo.pwd # <<>>
    /\ up
    /\ knewPwd' = TRUE
    /\ sendRedisMsg
    /\ pc' = "menu"
    /\ UNCHANGED <<i, prisonInfo, callFutureTime, stack, depth, newPwd, dialled>>

\* Mutant of WrongPwd: after the third wrong password the script goes on.
WrongPwdPasses ==
    /\ pc = "password"
    /\ prisonInfo.pwd # <<>>
    /\ i' = IF i = 3 THEN 1 ELSE i + 1
    /\ pc' = IF i = 3 THEN "menu" ELSE "password"
    /\ UNCHANGED <<up, prisonInfo, callFutureTime, stack, depth, knewPwd, newPwd, dialled>>

WrongPwd ==
    /\ pc = "password"
    /\ prisonInfo.pwd # <<>>
    /\ i' = IF i = 3 THEN 1 ELSE i + 1
    /\ pc' = IF i = 3 THEN "done" ELSE "password"
    /\ up' = IF i = 3 THEN FALSE ELSE up
    /\ UNCHANGED <<prisonInfo, callFutureTime, stack, depth, knewPwd, newPwd, dialled>>

\* futureProcess entered for the 30th time returns at once.
GiveUp ==
    /\ pc = "menu"
    /\ callFutureTime + 1 >= FutureLimit
    /\ callFutureTime' = FutureLimit
    /\ pc' = "return"
    /\ UNCHANGED <<up, i, prisonInfo, stack, depth, knewPwd, newPwd, dialled>>

Entered ==
    /\ pc = "menu"
    /\ callFutureTime + 1 < FutureLimit
    /\ callFutureTime' = callFutureTime + 1

\* The relatives callRelative finds for a key; none for a key that is no number.
getCurRelavtiveByBtnNo(k) == {r \in prisonInfo.relatives : r.serialnumber = k}

\* No key within the timeout, or nobody there to press one.
Silent ==
    /\ Entered
    /\ stack' = <<"silent">> \o stack
    /\ pc' = "menu"
    /\ UNCHANGED <<up, i, prisonInfo, depth, knewPwd, newPwd, dialled>>

WrongKey ==
    /\ Entered
    /\ up
    /\ stack' = <<"wrong">> \o stack
    /\ pc' = "menu"
    /\ UNCHANGED <<up, i, prisonInfo, depth, knewPwd, newPwd, dialled>>

WithBalance(n) == [pwd |-> prisonInfo.pwd, callTime |-> prisonInfo.callTime,
                   surplustime |-> n, relatives |-> prisonInfo.relatives]

\* "*": the queries of helpKeyProcess play something, and the one for the balance
\* (playCurrentBalance) takes a negative one for 0; "#94" changes the password.
Help ==
    /\ Entered
    /\ up
    /\ \/ pc' \in {"menu", "newpwd"} /\ UNCHANGED prisonInfo
       \/ /\ pc' = "menu"
          /\ prisonInfo' = WithBalance(IF prisonInfo.surplustime < 0 THEN 0 ELSE prisonInfo.surplustime)
    /\ UNCHANGED <<up, i, stack, depth, knewPwd, newPwd, dialled>>

\* A number: callRelative finds no such relative, refuses and hangs up, or starts the
\* conference.  startPrisonConference goes on when sendRedisMsg has hung up.
MayBeCalled(r) == ~r.telstatus /\ prisonInfo.callTime > 0 /\ prisonInfo.surplustime > 0

callRelative ==
    /\ Entered
    /\ up
    /\ \E k \in Keys :
          \/ /\ getCurRelavtiveByBtnNo(k) = {}
             /\ pc' = "menu"
             /\ UNCHANGED <<up, dialled>>
          \/ \E r \in getCurRelavtiveByBtnNo(k) :
                \/ ~MayBeCalled(r) /\ up' = FALSE /\ pc' = "return" /\ UNCHANGED dialled
                \/ /\ MayBeCalled(r) /\ sendRedisMsg /\ pc' = "conference"
                   /\ dialled' = Append(dialled, r)
    /\ UNCHANGED <<i, prisonInfo, stack, depth, knewPwd, newPwd>>

\* Mutant of ConferenceOver: callRelative only returns true.
NoHangup ==
    /\ pc = "conference"
    /\ pc' = "return"
    /\ UNCHANGED <<up, i, prisonInfo, callFutureTime, stack, depth, knewPwd, newPwd, dialled>>

\* The conference application returns and callRelative hangs up.
ConferenceOver ==
    /\ pc = "conference"
    /\ up' = FALSE
    /\ pc' = "return"
    /\ UNCHANGED <<i, prisonInfo, callFutureTime, stack, depth, knewPwd, newPwd, dialled>>

\* A call of futureProcess has returned to one that has more to do.  After "silent"
\* tonumber("") is nil, so the test for a wrong key calls futureProcess once more;
\* after "wrong", callRelative(nil) is false and calls it a last time.
Return ==
    /\ pc = "return"
    /\ IF stack = <<>>
       THEN pc' = "done" /\ UNCHANGED stack
       ELSE /\ pc' = "menu"
            /\ stack' = (IF Head(stack) = "silent" THEN <<"wrong">> ELSE <<>>) \o Tail(stack)
    /\ UNCHANGED <<up, i, prisonInfo, callFutureTime, depth, knewPwd, newPwd, dialled>>

\* processModifyPwd calls itself after an entry that is no number or two that differ,
\* on a dead channel too; Lua ends the script when its stack is full.
NewPwdAgain ==
    /\ pc = "newpwd"
    /\ IF depth + 1 >= LuaStack
       THEN pc' = "done" /\ depth' = 0
       ELSE pc' = "newpwd" /\ depth' = depth + 1
    /\ UNCHANGED <<up, i, prisonInfo, callFutureTime, stack, knewPwd, newPwd, dialled>>

\* askModifyPhonePwd: the parameter newPwd is shadowed by the request's field.
Stored(p) == <<"newPwd=">> \o p

WithPwd(p) == [pwd |-> p, callTime |-> prisonInfo.callTime,
               surplustime |-> prisonInfo.surplustime, relatives |-> prisonInfo.relatives]

ModifyPwd ==
    /\ pc = "newpwd"
    /\ up
    /\ \/ up' \in BOOLEAN /\ UNCHANGED <<prisonInfo, newPwd>>     \* no answer, or refused
       \/ \E p \in NewPwds :
             /\ prisonInfo' = WithPwd(Stored(p))
             /\ newPwd' = p
             /\ UNCHANGED up
    /\ pc' = "menu" /\ depth' = 0
    /\ UNCHANGED <<i, callFutureTime, stack, knewPwd, dialled>>

Script == \/ Start \/ checkPoliceStatus \/ InputNo \/ NoPwd \/ RightPwd \/ WrongPwd
          \/ GiveUp \/ Silent \/ WrongKey \/ Help \/ callRelative \/ ConferenceOver
          \/ Return \/ NewPwdAgain \/ ModifyPwd

\* The caller puts the phone down, or the conference or the timer hangs the caller up.
HangUp ==
    /\ up /\ pc # "done"
    /\ up' = FALSE
    /\ UNCHANGED <<pc, i, prisonInfo, callFutureTime, stack, depth, knewPwd, newPwd, dialled>>

Next == Script \/ HangUp

Spec == Init /\ [][Next]_vars

\* The session thread runs the script: prompts and digits have time limits, and the
\* conference application returns once the channel is hung up.  While the caller is in
\* the conference nothing has to happen: a call may have no limit.
FairSpec == Spec /\ WF_vars((pc # "conference" \/ ~up) /\ Script)
-----------------------------------------------------------------------------
Places == {"start", "police", "number", "password", "menu", "return", "newpwd",
           "conference", "done"}

\* Type correctness of the script's state.
TypeOK == /\ pc \in Places /\ up \in BOOLEAN /\ i \in 1..3
          /\ callFutureTime \in 0..FutureLimit /\ depth \in 0..LuaStack
          /\ stack \in Seq({"silent", "wrong"})
          /\ prisonInfo \in Info /\ newPwd \in Seq(Texts)
          /\ knewPwd \in BOOLEAN /\ dialled \in Seq(Relative)

\* callRelative's comment at lines 613-614: the script must not go on to dial a second
\* time.  Outer calls of futureProcess do go on after a conference; what keeps them from
\* dialling is that the channel has been hung up, so that no key reaches them.
OneCall == Len(dialled) <= 1

\* A relative is dialled only for an inmate who has logged in and given the password in
\* this very call, has calls and money left, and only if the relative is not barred,
\* whatever failed or was hung up on the way.
DialledIsAllowed ==
    [][dialled' # dialled =>
          /\ knewPwd
          /\ prisonInfo.callTime > 0 /\ prisonInfo.surplustime > 0
          /\ \E r \in prisonInfo.relatives : ~r.telstatus /\ dialled' = Append(dialled, r)]_vars

\* Every run of the script ends, with the caller gone as well as there, unless the caller
\* stays in the conference for ever.  The hangup hook with its clearing up runs on the
\* same thread and has to wait for it.
ScriptEnds == <>(pc = "done") \/ <>[](pc = "conference" /\ up)

\* askModifyPhonePwd's comment at line 340: the new password is saved in prisonInfo.
NewPwdIsStored == newPwd # <<>> => prisonInfo.pwd = newPwd
=============================================================================

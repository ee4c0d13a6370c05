--------------------------- MODULE PrisonProofs ---------------------------
(***************************************************************************)
(* That the scripts around the conference of an extension leave nothing    *)
(* behind of a call, and cut a call off for its length only when it is     *)
(* over, for any number of calls; and that prison_app.lua dials at most    *)
(* one relative, and only one who may be dialled, for any accounts, any    *)
(* number of turns of the menu and any size of Lua's stack.                *)
(***************************************************************************)
EXTENDS PrisonApp, PrisonConference, TLAPS

(* Zenon proves the leaves that do not name the SMT solver. *)
USE ZenonT(60)
-----------------------------------------------------------------------------
(* The conference of an extension: what a step does *)

Over == {"report", "done"}

\* A call between its first step and the end of its hook.
Active(c) == script[c] \notin {"idle", "report", "done"}

\* Where a call is before its relative is dialled, and from then to its end.
BeforeDial == {"idle", "police", "dest", "dial"}
Talks      == {"times", "limit", "join", "in", "told"}

\* Where the hook is in clearSession.
Clears == {"free", "kill", "hup", "killdest", "forget"}

\* Where a call is while its entries may be in the table.
DestPlaces   == Talks \cup {"dial", "hook"} \cup Clears
TimesPlaces  == {"limit", "join", "in", "told", "hook", "free"}
RecordPlaces == {"join", "in", "told", "hook", "free"}
PolicePlaces == {"dest", "dial", "times"} \cup TimesPlaces

\* Where the limit in the table is that of the call.
LimitPlaces == {"join", "in", "told", "hook", "asleep"} \cup Clears

LegStates == {"none", "asked", "ringing", "answered", "talking", "told", "hung", "gone"}

\* A leg that is no more or never was, and one that has been answered or is no more.
Ended == {"none", "hung", "gone"}
Late  == {"answered", "talking", "told", "hung", "gone"}

Time    == Int \cup {NULL}
Entries == [begintime: Time, endtime: Time, maxdur: Time, actiontime: Time,
            dest: Calls \cup {NULL}]
Asrs    == [at: {"none", "end", "begin"}, nowTime: Int, maxdurVal: Int]

\* The types the proofs need; times are integers.
ConfTypes ==
    /\ now \in Int
    /\ hash \in Entries
    /\ script \in [Calls -> ConfPlaces]
    /\ maxdur \in [Calls -> Nat \cup {NULL}]
    /\ leg \in [Calls -> LegStates]
    /\ asr \in [Calls -> Asrs]
    /\ destUuid \in [Calls -> Calls \cup {NULL}]
    /\ answered \in [Calls -> Time]
    /\ policeId \subseteq Calls /\ recordTime \subseteq Calls

\* No leg comes back, and only bgdial makes one.
LegMoves(d) == /\ leg'[d] = "none" <=> leg[d] = "none"
               /\ leg[d] \in Ended => leg'[d] \in Ended
               /\ leg'[d] = "asked" => leg[d] = "asked"
               /\ leg[d] \in Late => leg'[d] \in Late

\* A step of the clock, of the loop, of the conference, of its members and of the legs:
\* legs move, and callers enter and leave.
Moves ==
    /\ now' \in {now, now + 1}
    /\ UNCHANGED <<hash, policeId, recordTime, maxdur, asr, destUuid, again, answered>>
    /\ script' \in [Calls -> ConfPlaces] /\ leg' \in [Calls -> LegStates]
    /\ \A d \in Calls :
          /\ LegMoves(d)
          /\ script'[d] = script[d] \/ (/\ script[d] \in {"join", "in", "told"}
                                       /\ script'[d] \in {"in", "told", "hook"})

\* The other steps: of the script, the hook and asr.lua of a call c, and of its people.
CallStep(c) ==
    \/ addPoliceJoinConf(c) \/ addRelativeJoinConf(c) \/ bgdial(c) \/ initConfTime(c)
    \/ initMaxDur(c) \/ getDestChannelUuid(c) \/ FreeEntries(c) \/ KillPolice(c)
    \/ HupConference(c) \/ KillDest(c) \/ ForgetDest(c) \/ Look(c) \/ sendPrisonConfFinishMsg(c)
    \/ AsrEndTime(c) \/ AsrBeginTime(c) \/ Answer(c) \/ Abandon(c) \/ resetConfBeginTime(c)

\* They leave the clock, the loop and the other calls alone ...
Frame(c) ==
    /\ now' = now /\ timer' = timer /\ maxdur' = maxdur
    /\ \A d \in Calls : d # c =>
          /\ script'[d] = script[d] /\ destUuid'[d] = destUuid[d]
          /\ asr'[d] = asr[d] /\ answered'[d] = answered[d]
          /\ d \in again' => d \in again

\* ... end legs and begin at most the call's own ...
LegsMove(c) ==
    /\ leg' \in [Calls -> LegStates]
    /\ \A d \in Calls : LegMoves(d) \/ (d = c /\ bgdial(c))

\* ... take the call from place to place ...
Progress(c) ==
    /\ script' \in [Calls -> ConfPlaces]
    /\ script[c] = "idle" => script'[c] = "idle" \/ resetConfBeginTime(c) \/ Abandon(c)
    /\ script'[c] = "idle" => script[c] = "idle"
    /\ script[c] \in Over => script'[c] \in Over
    /\ script[c] = "done" => script'[c] = "done"
    /\ script'[c] \in {"police", "dest", "dial"} => script[c] \in BeforeDial
    /\ script'[c] \in LimitPlaces => script[c] \in LimitPlaces \/ initMaxDur(c) \/ Abandon(c)

\* ... and write the table's entries.
Writes(c) ==
    /\ hash' \in Entries
    /\ recordTime' \subseteq recordTime \cup {c} /\ policeId' \subseteq policeId \cup {c}
    /\ hash'.dest = hash.dest \/ (Active(c) /\ hash'.dest \in {c, NULL})
    /\ \/ hash'.actiontime = NULL \/ script'[c] \in TimesPlaces
       \/ hash'.actiontime = hash.actiontime /\ script[c] \notin TimesPlaces
    /\ hash'.begintime = hash.begintime \/ AsrBeginTime(c) \/ resetConfBeginTime(c)
    /\ hash'.maxdur = hash.maxdur \/ initMaxDur(c)
    /\ hash'.endtime = hash.endtime \/ AsrEndTime(c)

\* Every step is of one of the two kinds.
LEMMA StepForms == ConfTypes /\ [ConfNext]_confVars => Moves \/ \E c \in Calls : CallStep(c)
<1> SUFFICES ASSUME ConfTypes, [ConfNext]_confVars, ~ \E c \in Calls : CallStep(c)
             PROVE  Moves
  OBVIOUS
<1>0. /\ script \in [Calls -> ConfPlaces] /\ leg \in [Calls -> LegStates]
      /\ \A l \in Members : l \in Late /\ l \in LegStates /\ l # "none"
  BY DEF ConfTypes, Members, Late, LegStates
<1>a. ASSUME now' \in {now, now + 1}, UNCHANGED <<table, script, leg, own, asr>> PROVE Moves
  BY <1>0, <1>a DEF table, own, Moves, LegMoves
<1>b. ASSUME NEW c \in Calls, NEW l \in LegStates, now' = now,
             UNCHANGED <<table, script, own, asr>>,
             leg' = [leg EXCEPT ![c] = l], l \notin {"none", "asked"}, leg[c] # "none",
             leg[c] \in {"hung", "gone"} => l \in {"hung", "gone"},
             leg[c] \in Late => l \in Late
      PROVE  Moves
  <2>1. /\ now' \in {now, now + 1} /\ leg' \in [Calls -> LegStates]
        /\ UNCHANGED <<hash, policeId, recordTime, script, maxdur, asr, destUuid, again, answered>>
    BY <1>0, <1>b DEF table, own
  <2>2. \A d \in Calls : LegMoves(d)
    BY <1>0, <1>b DEF LegMoves, Ended
  <2> QED
    BY <1>0, <2>1, <2>2 DEF Moves
<1>c. ASSUME NEW c \in Calls, NEW p \in {"in", "told", "hook"}, now' = now,
             UNCHANGED <<table, leg, own, asr>>,
             script' = [script EXCEPT ![c] = p], script[c] \in {"join", "in", "told"}
      PROVE  Moves
  <2>1. /\ now' \in {now, now + 1} /\ script' \in [Calls -> ConfPlaces]
        /\ UNCHANGED <<hash, policeId, recordTime, leg, maxdur, asr, destUuid, again, answered>>
    BY <1>0, <1>c DEF table, own, ConfPlaces
  <2>2. \A d \in Calls : LegMoves(d)
    BY <1>c DEF LegMoves
  <2>3. \A d \in Calls : \/ script'[d] = script[d]
                          \/ /\ script[d] \in {"join", "in", "told"}
                             /\ script'[d] \in {"in", "told", "hook"}
    BY <1>0, <1>c
  <2> QED
    BY <1>0, <2>1, <2>2, <2>3 DEF Moves
<1>d. ASSUME now' = now, UNCHANGED <<table, own, asr>>, NEW L, L \subseteq Members,
             NEW l \in {"told", "hung"}, "hung" \in L => l = "hung",
             leg' = [c \in Calls |-> IF leg[c] \in L THEN l ELSE leg[c]],
             script' = [c \in Calls |-> IF script[c] = "in" THEN "told" ELSE script[c]]
      PROVE  Moves
  <2>1. /\ now' \in {now, now + 1}
        /\ UNCHANGED <<hash, policeId, recordTime, maxdur, asr, destUuid, again, answered>>
    BY <1>d DEF table, own
  <2>2. l \in LegStates /\ l \in Late /\ l \notin {"none", "asked"}
    BY <1>d DEF LegStates, Late
  <2>3. leg' \in [Calls -> LegStates] /\ script' \in [Calls -> ConfPlaces]
    BY <1>0, <1>d, <2>2 DEF ConfPlaces
  <2>4. \A d \in Calls : LegMoves(d)
    <3>1. SUFFICES ASSUME NEW d \in Calls PROVE LegMoves(d)
      OBVIOUS
    <3>2. CASE leg[d] \in L
      <4>1. leg'[d] = l /\ leg[d] \in Members
        BY <1>d, <3>2
      <4>2. leg[d] \in Ended => l \in Ended
        BY <1>d, <3>2, <4>1 DEF Members, Ended
      <4> QED
        BY <1>0, <2>2, <4>1, <4>2 DEF LegMoves
    <3>3. CASE leg[d] \notin L
      BY <1>d, <3>3 DEF LegMoves
    <3> QED
      BY <3>2, <3>3
  <2>5. \A d \in Calls : script'[d] = script[d] \/ (script[d] = "in" /\ script'[d] = "told")
    BY <1>d
  <2> QED
    BY <1>0, <2>1, <2>3, <2>4, <2>5 DEF Moves
<1>e. ASSUME HupAll, UNCHANGED <<now, table, own, asr>> PROVE Moves
  <2>1. CASE Found
    <3>1. {"talking"} \subseteq Members /\ "hung" \notin {"talking"}
      BY DEF Members
    <3>2. leg' = [c \in Calls |-> IF leg[c] \in {"talking"} THEN "told" ELSE leg[c]]
      BY <1>e, <2>1 DEF HupAll
    <3> QED
      BY <1>d, <1>e, <2>1, <3>1, <3>2 DEF HupAll
  <2>2. CASE ~Found
    BY <1>a, <1>e, <2>2 DEF HupAll
  <2> QED
    BY <2>1, <2>2
<1>1. CASE Tick
  BY <1>a, <1>1 DEF Tick, conf
<1>2. CASE Timer
  <2>1. CASE TimerList
    BY <1>a, <2>1 DEF TimerList, Reads, conf
  <2>2. CASE getConfActionTime
    BY <1>a, <2>2 DEF getConfActionTime, Reads, conf
  <2>3. CASE getConfBeginTime
    BY <1>a, <2>3 DEF getConfBeginTime, Reads, conf
  <2>4. CASE getConfEndTime
    BY <1>a, <2>4 DEF getConfEndTime, Reads, conf
  <2>5. CASE getConfDestUuId
    BY <1>a, <2>5 DEF getConfDestUuId, Reads, conf
  <2>6. CASE TimerLegs
    BY <1>a, <2>6 DEF TimerLegs, Reads, conf
  <2>7. CASE TimerHup
    BY <1>e, <2>7 DEF TimerHup
  <2>8. CASE TimerLimit
    BY <1>a, <1>e, <2>8 DEF TimerLimit, conf
  <2> QED
    BY <1>2, <2>1, <2>2, <2>3, <2>4, <2>5, <2>6, <2>7, <2>8 DEF Timer
<1>3. CASE ConferenceThread
  <2>1. Members \subseteq Members
    OBVIOUS
  <2> QED
    BY <1>d, <1>3, <2>1 DEF ConferenceThread
<1>4. CASE Police \/ PoliceLeaves
  BY <1>a, <1>4 DEF Police, PoliceComes, PoliceGoes, PoliceLeaves, PoliceIsOut
<1>5. ASSUME NEW c \in Calls, addPrisonJoinConf(c) PROVE Moves
  BY <1>c, <1>5 DEF addPrisonJoinConf, To
<1>6. ASSUME NEW c \in Calls, CallerLeaves(c) \/ CallerGoes(c) PROVE Moves
  BY <1>c, <1>6 DEF CallerLeaves, CallerGoes, CallerIsOut
<1>7. ASSUME NEW c \in Calls, Ring(c) PROVE Moves
  BY <1>b, <1>7 DEF Ring, LegStates, Late
<1>8. ASSUME NEW c \in Calls, Join(c) PROVE Moves
  BY <1>b, <1>8 DEF Join, LegStates, Late
<1>9. ASSUME NEW c \in Calls, LegEnds(c) PROVE Moves
  <2>1. leg' = [leg EXCEPT ![c] = Hangup(leg[c])] /\ leg[c] \in {"ringing", "answered", "talking"}
    BY <1>0, <1>9 DEF LegEnds
  <2>2. Hangup(leg[c]) \in {"hung", "gone"}
    BY <2>1 DEF Hangup
  <2> QED
    BY <1>b, <1>9, <2>1, <2>2 DEF LegEnds, LegStates, Late
<1>10. ASSUME NEW c \in Calls, LegGoes(c) PROVE Moves
  BY <1>b, <1>10 DEF LegGoes, LegStates, Late
<1>11. CASE UNCHANGED confVars
  BY <1>a, <1>11 DEF confVars, table, own
<1> QED
  BY <1>1, <1>2, <1>3, <1>4, <1>5, <1>6, <1>7, <1>8, <1>9, <1>10, <1>11
     DEF ConfNext, CallStep, ScriptStep, Asr, Leg, People

\* The calls are numbers, and no call is NULL.
LEMMA CallsAreNumbers == Calls \subseteq Int /\ NULL \notin Calls /\ NULL \notin Int
                         /\ \A c, d \in Calls : d < c => d \in 1..(c - 1)
<1> DEFINE n == Cardinality(Calls)
<1>0. Calls = 1..n
  BY CallsAssumption
<1> HIDE DEF n
<1>1. Calls \subseteq Int /\ \A c, d \in Calls : d < c => d \in 1..(c - 1)
  BY <1>0, SMTT(60)
<1> QED
  BY <1>1, TimesAssumption

\* A step of a call leaves the clock, the loop and the other calls alone.
LEMMA FrameHolds == ASSUME ConfTypes, NEW c \in Calls, CallStep(c) PROVE Frame(c)
<1>0. /\ script \in [Calls -> ConfPlaces] /\ destUuid \in [Calls -> Calls \cup {NULL}]
      /\ asr \in [Calls -> Asrs] /\ answered \in [Calls -> Time]
  BY DEF ConfTypes
<1>1. CASE addPoliceJoinConf(c)
  BY <1>0, <1>1 DEF addPoliceJoinConf, To, table, own, conf, Frame
<1>2. CASE addRelativeJoinConf(c)
  BY <1>0, <1>2 DEF addRelativeJoinConf, To, table, own, conf, Frame
<1>3. CASE bgdial(c)
  BY <1>0, <1>3 DEF bgdial, To, table, own, conf, Frame
<1>4. CASE initConfTime(c)
  BY <1>0, <1>4 DEF initConfTime, To, table, own, conf, Frame
<1>5. CASE initMaxDur(c)
  BY <1>0, <1>5 DEF initMaxDur, To, table, own, conf, Frame
<1>6. CASE getDestChannelUuid(c)
  BY <1>0, <1>6 DEF getDestChannelUuid, To, table, own, conf, Frame
<1>7. CASE FreeEntries(c)
  BY <1>0, <1>7 DEF FreeEntries, To, table, own, conf, Frame
<1>8. CASE KillPolice(c)
  BY <1>0, <1>8 DEF KillPolice, policeUuid, uuid_kill, Hangup, To, table, own, conf, Frame
<1>9. CASE HupConference(c)
  BY <1>0, <1>9 DEF HupConference, Cleared, To, table, own, conf, Frame
<1>10. CASE KillDest(c)
  BY <1>0, <1>10 DEF KillDest, uuid_kill, Hangup, To, table, own, conf, Frame
<1>11. CASE ForgetDest(c)
  BY <1>0, <1>11 DEF ForgetDest, Cleared, To, table, own, conf, Frame
<1>12. CASE Look(c)
  BY <1>0, <1>12 DEF Look, To, table, own, conf, Frame
<1>13. CASE sendPrisonConfFinishMsg(c)
  BY <1>0, <1>13 DEF sendPrisonConfFinishMsg, To, table, own, conf, Frame
<1>14. CASE AsrEndTime(c)
  BY <1>0, <1>14 DEF AsrEndTime, table, own, conf, Frame
<1>15. CASE AsrBeginTime(c)
  BY <1>0, <1>15 DEF AsrBeginTime, NoAsr, table, own, conf, Frame
<1>16. CASE Answer(c)
  BY <1>0, <1>16 DEF Answer, table, own, conf, Frame
<1>17. CASE Abandon(c)
  BY <1>0, <1>17 DEF Abandon, To, table, own, conf, Frame
<1>18. CASE resetConfBeginTime(c)
  BY <1>0, <1>18 DEF resetConfBeginTime, To, table, own, conf, Frame
<1> QED
  BY <1>1, <1>2, <1>3, <1>4, <1>5, <1>6, <1>7, <1>8, <1>9, <1>10, <1>11, <1>12, <1>13,
     <1>14, <1>15, <1>16, <1>17, <1>18 DEF CallStep

\* It ends legs, and only bgdial begins one.
LEMMA LegsMoveHolds == ASSUME ConfTypes, NEW c \in Calls, CallStep(c) PROVE LegsMove(c)
<1>0. leg \in [Calls -> LegStates] /\ NULL \notin Calls
  BY CallsAreNumbers DEF ConfTypes
<1>a. ASSUME NEW e, leg' = [leg EXCEPT ![e] = Hangup(leg[e])]
      PROVE  leg' \in [Calls -> LegStates] /\ \A d \in Calls : LegMoves(d)
  <2>1. leg' \in [Calls -> LegStates]
    <3>1. CASE e \in Calls
      <4>1. Hangup(leg[e]) \in LegStates
        BY <1>0, <3>1, SMTT(60) DEF Hangup, LegStates
      <4> QED
        BY <1>0, <1>a, <4>1
    <3>2. CASE e \notin Calls
      BY <1>0, <1>a, <3>2
    <3> QED
      BY <3>1, <3>2
  <2>2. ASSUME NEW d \in Calls PROVE LegMoves(d)
    <3>1. leg'[d] = leg[d] \/ leg'[d] = Hangup(leg[d])
      BY <1>0, <1>a
    <3>2. CASE leg'[d] = leg[d]
      BY <3>2 DEF LegMoves
    <3>3. CASE leg'[d] = Hangup(leg[d])
      <4>1. leg[d] \in LegStates
        BY <1>0
      <4> QED
        BY <3>3, <4>1, SMTT(60) DEF LegMoves, Hangup, LegStates, Ended, Late
    <3> QED
      BY <3>1, <3>2, <3>3
  <2> QED
    BY <2>1, <2>2
<1>b. ASSUME leg' = leg PROVE LegsMove(c)
  BY <1>0, <1>b DEF LegsMove, LegMoves
<1>1. CASE addPoliceJoinConf(c)
  BY <1>b, <1>1 DEF addPoliceJoinConf, conf
<1>2. CASE addRelativeJoinConf(c)
  BY <1>b, <1>2 DEF addRelativeJoinConf, conf
<1>3. CASE bgdial(c)
  <2>1. leg' = [leg EXCEPT ![c] = "asked"] /\ bgdial(c)
    BY <1>3 DEF bgdial
  <2> QED
    BY <1>0, <2>1 DEF LegsMove, LegMoves, LegStates
<1>4. CASE initConfTime(c)
  BY <1>b, <1>4 DEF initConfTime, conf
<1>5. CASE initMaxDur(c)
  BY <1>b, <1>5 DEF initMaxDur, conf
<1>6. CASE getDestChannelUuid(c)
  BY <1>b, <1>6 DEF getDestChannelUuid, conf
<1>7. CASE FreeEntries(c)
  BY <1>b, <1>7 DEF FreeEntries, conf
<1>8. CASE KillPolice(c)
  <2>1. leg' = [leg EXCEPT ![destUuid[c]] = Hangup(leg[destUuid[c]])]
    BY <1>8 DEF KillPolice, policeUuid, uuid_kill
  <2> QED
    BY <1>0, <1>a, <2>1 DEF LegsMove
<1>9. CASE HupConference(c)
  <2>1. CASE Found
    <3>1. leg' = [d \in Calls |-> IF leg[d] = "talking" THEN "told" ELSE leg[d]]
      BY <1>9, <2>1 DEF HupConference
    <3>2. leg' \in [Calls -> LegStates]
      BY <1>0, <3>1 DEF LegStates
    <3> QED
      BY <1>0, <3>1, <3>2 DEF LegsMove, LegMoves, Ended, Late
  <2>2. CASE ~Found
    BY <1>0, <1>b, <1>9, <2>2 DEF HupConference
  <2> QED
    BY <2>1, <2>2
<1>10. CASE KillDest(c)
  <2>1. leg' = [leg EXCEPT ![destUuid[c]] = Hangup(leg[destUuid[c]])]
    BY <1>10 DEF KillDest, uuid_kill
  <2> QED
    BY <1>0, <1>a, <2>1 DEF LegsMove
<1>11. CASE ForgetDest(c)
  BY <1>b, <1>11 DEF ForgetDest, conf
<1>12. CASE Look(c)
  BY <1>b, <1>12 DEF Look, conf
<1>13. CASE sendPrisonConfFinishMsg(c)
  BY <1>b, <1>13 DEF sendPrisonConfFinishMsg, conf
<1>14. CASE AsrEndTime(c)
  BY <1>b, <1>14 DEF AsrEndTime, conf
<1>15. CASE AsrBeginTime(c)
  BY <1>b, <1>15 DEF AsrBeginTime, conf
<1>16. CASE Answer(c)
  <2>1. leg' = [leg EXCEPT ![c] = "answered"] /\ leg[c] = "ringing"
    BY <1>16 DEF Answer
  <2> QED
    BY <1>0, <2>1 DEF LegsMove, LegMoves, LegStates, Ended, Late
<1>17. CASE Abandon(c)
  BY <1>b, <1>17 DEF Abandon, conf
<1>18. CASE resetConfBeginTime(c)
  BY <1>b, <1>18 DEF resetConfBeginTime, conf
<1> QED
  BY <1>1, <1>2, <1>3, <1>4, <1>5, <1>6, <1>7, <1>8, <1>9, <1>10, <1>11, <1>12, <1>13,
     <1>14, <1>15, <1>16, <1>17, <1>18 DEF CallStep

\* It takes the call from place to place.
LEMMA ProgressHolds == ASSUME ConfTypes, NEW c \in Calls, CallStep(c) PROVE Progress(c)
<1>0. script \in [Calls -> ConfPlaces]
  BY DEF ConfTypes
<1>1. CASE addPoliceJoinConf(c)
  BY <1>0, <1>1 DEF addPoliceJoinConf, To, table, own, conf, Progress, ConfPlaces,
     LimitPlaces, Clears, BeforeDial, Over
<1>2. CASE addRelativeJoinConf(c)
  BY <1>0, <1>2 DEF addRelativeJoinConf, To, table, own, conf, Progress, ConfPlaces,
     LimitPlaces, Clears, BeforeDial, Over
<1>3. CASE bgdial(c)
  BY <1>0, <1>3 DEF bgdial, To, table, own, conf, Progress, ConfPlaces, LimitPlaces, Clears,
     BeforeDial, Over
<1>4. CASE initConfTime(c)
  BY <1>0, <1>4 DEF initConfTime, To, table, own, conf, Progress, ConfPlaces, LimitPlaces,
     Clears, BeforeDial, Over
<1>5. CASE initMaxDur(c)
  BY <1>0, <1>5 DEF initMaxDur, To, table, own, conf, Progress, ConfPlaces, LimitPlaces,
     Clears, BeforeDial, Over
<1>6. CASE getDestChannelUuid(c)
  BY <1>0, <1>6 DEF getDestChannelUuid, To, table, own, conf, Progress, ConfPlaces,
     LimitPlaces, Clears, BeforeDial, Over
<1>7. CASE FreeEntries(c)
  BY <1>0, <1>7 DEF FreeEntries, To, table, own, conf, Progress, ConfPlaces, LimitPlaces,
     Clears, BeforeDial, Over
<1>8. CASE KillPolice(c)
  BY <1>0, <1>8 DEF KillPolice, policeUuid, uuid_kill, Hangup, To, table, own, conf,
     Progress, ConfPlaces, LimitPlaces, Clears, BeforeDial, Over
<1>9. CASE HupConference(c)
  BY <1>0, <1>9 DEF HupConference, Cleared, To, table, own, conf, Progress, ConfPlaces,
     LimitPlaces, Clears, BeforeDial, Over
<1>10. CASE KillDest(c)
  BY <1>0, <1>10 DEF KillDest, uuid_kill, Hangup, To, table, own, conf, Progress,
     ConfPlaces, LimitPlaces, Clears, BeforeDial, Over
<1>11. CASE ForgetDest(c)
  BY <1>0, <1>11 DEF ForgetDest, Cleared, To, table, own, conf, Progress, ConfPlaces,
     LimitPlaces, Clears, BeforeDial, Over
<1>12. CASE Look(c)
  BY <1>0, <1>12 DEF Look, To, table, own, conf, Progress, ConfPlaces, LimitPlaces, Clears,
     BeforeDial, Over
<1>13. CASE sendPrisonConfFinishMsg(c)
  BY <1>0, <1>13 DEF sendPrisonConfFinishMsg, To, table, own, conf, Progress, ConfPlaces,
     LimitPlaces, Clears, BeforeDial, Over
<1>14. CASE AsrEndTime(c)
  BY <1>0, <1>14 DEF AsrEndTime, table, own, conf, Progress, ConfPlaces, LimitPlaces,
     Clears, BeforeDial, Over
<1>15. CASE AsrBeginTime(c)
  BY <1>0, <1>15 DEF AsrBeginTime, NoAsr, table, own, conf, Progress, ConfPlaces,
     LimitPlaces, Clears, BeforeDial, Over
<1>16. CASE Answer(c)
  BY <1>0, <1>16 DEF Answer, table, own, conf, Progress, ConfPlaces, LimitPlaces, Clears,
     BeforeDial, Over
<1>17. CASE Abandon(c)
  BY <1>0, <1>17 DEF Abandon, To, table, own, conf, Progress, ConfPlaces, LimitPlaces,
     Clears, BeforeDial, Over
<1>18. CASE resetConfBeginTime(c)
  BY <1>0, <1>18 DEF resetConfBeginTime, To, table, own, conf, Progress, ConfPlaces,
     LimitPlaces, Clears, BeforeDial, Over
<1> QED
  BY <1>1, <1>2, <1>3, <1>4, <1>5, <1>6, <1>7, <1>8, <1>9, <1>10, <1>11, <1>12, <1>13,
     <1>14, <1>15, <1>16, <1>17, <1>18 DEF CallStep

\* It writes the table's entries.
LEMMA WritesHolds == ASSUME ConfTypes, NEW c \in Calls, CallStep(c) PROVE Writes(c)
<1>0. /\ hash \in Entries /\ script \in [Calls -> ConfPlaces] /\ now \in Int
      /\ 0 \in Time /\ NULL \in Time /\ maxdur[c] \in Time
  BY SMTT(60) DEF ConfTypes, Time
<1>a. ASSUME UNCHANGED table, script[c] \in TimesPlaces => script'[c] \in TimesPlaces
      PROVE  Writes(c)
  BY <1>0, <1>a DEF Writes, table
<1>1. CASE addPoliceJoinConf(c)
  <2>1. /\ hash' = hash /\ recordTime' = recordTime /\ policeId' \subseteq policeId \cup {c}
        /\ script[c] \notin TimesPlaces
    BY <1>1 DEF addPoliceJoinConf, TimesPlaces
  <2> QED
    BY <1>0, <2>1 DEF Writes
<1>2. CASE addRelativeJoinConf(c)
  <2>1. hash' = [hash EXCEPT !.dest = c]
    BY <1>2 DEF addRelativeJoinConf
  <2>2. /\ Active(c) /\ script[c] \notin TimesPlaces
        /\ UNCHANGED <<recordTime, policeId>>
    BY <1>0, <1>2 DEF addRelativeJoinConf, To, Active, TimesPlaces
  <2> QED
    BY <1>0, <1>2, <2>1, <2>2 DEF Writes, Entries
<1>3. CASE bgdial(c)
  BY <1>0, <1>a, <1>3 DEF bgdial, To, TimesPlaces, table
<1>4. CASE initConfTime(c)
  <2>1. hash' = [hash EXCEPT !.actiontime = now]
    BY <1>4 DEF initConfTime
  <2>2. /\ Active(c) /\ script'[c] \in TimesPlaces /\ now \in Time
        /\ UNCHANGED <<recordTime, policeId>>
    BY <1>0, <1>4 DEF initConfTime, To, Active, TimesPlaces, Time
  <2> QED
    BY <1>0, <1>4, <2>1, <2>2 DEF Writes, Entries
<1>5. CASE initMaxDur(c)
  <2>1. PICK m \in Time : hash' = [hash EXCEPT !.maxdur = m]
    <3> DEFINE m == IF maxdur[c] = NULL THEN hash.maxdur ELSE maxdur[c]
    <3>1. m \in Time
      BY <1>0 DEF Entries
    <3>2. hash' = [hash EXCEPT !.maxdur = m]
      BY <1>5 DEF initMaxDur
    <3> QED
      BY <3>1, <3>2
  <2>2. /\ Active(c) /\ script'[c] \in TimesPlaces
        /\ recordTime' \subseteq recordTime \cup {c} /\ policeId' = policeId
    BY <1>0, <1>5 DEF initMaxDur, To, Active, TimesPlaces
  <2> QED
    BY <1>0, <1>5, <2>1, <2>2 DEF Writes, Entries
<1>6. CASE getDestChannelUuid(c)
  BY <1>0, <1>a, <1>6 DEF getDestChannelUuid, To, TimesPlaces, table
<1>7. CASE FreeEntries(c)
  <2>1. hash' = [hash EXCEPT !.actiontime = NULL]
    BY <1>7 DEF FreeEntries
  <2>2. recordTime' \subseteq recordTime /\ policeId' \subseteq policeId
    BY <1>0, <1>7 DEF FreeEntries, To, Active, TimesPlaces
  <2> QED
    BY <1>0, <1>7, <2>1, <2>2 DEF Writes, Entries
<1>8. CASE KillPolice(c)
  BY <1>0, <1>a, <1>8 DEF KillPolice, To, TimesPlaces, table
<1>9. CASE HupConference(c)
  BY <1>0, <1>a, <1>9 DEF HupConference, Cleared, To, TimesPlaces, table
<1>10. CASE KillDest(c)
  BY <1>0, <1>a, <1>10 DEF KillDest, To, TimesPlaces, table
<1>11. CASE ForgetDest(c)
  <2>1. hash' = [hash EXCEPT !.dest = NULL]
    BY <1>11 DEF ForgetDest
  <2>2. /\ Active(c) /\ script[c] \notin TimesPlaces
        /\ UNCHANGED <<recordTime, policeId>>
    BY <1>0, <1>11 DEF ForgetDest, To, Active, TimesPlaces
  <2> QED
    BY <1>0, <1>11, <2>1, <2>2 DEF Writes, Entries
<1>12. CASE Look(c)
  BY <1>0, <1>a, <1>12 DEF Look, To, TimesPlaces, table
<1>13. CASE sendPrisonConfFinishMsg(c)
  BY <1>0, <1>a, <1>13 DEF sendPrisonConfFinishMsg, To, TimesPlaces, table
<1>14. CASE AsrEndTime(c)
  <2>1. asr[c].nowTime + asr[c].maxdurVal * Minute \in Time
    BY TimesAssumption, SMTT(60) DEF ConfTypes, Asrs, Time
  <2>2. UNCHANGED <<recordTime, policeId, script>>
    BY <1>14 DEF AsrEndTime
  <2>3. CASE asr[c].maxdurVal > 0
    <3>1. hash' = [hash EXCEPT !.endtime = asr[c].nowTime + asr[c].maxdurVal * Minute]
      BY <1>14, <2>3 DEF AsrEndTime
    <3> QED
      BY <1>0, <1>14, <2>1, <2>2, <3>1 DEF Writes, Entries
  <2>4. CASE ~(asr[c].maxdurVal > 0)
    BY <1>a, <1>14, <2>2, <2>4 DEF AsrEndTime, table
  <2> QED
    BY <2>3, <2>4
<1>15. CASE AsrBeginTime(c)
  <2>1. asr[c].nowTime \in Time
    BY DEF ConfTypes, Asrs, Time
  <2>2. UNCHANGED <<recordTime, policeId, script>>
    BY <1>15 DEF AsrBeginTime
  <2>3. hash' = [hash EXCEPT !.begintime = asr[c].nowTime]
    BY <1>15 DEF AsrBeginTime
  <2> QED
    BY <1>0, <1>15, <2>1, <2>2, <2>3 DEF Writes, Entries
<1>16. CASE Answer(c)
  BY <1>0, <1>a, <1>16 DEF Answer, TimesPlaces, table
<1>17. CASE Abandon(c)
  BY <1>0, <1>a, <1>17 DEF Abandon, To, TimesPlaces, table
<1>18. CASE resetConfBeginTime(c)
  <2>1. hash' = [hash EXCEPT !.begintime = 0]
    BY <1>18 DEF resetConfBeginTime
  <2>2. /\ script[c] \notin TimesPlaces
        /\ UNCHANGED <<recordTime, policeId>>
    BY <1>0, <1>18 DEF resetConfBeginTime, To, Active, TimesPlaces
  <2> QED
    BY <1>0, <1>18, <2>1, <2>2 DEF Writes, Entries
<1> QED
  BY <1>1, <1>2, <1>3, <1>4, <1>5, <1>6, <1>7, <1>8, <1>9, <1>10, <1>11, <1>12, <1>13,
     <1>14, <1>15, <1>16, <1>17, <1>18 DEF CallStep

-----------------------------------------------------------------------------
(* The conference of an extension: what is left of a call *)

\* Calls follow each other: with one begun, those before it are reported.
InOrder == \A c, d \in Calls : c < d /\ script[d] # "idle" => script[c] = "done"

\* The relative's channel belongs to the part of the call from bgdial on.  The hook that
\* clears for the second time has seen the channel, so that the dialling thread is through.
LegOf(c) == /\ script[c] \in BeforeDial => leg[c] = "none"
            /\ script[c] \in Talks => leg[c] # "none"
            /\ c \in again => script[c] \in Clears \cup {"report"} /\ leg[c] # "asked"
            /\ c \in again /\ script[c] = "forget" => leg[c] \in Ended
            /\ DialsInTime /\ script[c] \in Over => leg[c] \in Ended

\* The entry dest, or what the hook has read of it, names the channel while there is one.
DestOf(c) == /\ destUuid[c] \in {NULL, c}
             /\ script[c] \in Talks \cup {"dial"} => hash.dest = c
             /\ script[c] = "hook" /\ leg[c] # "none" => hash.dest = c
             /\ script[c] \in Clears \cup {"asleep"} /\ leg[c] # "none" => destUuid[c] = c
             /\ script[c] \in Clears => hash.dest \in {NULL, destUuid[c]}

\* An entry of the table belongs to a call whose hook has not yet cleared it.
EntriesOf(c) == /\ hash.dest = c => script[c] \in DestPlaces
                /\ c \in recordTime => script[c] \in RecordPlaces
                /\ c \in policeId => script[c] \in PolicePlaces

CallInv(c) == LegOf(c) /\ DestOf(c) /\ EntriesOf(c)

ActionInv == hash.actiontime # NULL => \E c \in Calls : script[c] \in TimesPlaces

ConfInv == ConfTypes /\ InOrder /\ (\A c \in Calls : CallInv(c)) /\ ActionInv

\* Only one call is active at a time.
LEMMA OneActive == InOrder => \A c, d \in Calls : Active(c) /\ Active(d) => c = d
BY CallsAreNumbers, SMTT(60) DEF InOrder, Active

\* Every step keeps the types.
LEMMA ConfTypesStep == ConfTypes /\ [ConfNext]_confVars => ConfTypes'
<1> SUFFICES ASSUME ConfTypes, [ConfNext]_confVars PROVE ConfTypes'
  OBVIOUS
<1>1. CASE Moves
  <2>1. now' \in Int
    BY <1>1, SMTT(60) DEF Moves, ConfTypes
  <2> QED
    BY <1>1, <2>1 DEF Moves, ConfTypes
<1>2. ASSUME NEW c \in Calls, CallStep(c) PROVE ConfTypes'
  <2>1. Frame(c) /\ LegsMove(c) /\ Progress(c) /\ Writes(c)
    BY <1>2, FrameHolds, LegsMoveHolds, ProgressHolds, WritesHolds
  <2>2. /\ now' \in Int /\ hash' \in Entries /\ script' \in [Calls -> ConfPlaces]
        /\ maxdur' \in [Calls -> Nat \cup {NULL}] /\ leg' \in [Calls -> LegStates]
        /\ policeId' \subseteq Calls /\ recordTime' \subseteq Calls
    BY <2>1 DEF Frame, LegsMove, Progress, Writes, ConfTypes
  <2>3. asr' \in [Calls -> Asrs]
    <3>1. CASE AsrEndTime(c)
      BY <3>1 DEF AsrEndTime, ConfTypes, Asrs
    <3>2. CASE AsrBeginTime(c)
      <4>1. NoAsr \in Asrs
        BY SMTT(60) DEF NoAsr, Asrs
      <4> QED
        BY <3>2, <4>1 DEF AsrBeginTime, ConfTypes
    <3>3. CASE Answer(c)
      <4>1. now \in Int /\ Number(hash.maxdur) \in Int
        BY SMTT(60) DEF ConfTypes, Entries, Number, Time
      <4>2. [at |-> "end", nowTime |-> now, maxdurVal |-> Number(hash.maxdur)] \in Asrs
        BY <4>1 DEF Asrs
      <4> QED
        BY <3>3, <4>2 DEF Answer, ConfTypes
    <3>4. CASE asr' = asr
      BY <3>4 DEF ConfTypes
    <3> QED
      BY <1>2, <3>1, <3>2, <3>3, <3>4 DEF CallStep, addPoliceJoinConf, addRelativeJoinConf,
         bgdial, initConfTime, initMaxDur, getDestChannelUuid, FreeEntries, KillPolice,
         HupConference, KillDest, ForgetDest, Look, sendPrisonConfFinishMsg, Abandon,
         resetConfBeginTime
  <2>4. destUuid' \in [Calls -> Calls \cup {NULL}]
    <3>1. CASE getDestChannelUuid(c)
      <4>1. hash.dest \in Calls \cup {NULL}
        BY DEF ConfTypes, Entries
      <4> QED
        BY <3>1, <4>1 DEF getDestChannelUuid, ConfTypes
    <3>2. CASE sendPrisonConfFinishMsg(c)
      BY <3>2 DEF sendPrisonConfFinishMsg, ConfTypes
    <3>3. CASE destUuid' = destUuid
      BY <3>3 DEF ConfTypes
    <3> QED
      BY <1>2, <3>1, <3>2, <3>3 DEF CallStep, addPoliceJoinConf, addRelativeJoinConf,
         bgdial, initConfTime, initMaxDur, FreeEntries, KillPolice, HupConference, KillDest,
         ForgetDest, Look, AsrEndTime, AsrBeginTime, Answer, Abandon, resetConfBeginTime,
         own
  <2>5. answered' \in [Calls -> Time]
    <3>1. CASE Answer(c)
      <4>1. now \in Time
        BY DEF ConfTypes, Time
      <4> QED
        BY <3>1, <4>1 DEF Answer, ConfTypes
    <3>2. CASE sendPrisonConfFinishMsg(c)
      <4>1. NULL \in Time
        BY DEF Time
      <4> QED
        BY <3>2, <4>1 DEF sendPrisonConfFinishMsg, ConfTypes
    <3>3. CASE answered' = answered
      BY <3>3 DEF ConfTypes
    <3> QED
      BY <1>2, <3>1, <3>2, <3>3 DEF CallStep, addPoliceJoinConf, addRelativeJoinConf,
         bgdial, initConfTime, initMaxDur, getDestChannelUuid, FreeEntries, KillPolice,
         HupConference, KillDest, ForgetDest, Look, AsrEndTime, AsrBeginTime, Abandon,
         resetConfBeginTime, own
  <2> QED
    BY <2>2, <2>3, <2>4, <2>5 DEF ConfTypes
<1> QED
  BY <1>1, <1>2, StepForms

\* A call begins when those before it are reported, which they stay.
LEMMA InOrderStep == ConfTypes /\ InOrder /\ [ConfNext]_confVars => InOrder'
<1> SUFFICES ASSUME ConfTypes, InOrder, [ConfNext]_confVars, NEW c \in Calls, NEW d \in Calls,
                    c < d, script'[d] # "idle"
             PROVE  script'[c] = "done"
  BY DEF InOrder
<1>1. CASE Moves
  <2>1. script[d] # "idle"
    BY <1>1 DEF Moves
  <2>2. script[c] = "done"
    BY <2>1 DEF InOrder
  <2> QED
    BY <1>1, <2>2 DEF Moves
<1>2. ASSUME NEW e \in Calls, CallStep(e) PROVE script'[c] = "done"
  <2>1. Frame(e) /\ Progress(e)
    BY <1>2, FrameHolds, ProgressHolds
  <2>2. script[c] = "done" => script'[c] = "done"
    BY <2>1 DEF Frame, Progress
  <2>3. CASE script[d] # "idle"
    BY <2>2, <2>3 DEF InOrder
  <2>4. CASE script[d] = "idle"
    <3>1. d = e /\ Settled(d)
      BY <2>1, <2>4 DEF Frame, Progress, resetConfBeginTime, Abandon
    <3>2. c \in 1..(d - 1)
      BY CallsAreNumbers
    <3> QED
      BY <2>2, <3>1, <3>2 DEF Settled
  <2> QED
    BY <2>3, <2>4
<1> QED
  BY <1>1, <1>2, StepForms

\* What is not a call's own step keeps what holds of the call.
LEMMA OthersKeep ==
    ASSUME ConfTypes, InOrder, NEW d \in Calls, CallInv(d), NEW c \in Calls, CallStep(c), d # c
    PROVE  CallInv(d)'
<1>0. /\ script'[d] = script[d] /\ destUuid'[d] = destUuid[d] /\ (d \in again' => d \in again)
      /\ LegMoves(d)
  BY FrameHolds, LegsMoveHolds DEF Frame, LegsMove
<1>1. LegOf(d)'
  BY <1>0 DEF CallInv, LegOf, LegMoves, Ended
<1>2. Writes(c) /\ NULL \notin Calls
  BY WritesHolds, CallsAreNumbers
<1>3. DestOf(d)'
  <2>1. CASE hash'.dest = hash.dest
    BY <1>0, <2>1 DEF CallInv, DestOf, LegMoves
  <2>2. CASE Active(c)
    <3>1. script[d] \in {"idle", "report", "done"}
      BY <2>2, OneActive DEF Active
    <3> QED
      BY <1>0, <3>1 DEF CallInv, DestOf, Talks, Clears
  <2> QED
    BY <1>2, <2>1, <2>2 DEF Writes
<1>4. EntriesOf(d)'
  BY <1>0, <1>2 DEF CallInv, EntriesOf, Writes
<1> QED
  BY <1>1, <1>3, <1>4 DEF CallInv

\* A step of the legs and the conference does.
LEMMA MovesKeep == ASSUME ConfTypes, Moves, NEW d \in Calls, CallInv(d) PROVE CallInv(d)'
<1>0. /\ UNCHANGED <<hash, policeId, recordTime, destUuid, again>>
      /\ LegMoves(d)
  BY DEF Moves
<1>1. CASE script'[d] = script[d]
  <2>1. LegOf(d)'
    BY <1>0, <1>1 DEF CallInv, LegOf, LegMoves, Ended
  <2>2. DestOf(d)'
    BY <1>0, <1>1 DEF CallInv, DestOf, LegMoves
  <2> QED
    BY <1>0, <1>1, <2>1, <2>2 DEF CallInv, EntriesOf
<1>2. CASE script[d] \in {"join", "in", "told"} /\ script'[d] \in {"in", "told", "hook"}
  <2>1. LegOf(d)'
    BY <1>0, <1>2 DEF CallInv, LegOf, LegMoves, Talks, BeforeDial, Clears, Over
  <2>2. DestOf(d)'
    BY <1>0, <1>2 DEF CallInv, DestOf, Talks, Clears
  <2>3. EntriesOf(d)'
    BY <1>0, <1>2 DEF CallInv, EntriesOf, DestPlaces, RecordPlaces, PolicePlaces, TimesPlaces,
       Talks
  <2> QED
    BY <2>1, <2>2, <2>3 DEF CallInv
<1> QED
  BY <1>1, <1>2 DEF Moves

\* The call's own steps keep the leg to its part of the call: the second look of
\* prison_hangup.lua kills what the dialling thread has made since the first.
LEMMA OwnLeg ==
    ASSUME ConfTypes, InOrder, NEW c \in Calls, CallInv(c), CallStep(c) PROVE LegOf(c)'
<1>0. /\ script \in [Calls -> ConfPlaces] /\ leg \in [Calls -> LegStates] /\ NULL \notin Calls
      /\ LegOf(c) /\ DestOf(c)
  BY CallsAreNumbers DEF ConfTypes, CallInv
<1>m. LegMoves(c) \/ bgdial(c)
  BY LegsMoveHolds DEF LegsMove
<1>1. CASE addPoliceJoinConf(c)
  <2>1. script[c] = "police" /\ script'[c] = "dest" /\ again' = again /\ LegMoves(c)
    BY <1>0, <1>m, <1>1 DEF addPoliceJoinConf, bgdial, To, own
  <2> QED
    BY <1>0, <2>1 DEF LegOf, LegMoves, Talks, BeforeDial, Clears, Over, Ended
<1>2. CASE addRelativeJoinConf(c)
  <2>1. script[c] = "dest" /\ script'[c] = "dial" /\ again' = again /\ LegMoves(c)
    BY <1>0, <1>m, <1>2 DEF addRelativeJoinConf, bgdial, To, own
  <2> QED
    BY <1>0, <2>1 DEF LegOf, LegMoves, Talks, BeforeDial, Clears, Over, Ended
<1>3. CASE bgdial(c)
  <2>1. leg'[c] = "asked" /\ script'[c] = "times" /\ again' = again /\ script[c] = "dial"
    BY <1>0, <1>3 DEF bgdial, To, own
  <2> QED
    BY <1>0, <2>1 DEF LegOf, Talks, BeforeDial, Clears, Over
<1>4. CASE initConfTime(c)
  <2>1. script[c] = "times" /\ script'[c] = "limit" /\ again' = again /\ LegMoves(c)
    BY <1>0, <1>m, <1>4 DEF initConfTime, bgdial, To, own
  <2> QED
    BY <1>0, <2>1 DEF LegOf, LegMoves, Talks, BeforeDial, Clears, Over, Ended
<1>5. CASE initMaxDur(c)
  <2>1. script[c] = "limit" /\ script'[c] = "join" /\ again' = again /\ LegMoves(c)
    BY <1>0, <1>m, <1>5 DEF initMaxDur, bgdial, To, own
  <2> QED
    BY <1>0, <2>1 DEF LegOf, LegMoves, Talks, BeforeDial, Clears, Over, Ended
<1>6. CASE getDestChannelUuid(c)
  <2>1. script[c] = "hook" /\ script'[c] = "free" /\ again' = again /\ LegMoves(c)
    BY <1>0, <1>m, <1>6 DEF getDestChannelUuid, bgdial, To, own
  <2> QED
    BY <1>0, <2>1 DEF LegOf, LegMoves, Talks, BeforeDial, Clears, Over, Ended
<1>7. CASE FreeEntries(c)
  <2>1. script[c] = "free" /\ script'[c] \in {"hup", "kill"} /\ again' = again /\ LegMoves(c)
    BY <1>0, <1>m, <1>7 DEF FreeEntries, bgdial, To, own
  <2> QED
    BY <1>0, <2>1 DEF LegOf, LegMoves, Talks, BeforeDial, Clears, Over, Ended
<1>8. CASE KillPolice(c)
  <2>1. script[c] = "kill" /\ script'[c] = "hup" /\ again' = again /\ LegMoves(c)
    BY <1>0, <1>m, <1>8 DEF KillPolice, bgdial, To, own
  <2> QED
    BY <1>0, <2>1 DEF LegOf, LegMoves, Talks, BeforeDial, Clears, Over, Ended
<1>9. CASE HupConference(c)
  <2>1. /\ script[c] = "hup" /\ again' = again /\ LegMoves(c)
        /\ script'[c] = IF destUuid[c] = NULL THEN Cleared(c) ELSE "killdest"
    BY <1>0, <1>m, <1>9 DEF HupConference, bgdial, To, own
  <2>2. script'[c] \in {"asleep", "killdest"} \/ (script'[c] = "report" /\ leg[c] = "none")
    BY <1>0, <2>1 DEF Cleared, DestOf, Clears
  <2>3. script'[c] = "asleep" => c \notin again
    BY <2>1 DEF Cleared
  <2> QED
    BY <1>0, <2>1, <2>2, <2>3 DEF LegOf, LegMoves, Talks, BeforeDial, Clears, Over, Ended
<1>10. CASE KillDest(c)
  <2>1. script[c] = "killdest" /\ script'[c] = "forget" /\ again' = again
    BY <1>0, <1>10 DEF KillDest, To, own
  <2>2. c \in again => leg'[c] \in Ended /\ leg'[c] # "asked"
    <3>1. CASE leg[c] = "none"
      BY <1>0, <1>10, <3>1 DEF KillDest, uuid_kill, DestOf, Hangup, Ended
    <3>2. CASE leg[c] # "none"
      <4>1. destUuid[c] = c
        BY <1>0, <2>1, <3>2 DEF DestOf, Clears
      <4>2. leg'[c] = Hangup(leg[c])
        BY <1>0, <1>10, <4>1 DEF KillDest, uuid_kill
      <4>3. c \in again => leg[c] # "asked" /\ leg[c] \in LegStates
        BY <1>0 DEF LegOf
      <4> QED
        BY <4>2, <4>3, SMTT(60) DEF Hangup, LegStates, Ended
    <3> QED
      BY <3>1, <3>2
  <2> QED
    BY <1>0, <2>1, <2>2 DEF LegOf, Talks, BeforeDial, Clears, Over
<1>11. CASE ForgetDest(c)
  <2>1. script[c] = "forget" /\ again' = again /\ leg' = leg /\ script'[c] = Cleared(c)
    BY <1>0, <1>11 DEF ForgetDest, To, own, conf
  <2> QED
    BY <1>0, <2>1 DEF LegOf, Cleared, Talks, BeforeDial, Clears, Over
<1>12. CASE Look(c)
  <2>1. script[c] = "asleep" /\ leg' = leg /\ (DialsInTime => leg[c] # "asked")
    BY <1>12 DEF Look, conf
  <2>2. CASE Exists(destUuid[c])
    <3>1. script'[c] = "free" /\ again' = again \cup {c} /\ leg[c] # "asked"
      BY <1>0, <1>12, <2>2 DEF Look, To, Exists, DestOf
    <3> QED
      BY <1>0, <2>1, <3>1 DEF LegOf, Talks, BeforeDial, Clears, Over
  <2>3. CASE ~Exists(destUuid[c])
    <3>1. script'[c] = "report" /\ again' = again /\ c \notin again
      BY <1>0, <1>12, <2>1, <2>3 DEF Look, To, LegOf, Clears
    <3>2. leg[c] = "none" \/ destUuid[c] = c
      BY <1>0, <2>1 DEF DestOf
    <3>3. leg[c] \in Ended \cup {"asked"}
      BY <1>0, <2>3, <3>2 DEF Exists, Ended, LegStates
    <3> QED
      BY <1>0, <2>1, <3>1, <3>3 DEF LegOf, Talks, BeforeDial, Clears, Over
  <2> QED
    BY <2>2, <2>3
<1>13. CASE sendPrisonConfFinishMsg(c)
  <2>1. script[c] = "report" /\ script'[c] = "done" /\ c \notin again' /\ LegMoves(c)
    BY <1>0, <1>m, <1>13 DEF sendPrisonConfFinishMsg, bgdial, To, own
  <2> QED
    BY <1>0, <2>1 DEF LegOf, LegMoves, Talks, BeforeDial, Clears, Over, Ended
<1>14. CASE AsrEndTime(c)
  BY <1>0, <1>14 DEF AsrEndTime, LegOf, own, conf
<1>15. CASE AsrBeginTime(c)
  BY <1>0, <1>15 DEF AsrBeginTime, LegOf, own, conf
<1>16. CASE Answer(c)
  <2>1. /\ script' = script /\ again' = again /\ leg[c] = "ringing" /\ leg'[c] = "answered"
    BY <1>0, <1>16 DEF Answer, own
  <2> QED
    BY <1>0, <2>1 DEF LegOf, Ended
<1>17. CASE Abandon(c)
  <2>1. script[c] = "idle" /\ script'[c] = "hook" /\ again' = again /\ LegMoves(c)
    BY <1>0, <1>m, <1>17 DEF Abandon, bgdial, To, own
  <2> QED
    BY <1>0, <2>1 DEF LegOf, LegMoves, Talks, BeforeDial, Clears, Over, Ended
<1>18. CASE resetConfBeginTime(c)
  <2>1. script[c] = "idle" /\ script'[c] = "police" /\ again' = again /\ LegMoves(c)
    BY <1>0, <1>m, <1>18 DEF resetConfBeginTime, bgdial, To, own
  <2> QED
    BY <1>0, <2>1 DEF LegOf, LegMoves, Talks, BeforeDial, Clears, Over, Ended
<1> QED
  BY <1>1, <1>2, <1>3, <1>4, <1>5, <1>6, <1>7, <1>8, <1>9, <1>10, <1>11, <1>12, <1>13,
     <1>14, <1>15, <1>16, <1>17, <1>18 DEF CallStep

\* They keep the entry dest, or what the hook has read of it, to the leg of the call.
LEMMA OwnDest ==
    ASSUME ConfTypes, InOrder, \A e \in Calls : CallInv(e), NEW c \in Calls, CallStep(c)
    PROVE  DestOf(c)'
<1>0. /\ script \in [Calls -> ConfPlaces] /\ leg \in [Calls -> LegStates] /\ hash \in Entries
      /\ destUuid \in [Calls -> Calls \cup {NULL}] /\ NULL \notin Calls
      /\ LegOf(c) /\ DestOf(c)
  BY CallsAreNumbers DEF ConfTypes, CallInv
<1>m. LegMoves(c) \/ bgdial(c)
  BY LegsMoveHolds DEF LegsMove
<1>h. Active(c) => hash.dest \in {NULL, c}
  <2>1. SUFFICES ASSUME Active(c), hash.dest # NULL PROVE hash.dest = c
    OBVIOUS
  <2>2. hash.dest \in Calls
    BY <1>0, <2>1 DEF Entries
  <2>3. Active(hash.dest)
    BY <2>2 DEF CallInv, EntriesOf, DestPlaces, Talks, Clears, Active
  <2> QED
    BY <2>1, <2>2, <2>3, OneActive
<1>1. CASE addPoliceJoinConf(c)
  <2>1. /\ script[c] = "police" /\ script'[c] = "dest"
        /\ destUuid' = destUuid /\ hash'.dest = hash.dest /\ LegMoves(c)
    BY <1>0, <1>m, <1>1 DEF addPoliceJoinConf, bgdial, To, own
  <2> QED
    BY <1>0, <2>1 DEF DestOf, LegMoves, Talks, Clears
<1>2. CASE addRelativeJoinConf(c)
  <2>1. /\ script[c] = "dest" /\ script'[c] = "dial" /\ destUuid' = destUuid
        /\ hash'.dest = c
    BY <1>0, <1>2 DEF addRelativeJoinConf, To, own, Entries
  <2> QED
    BY <1>0, <2>1 DEF DestOf, Talks, Clears
<1>3. CASE bgdial(c)
  <2>1. /\ script[c] = "dial" /\ script'[c] = "times" /\ destUuid' = destUuid
        /\ hash' = hash
    BY <1>0, <1>3 DEF bgdial, To, own, table
  <2> QED
    BY <1>0, <2>1 DEF DestOf, Talks, Clears
<1>4. CASE initConfTime(c)
  <2>1. /\ script[c] = "times" /\ script'[c] = "limit"
        /\ destUuid' = destUuid /\ hash'.dest = hash.dest /\ LegMoves(c)
    BY <1>0, <1>m, <1>4 DEF initConfTime, bgdial, To, own, Entries
  <2> QED
    BY <1>0, <2>1 DEF DestOf, LegMoves, Talks, Clears
<1>5. CASE initMaxDur(c)
  <2>1. /\ script[c] = "limit" /\ script'[c] = "join"
        /\ destUuid' = destUuid /\ hash'.dest = hash.dest /\ LegMoves(c)
    BY <1>0, <1>m, <1>5 DEF initMaxDur, bgdial, To, own, Entries
  <2> QED
    BY <1>0, <2>1 DEF DestOf, LegMoves, Talks, Clears
<1>6. CASE getDestChannelUuid(c)
  <2>1. /\ script[c] = "hook" /\ script'[c] = "free" /\ destUuid'[c] = hash.dest
        /\ hash' = hash /\ leg' = leg
    BY <1>0, <1>6 DEF getDestChannelUuid, To, table, conf
  <2>2. hash.dest \in {NULL, c}
    BY <1>h, <2>1 DEF Active
  <2> QED
    BY <1>0, <2>1, <2>2 DEF DestOf, Talks, Clears
<1>7. CASE FreeEntries(c)
  <2>1. /\ script[c] = "free" /\ script'[c] \in {"hup", "kill"}
        /\ destUuid' = destUuid /\ hash'.dest = hash.dest /\ LegMoves(c)
    BY <1>0, <1>m, <1>7 DEF FreeEntries, bgdial, To, own, Entries
  <2> QED
    BY <1>0, <2>1 DEF DestOf, LegMoves, Talks, Clears
<1>8. CASE KillPolice(c)
  <2>1. /\ script[c] = "kill" /\ script'[c] = "hup"
        /\ destUuid' = destUuid /\ hash'.dest = hash.dest /\ LegMoves(c)
    BY <1>0, <1>m, <1>8 DEF KillPolice, bgdial, To, own, table
  <2> QED
    BY <1>0, <2>1 DEF DestOf, LegMoves, Talks, Clears
<1>9. CASE HupConference(c)
  <2>1. /\ script[c] = "hup" /\ script'[c] \in {"asleep", "report", "killdest"}
        /\ destUuid' = destUuid /\ hash'.dest = hash.dest /\ LegMoves(c)
    BY <1>0, <1>m, <1>9 DEF HupConference, bgdial, Cleared, To, own, table
  <2> QED
    BY <1>0, <2>1 DEF DestOf, LegMoves, Talks, Clears
<1>10. CASE KillDest(c)
  <2>1. /\ script[c] = "killdest" /\ script'[c] = "forget"
        /\ destUuid' = destUuid /\ hash'.dest = hash.dest /\ LegMoves(c)
    BY <1>0, <1>m, <1>10 DEF KillDest, bgdial, To, own, table
  <2> QED
    BY <1>0, <2>1 DEF DestOf, LegMoves, Talks, Clears
<1>11. CASE ForgetDest(c)
  <2>1. /\ script[c] = "forget" /\ script'[c] \in {"asleep", "report"}
        /\ destUuid' = destUuid /\ leg' = leg
    BY <1>0, <1>11 DEF ForgetDest, Cleared, To, own, conf
  <2> QED
    BY <1>0, <2>1 DEF DestOf, Talks, Clears
<1>12. CASE Look(c)
  <2>1. /\ script[c] = "asleep" /\ script'[c] \in {"free", "report"}
        /\ destUuid' = destUuid /\ leg' = leg /\ hash' = hash
    BY <1>0, <1>12 DEF Look, To, table, conf
  <2>2. hash.dest = NULL
    BY <1>0, <1>h, <2>1 DEF Active, CallInv, EntriesOf, DestPlaces, Talks, Clears
  <2> QED
    BY <1>0, <2>1, <2>2 DEF DestOf, Talks, Clears
<1>13. CASE sendPrisonConfFinishMsg(c)
  <2>1. script'[c] = "done" /\ destUuid'[c] = NULL
    BY <1>0, <1>13 DEF sendPrisonConfFinishMsg, To
  <2> QED
    BY <2>1 DEF DestOf, Talks, Clears
<1>14. CASE AsrEndTime(c)
  <2>1. script' = script /\ destUuid' = destUuid /\ leg' = leg /\ hash'.dest = hash.dest
    BY <1>0, <1>14 DEF AsrEndTime, own, conf, Entries
  <2> QED
    BY <1>0, <2>1 DEF DestOf
<1>15. CASE AsrBeginTime(c)
  <2>1. script' = script /\ destUuid' = destUuid /\ leg' = leg /\ hash'.dest = hash.dest
    BY <1>0, <1>15 DEF AsrBeginTime, own, conf, Entries
  <2> QED
    BY <1>0, <2>1 DEF DestOf
<1>16. CASE Answer(c)
  <2>1. /\ script' = script /\ destUuid' = destUuid /\ hash' = hash /\ LegMoves(c)
    BY <1>0, <1>m, <1>16 DEF Answer, bgdial, table
  <2> QED
    BY <1>0, <2>1 DEF DestOf, LegMoves
<1>17. CASE Abandon(c)
  <2>1. /\ script[c] = "idle" /\ script'[c] = "hook"
        /\ destUuid' = destUuid /\ leg' = leg
    BY <1>0, <1>17 DEF Abandon, To, own, conf
  <2> QED
    BY <1>0, <2>1 DEF LegOf, BeforeDial, DestOf, Talks, Clears
<1>18. CASE resetConfBeginTime(c)
  <2>1. /\ script[c] = "idle" /\ script'[c] = "police"
        /\ destUuid' = destUuid /\ hash'.dest = hash.dest /\ LegMoves(c)
    BY <1>0, <1>m, <1>18 DEF resetConfBeginTime, bgdial, To, own, Entries
  <2> QED
    BY <1>0, <2>1 DEF DestOf, LegMoves, Talks, Clears
<1> QED
  BY <1>1, <1>2, <1>3, <1>4, <1>5, <1>6, <1>7, <1>8, <1>9, <1>10, <1>11, <1>12, <1>13,
     <1>14, <1>15, <1>16, <1>17, <1>18 DEF CallStep

\* They keep the entries of the table to a call that clearSession is still to clear.
LEMMA OwnEntries == ASSUME ConfTypes, NEW c \in Calls, CallInv(c), CallStep(c) PROVE EntriesOf(c)'
<1>0. /\ script \in [Calls -> ConfPlaces] /\ hash \in Entries /\ NULL \notin Calls
      /\ DestOf(c) /\ EntriesOf(c)
  BY CallsAreNumbers DEF ConfTypes, CallInv
<1>1. CASE addPoliceJoinConf(c)
  <2>1. /\ script[c] = "police" /\ script'[c] = "dest"
        /\ hash'.dest = hash.dest /\ recordTime' = recordTime /\ policeId' \subseteq policeId \cup {c}
    BY <1>0, <1>1 DEF addPoliceJoinConf, To
  <2> QED
    BY <1>0, <2>1 DEF EntriesOf, DestPlaces, RecordPlaces, PolicePlaces, TimesPlaces, Talks,
       Clears
<1>2. CASE addRelativeJoinConf(c)
  <2>1. /\ script[c] = "dest" /\ script'[c] = "dial"
        /\ recordTime' = recordTime /\ policeId' = policeId
    BY <1>0, <1>2 DEF addRelativeJoinConf, To
  <2> QED
    BY <1>0, <2>1 DEF EntriesOf, DestPlaces, RecordPlaces, PolicePlaces, TimesPlaces, Talks,
       Clears
<1>3. CASE bgdial(c)
  <2>1. /\ script[c] = "dial" /\ script'[c] = "times"
        /\ hash'.dest = hash.dest /\ recordTime' = recordTime /\ policeId' = policeId
    BY <1>0, <1>3 DEF bgdial, To, table
  <2> QED
    BY <1>0, <2>1 DEF EntriesOf, DestPlaces, RecordPlaces, PolicePlaces, TimesPlaces, Talks,
       Clears
<1>4. CASE initConfTime(c)
  <2>1. /\ script[c] = "times" /\ script'[c] = "limit"
        /\ hash'.dest = hash.dest /\ recordTime' = recordTime /\ policeId' = policeId
    BY <1>0, <1>4 DEF initConfTime, To, Entries
  <2> QED
    BY <1>0, <2>1 DEF EntriesOf, DestPlaces, RecordPlaces, PolicePlaces, TimesPlaces, Talks,
       Clears
<1>5. CASE initMaxDur(c)
  <2>1. /\ script[c] = "limit" /\ script'[c] = "join"
        /\ hash'.dest = hash.dest /\ recordTime' = recordTime \cup {c} /\ policeId' = policeId
    BY <1>0, <1>5 DEF initMaxDur, To, Entries
  <2> QED
    BY <1>0, <2>1 DEF EntriesOf, DestPlaces, RecordPlaces, PolicePlaces, TimesPlaces, Talks,
       Clears
<1>6. CASE getDestChannelUuid(c)
  <2>1. /\ script[c] = "hook" /\ script'[c] = "free"
        /\ hash'.dest = hash.dest /\ recordTime' = recordTime /\ policeId' = policeId
    BY <1>0, <1>6 DEF getDestChannelUuid, To, table
  <2> QED
    BY <1>0, <2>1 DEF EntriesOf, DestPlaces, RecordPlaces, PolicePlaces, TimesPlaces, Talks,
       Clears
<1>7. CASE FreeEntries(c)
  <2>1. /\ script[c] = "free" /\ script'[c] \in {"hup", "kill"}
        /\ hash'.dest = hash.dest /\ c \notin recordTime' /\ c \notin policeId'
    BY <1>0, <1>7 DEF FreeEntries, To, Entries
  <2> QED
    BY <1>0, <2>1 DEF EntriesOf, DestPlaces, RecordPlaces, PolicePlaces, TimesPlaces, Talks,
       Clears
<1>8. CASE KillPolice(c)
  <2>1. /\ script[c] = "kill" /\ script'[c] = "hup"
        /\ hash'.dest = hash.dest /\ recordTime' = recordTime /\ policeId' = policeId
    BY <1>0, <1>8 DEF KillPolice, To, table
  <2> QED
    BY <1>0, <2>1 DEF EntriesOf, DestPlaces, RecordPlaces, PolicePlaces, TimesPlaces, Talks,
       Clears
<1>9. CASE HupConference(c)
  <2>1. /\ script[c] = "hup" /\ UNCHANGED <<hash, recordTime, policeId>>
        /\ script'[c] = "killdest" \/ destUuid[c] = NULL
    BY <1>0, <1>9 DEF HupConference, To, table
  <2>2. script'[c] = "killdest" \/ hash.dest # c
    BY <1>0, <2>1 DEF DestOf, Clears
  <2> QED
    BY <1>0, <2>1, <2>2 DEF EntriesOf, DestPlaces, RecordPlaces, PolicePlaces, TimesPlaces,
       Talks, Clears
<1>10. CASE KillDest(c)
  <2>1. /\ script[c] = "killdest" /\ script'[c] = "forget"
        /\ hash'.dest = hash.dest /\ recordTime' = recordTime /\ policeId' = policeId
    BY <1>0, <1>10 DEF KillDest, To, table
  <2> QED
    BY <1>0, <2>1 DEF EntriesOf, DestPlaces, RecordPlaces, PolicePlaces, TimesPlaces, Talks,
       Clears
<1>11. CASE ForgetDest(c)
  <2>1. /\ script[c] = "forget" /\ hash'.dest = NULL
        /\ recordTime' = recordTime /\ policeId' = policeId
    BY <1>0, <1>11 DEF ForgetDest, To, Entries
  <2> QED
    BY <1>0, <2>1 DEF EntriesOf, DestPlaces, RecordPlaces, PolicePlaces, TimesPlaces, Talks,
       Clears
<1>12. CASE Look(c)
  <2>1. script[c] = "asleep" /\ UNCHANGED <<hash, recordTime, policeId>>
    BY <1>12 DEF Look, table
  <2> QED
    BY <1>0, <2>1 DEF EntriesOf, DestPlaces, RecordPlaces, PolicePlaces, TimesPlaces, Talks,
       Clears
<1>13. CASE sendPrisonConfFinishMsg(c)
  <2>1. script[c] = "report" /\ UNCHANGED <<hash, recordTime, policeId>>
    BY <1>13 DEF sendPrisonConfFinishMsg, table
  <2> QED
    BY <1>0, <2>1 DEF EntriesOf, DestPlaces, RecordPlaces, PolicePlaces, TimesPlaces, Talks,
       Clears
<1>14. CASE AsrEndTime(c)
  BY <1>0, <1>14 DEF AsrEndTime, Entries, EntriesOf
<1>15. CASE AsrBeginTime(c)
  BY <1>0, <1>15 DEF AsrBeginTime, Entries, EntriesOf
<1>16. CASE Answer(c)
  BY <1>0, <1>16 DEF Answer, table, EntriesOf
<1>17. CASE Abandon(c)
  <2>1. script[c] = "idle" /\ UNCHANGED <<hash, recordTime, policeId>>
    BY <1>17 DEF Abandon, table
  <2> QED
    BY <1>0, <2>1 DEF EntriesOf, DestPlaces, RecordPlaces, PolicePlaces, TimesPlaces, Talks,
       Clears
<1>18. CASE resetConfBeginTime(c)
  <2>1. /\ script[c] = "idle" /\ script'[c] = "police"
        /\ hash'.dest = hash.dest /\ recordTime' = recordTime /\ policeId' = policeId
    BY <1>0, <1>18 DEF resetConfBeginTime, To, Entries
  <2> QED
    BY <1>0, <2>1 DEF EntriesOf, DestPlaces, RecordPlaces, PolicePlaces, TimesPlaces, Talks,
       Clears
<1> QED
  BY <1>1, <1>2, <1>3, <1>4, <1>5, <1>6, <1>7, <1>8, <1>9, <1>10, <1>11, <1>12, <1>13,
     <1>14, <1>15, <1>16, <1>17, <1>18 DEF CallStep

\* actiontime is there only while a call goes on that will have it deleted.
LEMMA ActionStep == ConfTypes /\ ActionInv /\ [ConfNext]_confVars => ActionInv'
<1> SUFFICES ASSUME ConfTypes, ActionInv, [ConfNext]_confVars, hash'.actiontime # NULL
             PROVE  \E e \in Calls : script'[e] \in TimesPlaces
  BY DEF ActionInv
<1>1. CASE Moves
  <2>1. PICK e \in Calls : script[e] \in TimesPlaces
    BY <1>1 DEF Moves, ActionInv
  <2>2. script'[e] \in TimesPlaces
    BY <1>1, <2>1 DEF Moves, TimesPlaces
  <2> QED
    BY <2>2
<1>2. ASSUME NEW c \in Calls, CallStep(c) PROVE \E e \in Calls : script'[e] \in TimesPlaces
  <2>1. Writes(c) /\ Frame(c)
    BY <1>2, FrameHolds, WritesHolds
  <2>2. CASE script'[c] \in TimesPlaces
    BY <2>2
  <2>3. CASE hash'.actiontime = hash.actiontime /\ script[c] \notin TimesPlaces
    <3>1. PICK e \in Calls : script[e] \in TimesPlaces
      BY <2>3 DEF ActionInv
    <3>2. script'[e] = script[e]
      BY <2>1, <2>3, <3>1 DEF Frame
    <3> QED
      BY <3>1, <3>2
  <2> QED
    BY <2>1, <2>2, <2>3 DEF Writes
<1> QED
  BY <1>1, <1>2, StepForms

\* The extension begins with an empty table and no call.
LEMMA ConfInitHolds == ConfInit => ConfInv
<1> SUFFICES ASSUME ConfInit PROVE ConfInv
  OBVIOUS
<1>1. maxdur \in [Calls -> Nat \cup {NULL}]
  BY TimesAssumption DEF ConfInit
<1>2. now \in Int /\ hash \in Entries /\ asr \in [Calls -> Asrs]
  BY SMTT(60) DEF ConfInit, Entries, Time, Asrs, NoAsr
<1>3. ConfTypes
  BY <1>1, <1>2 DEF ConfInit, ConfTypes, Time, ConfPlaces, LegStates
<1>4. InOrder /\ ActionInv
  BY DEF ConfInit, InOrder, ActionInv
<1>5. ASSUME NEW c \in Calls PROVE CallInv(c)
  <2>1. /\ script[c] = "idle" /\ leg[c] = "none" /\ destUuid[c] = NULL /\ hash.dest = NULL
        /\ c \notin again /\ c \notin recordTime /\ c \notin policeId /\ NULL # c
    BY CallsAreNumbers DEF ConfInit
  <2> QED
    BY <2>1 DEF CallInv, LegOf, DestOf, EntriesOf, Talks, Clears, Over
<1> QED
  BY <1>3, <1>4, <1>5 DEF ConfInv

\* The order of the calls and what is kept of them is an invariant.
LEMMA ConfInvariance == ConfSpec => []ConfInv
<1>1. ConfInv /\ [ConfNext]_confVars => ConfInv'
  <2> SUFFICES ASSUME ConfInv, [ConfNext]_confVars PROVE ConfInv'
    OBVIOUS
  <2>1. ConfTypes' /\ InOrder' /\ ActionInv'
    BY ConfTypesStep, InOrderStep, ActionStep DEF ConfInv
  <2>2. CASE Moves
    <3>1. \A d \in Calls : CallInv(d)'
      BY <2>2, MovesKeep DEF ConfInv
    <3> QED
      BY <2>1, <3>1 DEF ConfInv
  <2>3. ASSUME NEW c \in Calls, CallStep(c) PROVE ConfInv'
    <3>1. CallInv(c)'
      BY <2>3, OwnLeg, OwnDest, OwnEntries DEF ConfInv, CallInv
    <3>2. \A d \in Calls : d # c => CallInv(d)'
      BY <2>3, OthersKeep DEF ConfInv
    <3> QED
      BY <2>1, <3>1, <3>2 DEF ConfInv
  <2> QED
    BY <2>2, <2>3, StepForms DEF ConfInv
<1> QED
  BY ConfInitHolds, <1>1, PTL DEF ConfSpec

\* Once no call is going on nothing of the calls is left in mod_hash's table but the times,
\* which the next one overwrites ("释放内存"): for any number of calls, any limits and any
\* interleaving of the four scripts with the dialling thread, the legs and the conference,
\* whether the dialling thread is in time or not.
THEOREM TableIsFreed == ConfSpec => []TableIsFree
<1>1. ConfInv => TableIsFree
  <2> SUFFICES ASSUME ConfInv, \A c \in Calls : script[c] \in {"idle", "report", "done"}
               PROVE  policeId = {} /\ recordTime = {} /\ hash.actiontime = NULL /\ hash.dest = NULL
    BY DEF TableIsFree
  <2>1. /\ policeId \subseteq Calls /\ recordTime \subseteq Calls
        /\ hash.dest \in Calls \cup {NULL}
    BY DEF ConfInv, ConfTypes, Entries
  <2>2. \A c \in Calls : c \notin policeId /\ c \notin recordTime /\ hash.dest # c
    BY DEF ConfInv, CallInv, EntriesOf, DestPlaces, RecordPlaces, PolicePlaces, TimesPlaces,
       Talks, Clears
  <2>3. hash.actiontime = NULL
    BY DEF ConfInv, ActionInv, TimesPlaces
  <2> QED
    BY <2>1, <2>2, <2>3
<1> QED
  BY ConfInvariance, <1>1, PTL

\* When prison_hangup.lua reports a call as finished the relative's leg is hung up for good and,
\* once no call is going on, the table is free: for any number of calls, any limits and any
\* interleaving.  One hypothesis: the dialling thread has made the channel, or given up,
\* within the second that the hook sleeps before it looks again.  The code does not ensure
\* it, and without it the statement is false.
THEOREM CallsLeaveNothing == DialsInTime => (ConfSpec => []NothingIsLeft)
<1> SUFFICES ASSUME DialsInTime PROVE ConfSpec => []NothingIsLeft
  OBVIOUS
<1>1. ConfInv => LegsAreOver
  BY DEF ConfInv, CallInv, LegOf, Over, Ended, LegsAreOver
<1> QED
  BY ConfInvariance, TableIsFreed, <1>1, PTL DEF NothingIsLeft
-----------------------------------------------------------------------------
(* The conference of an extension: when a call is cut off *)

\* A call may be without a limit only if those before it are.
LimitsStay == \A c, d \in Calls : c < d => \A m \in TalkTimes(c), n \in TalkTimes(d) :
                                               Number(m) > 0 => Number(n) > 0

\* What the loop has read.
Readings == [at: {"sleep", "action", "begin", "end", "dest", "legs", "hup", "limit"}, even: BOOLEAN,
             actionTime: Int, begun: BOOLEAN, endTime: Int, dest: Calls \cup {NULL},
             late: BOOLEAN, over: BOOLEAN]

\* The limits the calls have been given.
MaxdurInv == \A c, d \in Calls : c < d /\ Number(maxdur[c]) > 0 => Number(maxdur[d]) > 0

\* A limit in the table comes from a call that has begun; from initMaxDur on it is that of
\* the call going on.
LimitInv ==
    /\ Number(hash.maxdur) # 0 \/ hash.endtime # NULL
          => \E c \in Calls : script[c] # "idle" /\ Number(maxdur[c]) > 0
    /\ \A c \in Calls : script[c] \in LimitPlaces /\ leg[c] # "none"
                        => Number(hash.maxdur) = Number(maxdur[c])

\* A call that is not one where only the hook runs.
Going(c) == Active(c) /\ (script[c] \in {"police", "dest", "dial"} \/ leg[c] # "none")

\* The relative of c has answered and endtime is the end of this call.
Timed(c) == /\ leg[c] \in Late /\ answered[c] \in Int
            /\ Number(maxdur[c]) > 0 => hash.endtime = answered[c] + maxdur[c] * Minute

\* asr.lua has done its work before the next call begins, and has the time of the answer
\* and the limit of its own call.
AsrOf(c) == asr[c].at # "none" =>
               /\ script[c] # "idle" /\ leg[c] \in Late
               /\ asr[c].maxdurVal = Number(maxdur[c])
               /\ \A d \in Calls : d # c => ~Active(d)
               /\ Active(c) => answered[c] = asr[c].nowTime
               /\ Active(c) /\ asr[c].at = "begin" => Timed(c)

AsrInv == \A c \in Calls : AsrOf(c)

\* The limit of c has been reached.
Reaches(c) == /\ Timed(c) /\ Number(maxdur[c]) > 0
              /\ now - answered[c] >= maxdur[c] * Minute

\* begintime, in the table or as the loop has read it, is that of the call going on, if any,
\* and endtime as the loop has read it after begintime is, too.
TimerInv == \A c \in Calls : Going(c) =>
    /\ Number(hash.begintime) > 0 => Timed(c)
    /\ timer.at \in {"end", "dest"} /\ timer.begun => Timed(c)
    /\ timer.at = "dest" /\ timer.begun /\ timer.endTime > 0 =>
          Number(maxdur[c]) > 0 /\ timer.endTime = answered[c] + maxdur[c] * Minute
    /\ timer.at \in {"legs", "hup", "limit"} /\ timer.over => Reaches(c)

CutInv == timer \in Readings /\ MaxdurInv /\ LimitInv /\ AsrInv /\ TimerInv

\* What is read of the table is a number.
LEMMA NumberType == \A v \in Time : Number(v) \in Int
BY SMTT(60) DEF Number, Time

\* The limits are given at the beginning.
LEMMA SameMaxdur == ConfTypes /\ [ConfNext]_confVars => maxdur' = maxdur
BY StepForms, FrameHolds DEF Moves, Frame

\* If a call going on has no limit, no call that has begun has one.
LEMMA NoLimitYet ==
    ASSUME InOrder, MaxdurInv, NEW c \in Calls, Active(c), ~(Number(maxdur[c]) > 0),
           NEW d \in Calls, script[d] # "idle"
    PROVE  ~(Number(maxdur[d]) > 0)
<1>1. ~(c < d)
  BY DEF InOrder, Active
<1>2. CASE d < c
  BY <1>2 DEF MaxdurInv
<1> QED
  BY <1>1, <1>2, CallsAreNumbers, SMTT(60)

\* Then the table holds no limit and no end.
LEMMA NoLimitStored ==
    ASSUME InOrder, MaxdurInv, LimitInv, NEW c \in Calls, Active(c), ~(Number(maxdur[c]) > 0)
    PROVE  Number(hash.maxdur) = 0 /\ hash.endtime = NULL
BY NoLimitYet DEF LimitInv

\* Only the loop moves what it has read.
LEMMA LoopMoves == ConfTypes /\ [ConfNext]_confVars => timer' = timer \/ Timer
<1>1. ASSUME ConfTypes, NEW c \in Calls, CallStep(c) PROVE timer' = timer
  BY <1>1, FrameHolds DEF Frame
<1> QED
  BY <1>1 DEF ConfNext, confVars, Tick, ConferenceThread, Police, PoliceComes, PoliceGoes,
     PoliceLeaves, PoliceIsOut, ScriptStep, addPrisonJoinConf, CallerGoes, CallerLeaves,
     CallerIsOut, Asr, Leg, Ring, Join, LegGoes, People, LegEnds, CallStep

\* The loop's readings stay what they are.
LEMMA ReadingsStep == ConfTypes /\ timer \in Readings /\ [ConfNext]_confVars => timer' \in Readings
<1> SUFFICES ASSUME ConfTypes, timer \in Readings, [ConfNext]_confVars PROVE timer' \in Readings
  OBVIOUS
<1>0. /\ Number(hash.actiontime) \in Int /\ Number(hash.endtime) \in Int
      /\ hash.dest \in Calls \cup {NULL}
  BY NumberType DEF ConfTypes, Entries
<1>s. ASSUME NEW b \in BOOLEAN PROVE TimerSleeps(b) \in Readings
  BY SMTT(60) DEF TimerSleeps, Readings
<1>1. CASE TimerList
  BY <1>1 DEF TimerList, Readings
<1>2. CASE getConfActionTime
  BY <1>0, <1>2 DEF getConfActionTime, Readings
<1>3. CASE getConfBeginTime
  <2>1. (Number(hash.begintime) > 0) \in BOOLEAN
    BY SMTT(60)
  <2> QED
    BY <1>3, <2>1 DEF getConfBeginTime, Readings
<1>4. CASE getConfEndTime
  BY <1>0, <1>4 DEF getConfEndTime, Readings
<1>5. CASE getConfDestUuId
  <2> DEFINE to   == IF timer.actionTime > 0 THEN "legs" ELSE "limit"
             dest == IF timer.actionTime > 0 THEN hash.dest ELSE NULL
             late == timer.actionTime > 0 /\ RelativeIsLate
             over == TimeIsOver
  <2>1. to \in {"legs", "limit"} /\ dest \in Calls \cup {NULL}
    BY <1>0
  <2>2. late \in BOOLEAN /\ over \in BOOLEAN
    BY DEF TimeIsOver, RelativeIsLate
  <2>3. TimerSleeps(timer.even) \in Readings
    BY <1>s DEF Readings
  <2>4. timer' = [TimerSleeps(timer.even) EXCEPT !.at = to, !.dest = dest, !.late = late,
                                                 !.over = over]
    BY <1>5 DEF getConfDestUuId
  <2> HIDE DEF to, dest, late, over
  <2> QED
    BY <2>1, <2>2, <2>3, <2>4 DEF Readings
<1>6. CASE TimerLegs
  BY <1>6 DEF TimerLegs, Readings
<1>7. CASE TimerHup
  BY <1>7 DEF TimerHup, Readings
<1>8. CASE TimerLimit
  BY <1>s, <1>8 DEF TimerLimit, Readings
<1>9. timer' = timer \/ Timer
  BY LoopMoves
<1> QED
  BY <1>1, <1>2, <1>3, <1>4, <1>5, <1>6, <1>7, <1>8, <1>9 DEF Timer

\* Every step keeps the limits in the table to the calls that have begun.
LEMMA LimitStep == ConfInv /\ CutInv /\ [ConfNext]_confVars => LimitInv'
<1> SUFFICES ASSUME ConfInv, CutInv, [ConfNext]_confVars PROVE LimitInv'
  OBVIOUS
<1>0. /\ ConfTypes /\ InOrder /\ MaxdurInv /\ LimitInv /\ AsrInv /\ (\A c \in Calls : LegOf(c))
      /\ maxdur' = maxdur
  BY SameMaxdur DEF ConfInv, CutInv, CallInv
<1>1. CASE Moves
  <2>1. /\ hash' = hash
        /\ \A d \in Calls : /\ script[d] # "idle" => script'[d] # "idle"
                            /\ script'[d] \in LimitPlaces => script[d] \in LimitPlaces
                            /\ leg'[d] # "none" => leg[d] # "none"
    BY <1>1 DEF Moves, LegMoves, LimitPlaces, Clears
  <2> QED
    BY <1>0, <2>1 DEF LimitInv
<1>2. ASSUME NEW c \in Calls, CallStep(c) PROVE LimitInv'
  <2>1. Frame(c) /\ LegsMove(c) /\ Progress(c) /\ Writes(c)
    BY <1>0, <1>2, FrameHolds, LegsMoveHolds, ProgressHolds, WritesHolds
  <2>2. \A d \in Calls : script[d] # "idle" => script'[d] # "idle"
    BY <2>1 DEF Frame, Progress
  <2>3. \A d \in Calls : leg'[d] # "none" => leg[d] # "none" \/ bgdial(c)
    BY <2>1 DEF LegsMove, LegMoves
  <2>4. CASE initMaxDur(c)
    <3>1. /\ script[c] = "limit" /\ Active(c) /\ script'[c] # "idle"
          /\ hash'.endtime = hash.endtime
          /\ hash'.maxdur = IF maxdur[c] = NULL THEN hash.maxdur ELSE maxdur[c]
      BY <1>0, <2>2, <2>4 DEF initMaxDur, ConfTypes, Entries, Active
    <3>2. ~(Number(maxdur[c]) > 0) => Number(maxdur[c]) = 0
      BY <1>0, SMTT(60) DEF ConfTypes, Number
    <3>3. Number(hash'.maxdur) = Number(maxdur[c])
      <4>1. CASE Number(maxdur[c]) > 0
        <5>1. maxdur[c] # NULL
          BY <4>1, SMTT(60) DEF Number
        <5> QED
          BY <3>1, <5>1
      <4>2. CASE ~(Number(maxdur[c]) > 0)
        <5>1. Number(hash.maxdur) = 0
          BY <1>0, <3>1, <4>2, NoLimitStored
        <5> QED
          BY <3>1, <3>2, <4>2, <5>1 DEF Number
      <4> QED
        BY <4>1, <4>2
    <3>4. \A d \in Calls : d # c => script'[d] \notin LimitPlaces
      <4>1. \A d \in Calls : d # c => script[d] \in {"idle", "report", "done"}
        BY <1>0, <3>1, OneActive DEF Active
      <4> QED
        BY <2>1, <4>1 DEF Frame, LimitPlaces, Clears
    <3>5. Number(maxdur[c]) > 0 \/ (Number(hash'.maxdur) = 0 /\ hash'.endtime = NULL)
      BY <1>0, <3>1, <3>2, <3>3, NoLimitStored
    <3>6. Number(hash'.maxdur) # 0 \/ hash'.endtime # NULL
             => \E d \in Calls : script'[d] # "idle" /\ Number(maxdur'[d]) > 0
      BY <1>0, <3>1, <3>5
    <3> QED
      BY <1>0, <3>3, <3>4, <3>6 DEF LimitInv
  <2>5. CASE ~initMaxDur(c)
    <3>1. Number(hash'.maxdur) = Number(hash.maxdur) /\ hash'.maxdur = hash.maxdur
      BY <2>1, <2>5 DEF Writes
    <3>2. ASSUME NEW d \in Calls, script'[d] \in LimitPlaces, leg'[d] # "none"
          PROVE  Number(hash'.maxdur) = Number(maxdur'[d])
      <4>1. ~bgdial(d)
        <5>1. bgdial(d) => script'[d] = "times"
          BY <1>0 DEF bgdial, To, ConfTypes
        <5> QED
          BY <3>2, <5>1 DEF LimitPlaces, Clears
      <4>2. leg[d] # "none"
        BY <2>1, <3>2, <4>1 DEF LegsMove, LegMoves
      <4>3. ~Abandon(d)
        BY <1>0, <4>2 DEF Abandon, LegOf, BeforeDial
      <4>4. script[d] \in LimitPlaces
        BY <2>1, <2>5, <3>2, <4>3 DEF Frame, Progress
      <4> QED
        BY <1>0, <3>1, <4>2, <4>4 DEF LimitInv
    <3>3. CASE hash'.endtime = hash.endtime
      BY <1>0, <2>2, <3>1, <3>2, <3>3 DEF LimitInv
    <3>4. CASE AsrEndTime(c) /\ hash'.endtime # hash.endtime
      <4>1. asr[c].maxdurVal > 0 /\ asr[c].at # "none"
        BY <3>4 DEF AsrEndTime
      <4>2. script[c] # "idle" /\ Number(maxdur[c]) > 0
        BY <1>0, <4>1 DEF AsrInv, AsrOf
      <4> QED
        BY <1>0, <2>2, <3>2, <4>2 DEF LimitInv
    <3> QED
      BY <2>1, <3>3, <3>4 DEF Writes
  <2> QED
    BY <2>4, <2>5
<1> QED
  BY <1>0, <1>1, <1>2, StepForms

\* Which steps change what asr.lua has and when the relative answered.
LEMMA AsrMoves ==
    ASSUME ConfTypes, NEW c \in Calls, CallStep(c)
    PROVE  /\ asr'[c] = asr[c] \/ AsrEndTime(c) \/ AsrBeginTime(c) \/ Answer(c)
           /\ answered'[c] = answered[c] \/ Answer(c) \/ script'[c] = "done"
<1>1. asr' = asr \/ AsrEndTime(c) \/ AsrBeginTime(c) \/ Answer(c)
  BY DEF CallStep, addPoliceJoinConf, addRelativeJoinConf, bgdial, initConfTime, initMaxDur,
     getDestChannelUuid, FreeEntries, KillPolice, HupConference, KillDest, ForgetDest, Look,
     sendPrisonConfFinishMsg, Abandon, resetConfBeginTime
<1>2. CASE sendPrisonConfFinishMsg(c)
  BY <1>1, <1>2 DEF sendPrisonConfFinishMsg, To, ConfTypes
<1>3. CASE ~sendPrisonConfFinishMsg(c)
  <2>1. answered' = answered \/ Answer(c)
    BY <1>3 DEF CallStep, addPoliceJoinConf, addRelativeJoinConf, bgdial, initConfTime, initMaxDur,
       getDestChannelUuid, FreeEntries, KillPolice, HupConference, KillDest, ForgetDest, Look,
       AsrEndTime, AsrBeginTime, Abandon, resetConfBeginTime, own
  <2> QED
    BY <1>1, <2>1
<1> QED
  BY <1>2, <1>3

\* Once the relative has answered and endtime is written they stay as long as the call is
\* going on.
LEMMA TimedStays ==
    ASSUME ConfInv, AsrInv, [ConfNext]_confVars, NEW e \in Calls, Active(e), Active(e)', Timed(e)
    PROVE  Timed(e)' /\ answered'[e] = answered[e]
<1>0. ConfTypes /\ InOrder /\ LegOf(e) /\ maxdur' = maxdur
  BY SameMaxdur DEF ConfInv, CallInv
<1>1. CASE Moves
  BY <1>0, <1>1 DEF Moves, LegMoves, Timed
<1>2. ASSUME NEW c \in Calls, CallStep(c) PROVE Timed(e)' /\ answered'[e] = answered[e]
  <2>1. Frame(c) /\ LegsMove(c) /\ Writes(c)
    BY <1>0, <1>2, FrameHolds, LegsMoveHolds, WritesHolds
  <2>2. ~bgdial(e) /\ ~Answer(e) /\ script'[e] # "done"
    BY <1>0 DEF bgdial, Answer, LegOf, BeforeDial, Timed, Late, Active
  <2>3. leg'[e] \in Late
    BY <2>1, <2>2 DEF LegsMove, LegMoves, Timed
  <2>4. answered'[e] = answered[e]
    BY <1>0, <1>2, <2>1, <2>2, AsrMoves DEF Frame
  <2>5. CASE hash'.endtime = hash.endtime
    BY <1>0, <2>3, <2>4, <2>5 DEF Timed
  <2>6. CASE AsrEndTime(c)
    <3>1. e = c /\ asr[c].maxdurVal = Number(maxdur[c]) /\ answered[c] = asr[c].nowTime
      BY <2>6 DEF AsrEndTime, AsrInv, AsrOf
    <3>2. Number(maxdur[c]) > 0 => maxdur[c] = Number(maxdur[c])
      BY SMTT(60) DEF Number
    <3>3. Number(maxdur[c]) > 0 => hash'.endtime = asr[c].nowTime + asr[c].maxdurVal * Minute
      BY <1>0, <2>6, <3>1 DEF AsrEndTime, ConfTypes, Entries
    <3> QED
      BY <1>0, <2>3, <2>4, <3>1, <3>2, <3>3 DEF Timed
  <2> QED
    BY <2>1, <2>4, <2>5, <2>6 DEF Writes
<1> QED
  BY <1>0, <1>1, <1>2, StepForms

\* A call is going on only from its resetConfBeginTime on.
LEMMA GoingStays ==
    ASSUME ConfInv, [ConfNext]_confVars, NEW e \in Calls, Going(e)', ~resetConfBeginTime(e)
    PROVE  Going(e)
<1>0. ConfTypes /\ LegOf(e) /\ script[e] \in ConfPlaces
  BY DEF ConfInv, ConfTypes, CallInv
<1>1. CASE Moves
  BY <1>1 DEF Moves, LegMoves, Going, Active
<1>2. ASSUME NEW c \in Calls, CallStep(c) PROVE Going(e)
  <2>1. Frame(c) /\ LegsMove(c) /\ Progress(c)
    BY <1>0, <1>2, FrameHolds, LegsMoveHolds, ProgressHolds
  <2>2. ~Abandon(e)
    <3>1. SUFFICES ASSUME Abandon(e) PROVE FALSE
      OBVIOUS
    <3>2. leg'[e] = "none" /\ script'[e] = "hook"
      BY <1>0, <3>1 DEF Abandon, To, conf, LegOf, BeforeDial, ConfTypes
    <3> QED
      BY <3>2 DEF Going
  <2>3. script[e] \notin {"idle", "report", "done"}
    BY <2>1, <2>2 DEF Frame, Progress, Going, Active, Over
  <2>4. leg[e] # "none" \/ leg'[e] = "none" \/ script[e] = "dial"
    BY <2>1 DEF LegsMove, LegMoves, bgdial
  <2>5. script'[e] \in {"police", "dest", "dial"} => script[e] \in {"police", "dest", "dial"}
    BY <2>1, <2>3 DEF Frame, Progress, BeforeDial
  <2> QED
    BY <2>3, <2>4, <2>5 DEF Going, Active
<1> QED
  BY <1>0, <1>1, <1>2, StepForms

\* Every step keeps asr.lua to its call.
LEMMA AsrStep ==
    ASSUME ConfInv, CutInv, Quick = FALSE, DialsInTime, [ConfNext]_confVars PROVE AsrInv'
<1>0. /\ ConfTypes /\ InOrder /\ LimitInv /\ AsrInv /\ (\A c \in Calls : LegOf(c))
      /\ maxdur' = maxdur
  BY SameMaxdur DEF ConfInv, CutInv, CallInv
<1>a. ASSUME \A d \in Calls : Active(d)' => Active(d), NEW e \in Calls, asr'[e] = asr[e],
             asr[e].at # "none" => /\ leg'[e] \in Late /\ script'[e] # "idle"
                                   /\ Active(e)' => answered'[e] = answered[e]
      PROVE  AsrOf(e)'
  <2>1. SUFFICES ASSUME asr[e].at # "none" PROVE AsrOf(e)'
    BY <1>a, <2>1 DEF AsrOf
  <2>2. /\ asr[e].maxdurVal = Number(maxdur[e]) /\ (\A d \in Calls : d # e => ~Active(d))
        /\ Active(e) => answered[e] = asr[e].nowTime
        /\ Active(e) /\ asr[e].at = "begin" => Timed(e)
    BY <1>0, <2>1 DEF AsrInv, AsrOf
  <2>3. \A d \in Calls : d # e => ~Active(d)'
    BY <1>a, <2>2
  <2>4. Active(e)' => answered'[e] = asr'[e].nowTime
    BY <1>a, <2>1, <2>2
  <2>5. Active(e)' /\ asr'[e].at = "begin" => Timed(e)'
    BY <1>0, <1>a, <2>2, TimedStays
  <2> QED
    BY <1>0, <1>a, <2>1, <2>2, <2>3, <2>4, <2>5 DEF AsrOf
<1>1. CASE Moves
  <2>1. \A d \in Calls : Active(d)' => Active(d)
    BY <1>1 DEF Moves, Active
  <2>2. ASSUME NEW e \in Calls PROVE AsrOf(e)'
    <3>1. asr[e].at # "none" => leg[e] \in Late /\ script[e] # "idle"
      BY <1>0 DEF AsrInv, AsrOf
    <3>2. asr[e].at # "none" => leg'[e] \in Late /\ script'[e] # "idle"
      BY <1>1, <3>1 DEF Moves, LegMoves
    <3> QED
      BY <1>a, <1>1, <2>1, <3>2 DEF Moves
  <2> QED
    BY <2>2 DEF AsrInv
<1>2. ASSUME NEW c \in Calls, CallStep(c) PROVE AsrInv'
  <2>1. Frame(c) /\ LegsMove(c) /\ Progress(c)
    BY <1>0, <1>2, FrameHolds, LegsMoveHolds, ProgressHolds
  <2>2. CASE resetConfBeginTime(c) \/ Abandon(c)
    BY <2>2 DEF resetConfBeginTime, Abandon, Settled, AsrInv, AsrOf
  <2>3. CASE ~resetConfBeginTime(c) /\ ~Abandon(c)
    <3>1. ASSUME NEW d \in Calls, Active(d)' PROVE Active(d)
      <4>1. CASE d = c
        BY <2>1, <2>3, <3>1, <4>1 DEF Progress, Active, Over
      <4>2. CASE d # c
        BY <2>1, <3>1, <4>2 DEF Frame, Active
      <4> QED
        BY <4>1, <4>2
    <3>2. ASSUME NEW e \in Calls, asr[e].at # "none"
          PROVE  leg'[e] \in Late /\ script'[e] # "idle" /\ leg[e] \in Late
      <4>1. leg[e] \in Late /\ script[e] # "idle"
        BY <1>0, <3>2 DEF AsrInv, AsrOf
      <4>2. ~bgdial(e)
        BY <1>0, <4>1 DEF bgdial, LegOf, BeforeDial, Late
      <4> QED
        BY <2>1, <4>1, <4>2 DEF LegsMove, LegMoves, Frame, Progress
    <3>3. ASSUME NEW e \in Calls, asr'[e] = asr[e],
                 e # c \/ answered'[c] = answered[c] \/ ~Active(c)'
          PROVE  AsrOf(e)'
      <4>1. Active(e)' => answered'[e] = answered[e]
        BY <2>1, <3>3 DEF Frame
      <4> QED
        BY <1>a, <3>1, <3>2, <3>3, <4>1
    <3>4. \A e \in Calls : e # c => AsrOf(e)'
      BY <2>1, <3>3 DEF Frame
    <3>5. CASE AsrEndTime(c)
      <4>1. /\ asr'[c].at = "begin" /\ asr'[c].nowTime = asr[c].nowTime
            /\ asr'[c].maxdurVal = asr[c].maxdurVal /\ asr[c].at # "none"
        BY <1>0, <3>5 DEF AsrEndTime, ConfTypes, Asrs
      <4>2. UNCHANGED <<leg, script, answered, maxdur>>
        BY <1>0, <3>5 DEF AsrEndTime, own, conf
      <4>3. \A e \in Calls : Active(e)' <=> Active(e)
        BY <4>2 DEF Active
      <4>4. Number(maxdur[c]) > 0 => maxdur[c] = Number(maxdur[c])
        BY SMTT(60) DEF Number
      <4>5. asr[c].maxdurVal > 0 => hash'.endtime = asr[c].nowTime + asr[c].maxdurVal * Minute
        BY <1>0, <3>5 DEF AsrEndTime, ConfTypes, Entries
      <4>6. /\ leg[c] \in Late /\ asr[c].maxdurVal = Number(maxdur[c])
            /\ Active(c) => answered[c] = asr[c].nowTime
            /\ asr[c].nowTime \in Int
        BY <1>0, <4>1 DEF AsrInv, AsrOf, ConfTypes, Asrs
      <4>7. Active(c) => Timed(c)'
        BY <4>2, <4>4, <4>5, <4>6 DEF Timed
      <4>8. AsrOf(c)'
        BY <1>0, <4>1, <4>2, <4>3, <4>7 DEF AsrInv, AsrOf
      <4> QED
        BY <3>4, <4>8 DEF AsrInv
    <3>6. CASE AsrBeginTime(c)
      <4>1. asr'[c].at = "none"
        BY <1>0, <3>6 DEF AsrBeginTime, NoAsr, ConfTypes
      <4>2. AsrOf(c)'
        BY <4>1 DEF AsrOf
      <4> QED
        BY <3>4, <4>2 DEF AsrInv
    <3>7. CASE Answer(c)
      <4>1. Active(c) /\ script[c] \in LimitPlaces /\ leg[c] = "ringing"
        <5>1. leg[c] = "ringing" /\ script[c] \notin {"times", "limit"}
          BY <3>7 DEF Answer
        <5>2. script[c] \notin BeforeDial /\ script[c] \notin Over
          BY <1>0, <5>1 DEF LegOf, Ended
        <5> QED
          BY <1>0, <5>1, <5>2 DEF ConfTypes, ConfPlaces, BeforeDial, Over, LimitPlaces, Clears,
             Active
      <4>2. Number(hash.maxdur) = Number(maxdur[c])
        BY <1>0, <4>1 DEF LimitInv
      <4>3. \A d \in Calls : d # c => ~Active(d)'
        BY <1>0, <3>1, <4>1, OneActive
      <4>4. /\ asr'[c].at = "end" /\ asr'[c].nowTime = now /\ answered'[c] = now
            /\ asr'[c].maxdurVal = Number(maxdur[c])
            /\ leg'[c] = "answered" /\ script' = script
        BY <1>0, <3>7, <4>2 DEF Answer, ConfTypes
      <4>5. script[c] # "idle"
        BY <4>1 DEF Active
      <4>6. AsrOf(c)'
        BY <1>0, <4>3, <4>4, <4>5 DEF AsrOf, Late
      <4> QED
        BY <3>4, <4>6 DEF AsrInv
    <3>8. CASE asr'[c] = asr[c] /\ ~Answer(c)
      <4>1. answered'[c] = answered[c] \/ ~Active(c)'
        BY <1>0, <1>2, <3>8, AsrMoves DEF Active
      <4>2. AsrOf(c)'
        BY <3>3, <3>8, <4>1
      <4> QED
        BY <3>4, <4>2 DEF AsrInv
    <3> QED
      BY <1>0, <1>2, <3>5, <3>6, <3>7, <3>8, AsrMoves
  <2> QED
    BY <2>2, <2>3
<1> QED
  BY <1>0, <1>1, <1>2, StepForms

\* What the loop has read of the times stays that of the call going on.
LEMMA TimerStep == ASSUME ConfInv, CutInv, [ConfNext]_confVars PROVE TimerInv'
<1> SUFFICES ASSUME NEW e \in Calls, Going(e)'
             PROVE  /\ Number(hash'.begintime) > 0 => Timed(e)'
                    /\ timer'.at \in {"end", "dest"} /\ timer'.begun => Timed(e)'
                    /\ timer'.at = "dest" /\ timer'.begun /\ timer'.endTime > 0 =>
                          /\ Number(maxdur'[e]) > 0
                          /\ timer'.endTime = answered'[e] + maxdur'[e] * Minute
                    /\ timer'.at \in {"legs", "hup", "limit"} /\ timer'.over => Reaches(e)'
  BY DEF TimerInv
<1>0. /\ ConfTypes /\ timer \in Readings /\ AsrInv /\ TimerInv /\ LimitInv /\ InOrder /\ MaxdurInv
      /\ maxdur' = maxdur
  BY SameMaxdur DEF ConfInv, CutInv
<1>1. CASE resetConfBeginTime(e)
  <2>1. hash'.begintime = 0 /\ timer'.at = "sleep"
    BY <1>0, <1>1 DEF resetConfBeginTime, Settled, ConfTypes, Entries
  <2>2. ~(Number(hash'.begintime) > 0)
    BY <2>1, SMTT(60) DEF Number
  <2> QED
    BY <2>1, <2>2
<1>2. CASE ~resetConfBeginTime(e)
  <2>0. Going(e) /\ Active(e) /\ Active(e)'
    BY <1>2, GoingStays DEF Going
  <2>1. Timed(e) => Timed(e)' /\ answered'[e] = answered[e]
    BY <1>0, <2>0, TimedStays
  <2>2. Reaches(e) => Reaches(e)'
    <3>1. now' \in {now, now + 1}
      BY <1>0, StepForms, FrameHolds DEF Moves, Frame
    <3>2. SUFFICES ASSUME Reaches(e) PROVE now' - answered[e] >= maxdur[e] * Minute
      BY <1>0, <2>1 DEF Reaches
    <3>3. /\ now \in Int /\ answered[e] \in Int /\ Number(maxdur[e]) > 0
          /\ now - answered[e] >= maxdur[e] * Minute /\ maxdur[e] \in Nat \cup {NULL}
      BY <1>0, <3>2 DEF Reaches, Timed, ConfTypes
    <3>4. maxdur[e] * Minute \in Int
      BY <3>3, TimesAssumption, SMTT(60) DEF Number
    <3> QED
      BY <3>1, <3>3, <3>4, SMTT(60)
  <2>3. Number(hash'.begintime) > 0 => Timed(e)'
    <3>1. CASE hash'.begintime = hash.begintime
      BY <1>0, <2>0, <2>1, <3>1 DEF TimerInv
    <3>2. CASE hash'.begintime # hash.begintime
      <4>1. PICK c \in Calls : AsrBeginTime(c) \/ resetConfBeginTime(c)
        BY <1>0, <3>2, StepForms, WritesHolds DEF Moves, Writes
      <4>2. CASE AsrBeginTime(c)
        <5>1. c = e /\ Timed(e)
          BY <1>0, <2>0, <4>2 DEF AsrBeginTime, AsrInv, AsrOf
        <5> QED
          BY <2>1, <5>1
      <4>3. CASE resetConfBeginTime(c)
        <5>1. hash'.begintime = 0
          BY <1>0, <4>3 DEF resetConfBeginTime, ConfTypes, Entries
        <5> QED
          BY <5>1, SMTT(60) DEF Number
      <4> QED
        BY <4>1, <4>2, <4>3
    <3> QED
      BY <3>1, <3>2
  <2>4. CASE timer' = timer
    BY <1>0, <2>0, <2>1, <2>2, <2>3, <2>4 DEF TimerInv
  <2>5. CASE TimerList
    <3>1. timer'.at \in {"action", "sleep"}
      BY <1>0, <2>5 DEF TimerList, Readings
    <3> QED
      BY <2>3, <3>1
  <2>6. CASE getConfActionTime
    <3>1. timer'.at = "begin"
      BY <1>0, <2>6 DEF getConfActionTime, Readings
    <3> QED
      BY <2>3, <3>1
  <2>7. CASE getConfBeginTime
    <3>1. timer'.at = "end" /\ timer'.begun = (Number(hash.begintime) > 0)
      BY <1>0, <2>7 DEF getConfBeginTime, Readings
    <3>2. Number(hash.begintime) > 0 => Timed(e)
      BY <1>0, <2>0 DEF TimerInv
    <3> QED
      BY <2>1, <2>3, <3>1, <3>2
  <2>8. CASE getConfEndTime
    <3>1. /\ timer'.at = "dest" /\ timer'.begun = timer.begun /\ timer.at = "end"
          /\ timer'.endTime = Number(hash.endtime)
      BY <1>0, <2>8 DEF getConfEndTime, Readings
    <3>2. Number(maxdur[e]) > 0 \/ hash.endtime = NULL
      BY <1>0, <2>0, NoLimitStored
    <3>3. timer.begun => Timed(e)
      BY <1>0, <2>0, <3>1 DEF TimerInv
    <3>4. timer'.endTime > 0 => hash.endtime # NULL /\ hash.endtime = timer'.endTime
      BY <3>1, SMTT(60) DEF Number
    <3> QED
      BY <1>0, <2>1, <2>3, <3>1, <3>2, <3>3, <3>4 DEF Timed
  <2>9. CASE getConfDestUuId
    <3>1. timer'.at \in {"legs", "limit"} /\ timer'.over = TimeIsOver /\ timer.at = "dest"
      BY <2>9 DEF getConfDestUuId, TimerSleeps
    <3>2. ASSUME TimeIsOver PROVE Reaches(e)
      <4>1. /\ Timed(e) /\ Number(maxdur[e]) > 0
            /\ timer.endTime = answered[e] + maxdur[e] * Minute
        BY <1>0, <2>0, <3>1, <3>2 DEF TimerInv, TimeIsOver
      <4>2. /\ maxdur[e] \in Nat \cup {NULL} /\ answered[e] \in Int /\ now \in Int
            /\ timer.endTime - now <= 0
        BY <1>0, <3>2, <4>1 DEF ConfTypes, Timed, TimeIsOver
      <4>3. maxdur[e] * Minute \in Int
        BY <4>1, <4>2, TimesAssumption, SMTT(60) DEF Number
      <4>4. now - answered[e] >= maxdur[e] * Minute
        BY <4>1, <4>2, <4>3, SMTT(60)
      <4> QED
        BY <4>1, <4>4 DEF Reaches
    <3> QED
      BY <2>2, <2>3, <3>1, <3>2
  <2>10. CASE TimerLegs
    <3>1. /\ timer'.at \in {"hup", "limit"} /\ timer'.over = timer.over /\ timer.at = "legs"
      BY <1>0, <2>10 DEF TimerLegs, Readings
    <3> QED
      BY <1>0, <2>0, <2>2, <2>3, <3>1 DEF TimerInv
  <2>11. CASE TimerHup
    <3>1. /\ timer'.at = "limit" /\ timer'.over = timer.over /\ timer.at = "hup"
      BY <1>0, <2>11 DEF TimerHup, Readings
    <3> QED
      BY <1>0, <2>0, <2>2, <2>3, <3>1 DEF TimerInv
  <2>12. CASE TimerLimit
    <3>1. timer'.at = "sleep"
      BY <2>12 DEF TimerLimit, TimerSleeps
    <3> QED
      BY <2>3, <3>1
  <2>13. timer' = timer \/ Timer
    BY <1>0, LoopMoves
  <2> QED
    BY <2>4, <2>5, <2>6, <2>7, <2>8, <2>9, <2>10, <2>11, <2>12, <2>13 DEF Timer
<1> QED
  BY <1>1, <1>2

\* At the beginning there is no call and nothing has been read.
LEMMA CutInitHolds == LimitsStay /\ ConfInit => CutInv
<1> SUFFICES ASSUME LimitsStay, ConfInit PROVE CutInv
  OBVIOUS
<1>1. timer \in Readings
  BY SMTT(60) DEF ConfInit, TimerSleeps, Readings
<1>2. MaxdurInv
  BY DEF ConfInit, LimitsStay, MaxdurInv
<1>3. LimitInv
  BY DEF ConfInit, LimitInv, Number
<1>4. AsrInv /\ TimerInv
  BY DEF ConfInit, AsrInv, AsrOf, TimerInv, NoAsr, Going, Active
<1> QED
  BY <1>1, <1>2, <1>3, <1>4 DEF CutInv

\* timestamp.lua cuts a call off for its length only when that call has a limit and its
\* relative answered at least that long ago, for any number of calls and any length of their
\* limits.  Three hypotheses, none of which the code ensures: the dialling thread is in time
\* for the hook's second look; the relative does not answer before initConfTime has stored
\* the limit; and no call without a limit follows one with a limit, since initConfTime leaves
\* the maxdur of the call before in the table when the service gives it none.
THEOREM CutInTime == DialsInTime /\ Quick = FALSE /\ LimitsStay => (ConfSpec => CutOnlyWhenOver)
<1> SUFFICES ASSUME DialsInTime, Quick = FALSE, LimitsStay PROVE ConfSpec => CutOnlyWhenOver
  OBVIOUS
<1>1. ConfInit => CutInv
  BY CutInitHolds
<1>2. ConfInv /\ CutInv /\ [ConfNext]_confVars => CutInv'
  <2> SUFFICES ASSUME ConfInv, CutInv, [ConfNext]_confVars PROVE CutInv'
    OBVIOUS
  <2>1. timer' \in Readings
    BY ReadingsStep DEF ConfInv, CutInv
  <2>2. MaxdurInv'
    BY SameMaxdur DEF ConfInv, CutInv, MaxdurInv
  <2>3. LimitInv' /\ AsrInv' /\ TimerInv'
    BY LimitStep, AsrStep, TimerStep
  <2> QED
    BY <2>1, <2>2, <2>3 DEF CutInv
<1>3. ConfInv /\ CutInv =>
         (TimerLimit /\ timer.over =>
             \A c \in Calls : script[c] = "in" \/ leg[c] = "talking" =>
                /\ answered[c] # NULL
                /\ Number(maxdur[c]) > 0
                /\ now - answered[c] >= maxdur[c] * Minute)
  <2> SUFFICES ASSUME ConfInv, CutInv, TimerLimit, timer.over, NEW c \in Calls,
                      script[c] = "in" \/ leg[c] = "talking"
               PROVE  /\ answered[c] # NULL /\ Number(maxdur[c]) > 0
                      /\ now - answered[c] >= maxdur[c] * Minute
    OBVIOUS
  <2>1. LegOf(c) /\ script[c] \in ConfPlaces
    BY DEF ConfInv, ConfTypes, CallInv
  <2>2. Going(c)
    <3>1. CASE script[c] = "in"
      BY <2>1, <3>1 DEF LegOf, Talks, Going, Active
    <3>2. CASE leg[c] = "talking"
      BY <2>1, <3>2 DEF LegOf, BeforeDial, Over, Ended, Going, Active
    <3> QED
      BY <3>1, <3>2
  <2>3. Reaches(c)
    BY <2>2 DEF CutInv, TimerInv, TimerLimit
  <2> QED
    BY <2>3, CallsAreNumbers DEF Reaches, Timed
<1> QED
  BY ConfInvariance, <1>1, <1>2, <1>3, PTL DEF ConfSpec, CutOnlyWhenOver
-----------------------------------------------------------------------------
(* The script of a call up to its conference *)

\* A relative has been dialled only if the script is in the conference, or the channel has
\* been hung up since: whatever outer calls of futureProcess still do, nobody presses keys.
DialledInv == \/ dialled = <<>>
              \/ Len(dialled) = 1 /\ pc = "conference"
              \/ Len(dialled) = 1 /\ ~up /\ pc \in {"menu", "return", "done"}

\* The menu and all behind it are reached by the right password only.
PwdInv == pc \in {"menu", "newpwd", "return", "conference"} => knewPwd

IInv == TypeOK /\ DialledInv /\ PwdInv

Flags == pc \in Places /\ up \in BOOLEAN /\ knewPwd \in BOOLEAN

Counters == i \in 1..3 /\ callFutureTime \in 0..FutureLimit /\ depth \in 0..LuaStack

Data == /\ stack \in Seq({"silent", "wrong"})
        /\ prisonInfo \in Info /\ newPwd \in Seq(Texts)
        /\ dialled \in Seq(Relative)

\* A sequence of one element.
LEMMA OneIsSeq == \A S : \A x \in S : <<x>> \in Seq(S)
BY SMTT(60)

\* The type invariant in three parts.
LEMMA Parts == /\ TypeOK <=> Flags /\ Counters /\ Data
               /\ TypeOK' <=> Flags' /\ Counters' /\ Data'
BY DEF TypeOK, Flags, Counters, Data

\* The script begins typed.
LEMMA InitTypes == Init => TypeOK
<1> SUFFICES ASSUME Init PROVE TypeOK
  OBVIOUS
<1>1. Flags
  BY DEF Init, Flags, Places
<1>2. Counters
  BY LimitsAssumption, SMTT(60) DEF Init, Counters
<1>3. Nobody \in Info
  BY SMTT(60) DEF Nobody, Info
<1>4. Data
  BY <1>3, SMTT(60) DEF Init, Data
<1> QED
  BY <1>1, <1>2, <1>4, Parts

\* Every step leaves the script at one of its places and the flags Boolean.
LEMMA FlagsStep == Flags /\ [Next]_vars => Flags'
<1> SUFFICES ASSUME Flags, [Next]_vars PROVE Flags'
  OBVIOUS
<1>1. CASE Start
  BY <1>1 DEF Flags, Places, Start, sendRedisMsg
<1>2. CASE checkPoliceStatus
  BY <1>2 DEF Flags, Places, checkPoliceStatus
<1>3. CASE InputNo
  <2>1. pc' \in {"number", "password"}
    BY <1>3 DEF InputNo, NumberFailed
  <2>2. up' \in {FALSE, up} /\ knewPwd' = knewPwd
    BY <1>3 DEF InputNo, NumberFailed
  <2> QED
    BY <2>1, <2>2 DEF Flags, Places
<1>4. CASE NoPwd
  BY <1>4 DEF Flags, Places, NoPwd
<1>5. CASE RightPwd
  BY <1>5 DEF Flags, Places, RightPwd, sendRedisMsg
<1>6. CASE WrongPwd
  <2>1. pc' \in {"done", "password"} /\ up' \in {FALSE, up} /\ knewPwd' = knewPwd
    BY <1>6 DEF WrongPwd
  <2> QED
    BY <2>1 DEF Flags, Places
<1>7. CASE GiveUp \/ Silent \/ WrongKey \/ Help
  BY <1>7 DEF Flags, Places, GiveUp, Silent, WrongKey, Help
<1>8. CASE callRelative
  <2>1. pc' \in {"menu", "return", "conference"} /\ up' \in {FALSE, up} /\ knewPwd' = knewPwd
    BY <1>8 DEF callRelative, sendRedisMsg
  <2> QED
    BY <2>1 DEF Flags, Places
<1>9. CASE ConferenceOver \/ Return \/ HangUp
  BY <1>9 DEF Flags, Places, ConferenceOver, Return, HangUp
<1>10. CASE NewPwdAgain
  BY <1>10 DEF Flags, Places, NewPwdAgain
<1>11. CASE ModifyPwd
  BY <1>11 DEF Flags, Places, ModifyPwd
<1>12. CASE UNCHANGED vars
  BY <1>12 DEF Flags, vars
<1> QED
  BY <1>1, <1>2, <1>3, <1>4, <1>5, <1>6, <1>7, <1>8, <1>9, <1>10, <1>11, <1>12 DEF Next, Script

\* Every step keeps the counters in their ranges.
LEMMA CountersStep == Counters /\ [Next]_vars => Counters'
<1> SUFFICES ASSUME Counters, [Next]_vars PROVE Counters'
  OBVIOUS
<1> USE LimitsAssumption DEF Counters
<1>1. CASE UNCHANGED <<i, callFutureTime, depth>>
  BY <1>1
<1>2. CASE InputNo
  <2>1. /\ i' = 1 \/ i' = (IF i = 3 THEN 1 ELSE i + 1)
        /\ callFutureTime' = callFutureTime /\ depth' = depth
    BY <1>2 DEF InputNo, NumberFailed
  <2> QED
    BY <2>1, SMTT(60)
<1>3. CASE WrongPwd
  BY <1>3, SMTT(60) DEF WrongPwd
<1>4. CASE GiveUp
  BY <1>4, SMTT(60) DEF GiveUp
<1>5. CASE Entered /\ UNCHANGED <<i, depth>>
  BY <1>5, SMTT(60) DEF Entered
<1>6. CASE NewPwdAgain
  BY <1>6, SMTT(60) DEF NewPwdAgain
<1>7. CASE ModifyPwd
  BY <1>7, SMTT(60) DEF ModifyPwd
<1> QED
  BY <1>1, <1>2, <1>3, <1>4, <1>5, <1>6, <1>7
     DEF Next, Script, Start, checkPoliceStatus, NoPwd, RightPwd, Silent, WrongKey, Help,
         callRelative, ConferenceOver, Return, HangUp, vars

\* Every step keeps the stack of continuations, the account and the history well formed.
LEMMA DataStep == Data /\ [Next]_vars => Data'
<1> SUFFICES ASSUME Data, [Next]_vars PROVE Data'
  OBVIOUS
<1>0. /\ stack \in Seq({"silent", "wrong"}) /\ prisonInfo \in Info
      /\ newPwd \in Seq(Texts) /\ dialled \in Seq(Relative)
  BY DEF Data
<1>1. CASE UNCHANGED <<stack, prisonInfo, newPwd, dialled>>
  BY <1>0, <1>1 DEF Data
<1>2. CASE InputNo
  <2>1. prisonInfo' \in Info
    BY <1>0, <1>2, AccountsAssumption DEF InputNo, NumberFailed
  <2> QED
    BY <1>0, <1>2, <2>1 DEF InputNo, NumberFailed, Data
<1>3. CASE Silent \/ WrongKey
  <2>1. /\ <<"silent">> \o stack \in Seq({"silent", "wrong"})
        /\ <<"wrong">> \o stack \in Seq({"silent", "wrong"})
    BY <1>0, SMTT(60)
  <2> QED
    BY <1>0, <1>3, <2>1 DEF Silent, WrongKey, Data
<1>4. CASE Help
  <2>1. \A n \in Int : WithBalance(n) \in Info
    BY <1>0 DEF Info, WithBalance
  <2>2. prisonInfo.surplustime \in Int
    BY <1>0 DEF Info
  <2>3. prisonInfo' \in Info
    BY <1>0, <1>4, <2>1, <2>2, SMTT(60) DEF Help
  <2> QED
    BY <1>0, <1>4, <2>3 DEF Help, Data
<1>5. CASE callRelative
  <2>1. \A k \in Keys : \A r \in getCurRelavtiveByBtnNo(k) : r \in Relative
    BY <1>0 DEF getCurRelavtiveByBtnNo, Info
  <2>2. \/ dialled' = dialled
        \/ \E k \in Keys : \E r \in getCurRelavtiveByBtnNo(k) : dialled' = Append(dialled, r)
    BY <1>5 DEF callRelative
  <2>3. dialled' \in Seq(Relative)
    BY <1>0, <2>1, <2>2, SMTT(60)
  <2> QED
    BY <1>0, <1>5, <2>3 DEF callRelative, Data
<1>6. CASE Return
  <2>1. stack # <<>> => Tail(stack) \in Seq({"silent", "wrong"})
    BY <1>0, SMTT(60)
  <2>2. stack # <<>> => /\ <<"wrong">> \o Tail(stack) \in Seq({"silent", "wrong"})
                        /\ <<>> \o Tail(stack) \in Seq({"silent", "wrong"})
    BY <2>1, SMTT(60)
  <2>3. stack' \in Seq({"silent", "wrong"})
    BY <1>0, <1>6, <2>2 DEF Return
  <2> QED
    BY <1>0, <1>6, <2>3 DEF Return, Data
<1>7. CASE ModifyPwd
  <2>0. <<"newPwd=">> \in Seq(Texts)
    BY AccountsAssumption, OneIsSeq
  <2>1. \A p \in NewPwds : Stored(p) \in Seq(Texts)
    BY <2>0, AccountsAssumption, SMTT(60) DEF Stored
  <2>2. \A p \in NewPwds : WithPwd(Stored(p)) \in Info
    BY <1>0, <2>1 DEF Info, WithPwd
  <2>3. prisonInfo' \in Info /\ newPwd' \in Seq(Texts)
    BY <1>0, <1>7, <2>2, AccountsAssumption DEF ModifyPwd
  <2> QED
    BY <1>0, <1>7, <2>3 DEF ModifyPwd, Data
<1> QED
  BY <1>1, <1>2, <1>3, <1>4, <1>5, <1>6, <1>7
     DEF Next, Script, Start, checkPoliceStatus, NoPwd, RightPwd, WrongPwd, GiveUp,
         ConferenceOver, NewPwdAgain, HangUp, vars

\* Every step keeps the types.
LEMMA TypeStep == TypeOK /\ [Next]_vars => TypeOK'
BY Parts, FlagsStep, CountersStep, DataStep

\* callRelative dials only while the channel is up, so it is the first time; every other
\* step leaves `dialled' alone, and none brings a channel up that is down.
LEMMA DialledStep == TypeOK /\ DialledInv /\ [Next]_vars => DialledInv'
<1> SUFFICES ASSUME TypeOK, DialledInv, [Next]_vars PROVE DialledInv'
  OBVIOUS
<1>0. up \in BOOLEAN /\ dialled \in Seq(Relative)
  BY DEF TypeOK
<1>1. CASE callRelative
  <2>1. dialled = <<>>
    BY <1>1 DEF DialledInv, callRelative, Entered
  <2>2. CASE dialled' = dialled
    BY <2>1, <2>2 DEF DialledInv
  <2>3. CASE dialled' # dialled
    <3>1. PICK r : dialled' = Append(dialled, r) /\ pc' = "conference"
      BY <1>1, <2>3 DEF callRelative
    <3>2. Len(dialled') = 1
      BY <3>1, <2>1, SMTT(60)
    <3> QED
      BY <3>1, <3>2 DEF DialledInv
  <2> QED
    BY <2>2, <2>3
<1>2. CASE ~callRelative
  <2>1. dialled' = dialled
    BY <1>2
    DEF Next, Script, Start, checkPoliceStatus, InputNo, NumberFailed, NoPwd, RightPwd,
       WrongPwd, GiveUp, Silent, WrongKey, Help, ConferenceOver, Return, NewPwdAgain, ModifyPwd,
       HangUp, vars
  <2>2. CASE pc \in {"start", "police", "number", "password", "newpwd"}
    BY <2>1, <2>2 DEF DialledInv
  <2>3. CASE pc = "conference"
    BY <1>2, <2>1, <2>3
    DEF DialledInv, Next, Script, Start, checkPoliceStatus, InputNo, NoPwd,
       RightPwd, WrongPwd, GiveUp, Silent, WrongKey, Help, Entered, ConferenceOver, Return,
       NewPwdAgain, ModifyPwd, HangUp, vars
  <2>4. CASE pc \in {"menu", "return", "done"} /\ up
    BY <2>1, <2>4 DEF DialledInv
  <2>5. CASE pc \in {"menu", "return", "done"} /\ ~up
    BY <1>2, <2>1, <2>5
    DEF DialledInv, Next, Script, Start, checkPoliceStatus, InputNo, NoPwd,
       RightPwd, WrongPwd, GiveUp, Silent, WrongKey, Help, Entered, ConferenceOver, Return,
       NewPwdAgain, ModifyPwd, HangUp, vars
  <2> QED
    BY <2>2, <2>3, <2>4, <2>5 DEF TypeOK, Places
<1> QED
  BY <1>1, <1>2

\* Only RightPwd leads into the menu from outside.
LEMMA PwdStep == PwdInv /\ [Next]_vars => PwdInv'
BY DEF PwdInv, Next, Script, Start, checkPoliceStatus, InputNo, NumberFailed, NoPwd, RightPwd,
   WrongPwd, GiveUp, Silent, WrongKey, Help, Entered, callRelative, ConferenceOver, Return,
   NewPwdAgain, ModifyPwd, HangUp, vars

\* The inductive invariant holds in every run of the script.
LEMMA Invariance == Spec => []IInv
<1>1. Init => IInv
  BY InitTypes DEF Init, IInv, DialledInv, PwdInv
<1>2. IInv /\ [Next]_vars => IInv'
  BY TypeStep, DialledStep, PwdStep DEF IInv
<1> QED
  BY <1>1, <1>2, PTL DEF Spec

\* The script's state is well typed in every run.
THEOREM TypeCorrect == Spec => []TypeOK
<1>1. IInv => TypeOK
  BY DEF IInv
<1> QED
  BY <1>1, Invariance, PTL

\* callRelative starts at most one conference in a run of the script, however many calls of
\* futureProcess are still to be finished when it is over.
THEOREM OneCallOnly == Spec => []OneCall
<1>1. IInv => DialledInv
  BY DEF IInv
<1>2. Len(<<>>) = 0
  BY SMTT(60)
<1>3. DialledInv => Len(dialled) = 0 \/ Len(dialled) = 1
  BY <1>2 DEF DialledInv
<1>4. Len(dialled) = 0 \/ Len(dialled) = 1 => OneCall
  BY SMTT(60) DEF OneCall
<1> QED
  BY <1>1, <1>3, <1>4, Invariance, PTL

\* Whoever is dialled may be dialled: the password was right, calls and money are left and
\* the relative is not barred.
THEOREM OnlyAllowed == Spec => DialledIsAllowed
<1> DEFINE Allowed == dialled' # dialled =>
          /\ knewPwd
          /\ prisonInfo.callTime > 0 /\ prisonInfo.surplustime > 0
          /\ \E r \in prisonInfo.relatives : ~r.telstatus /\ dialled' = Append(dialled, r)
<1>1. IInv /\ [Next]_vars => [Allowed]_vars
  <2> SUFFICES ASSUME IInv, Next, dialled' # dialled PROVE Allowed
    BY DEF vars
  <2>1. callRelative
    BY DEF Next, Script, Start, checkPoliceStatus, InputNo, NumberFailed, NoPwd, RightPwd,
       WrongPwd, GiveUp, Silent, WrongKey, Help, ConferenceOver, Return, NewPwdAgain, ModifyPwd,
       HangUp
  <2>2. knewPwd
    BY <2>1 DEF IInv, PwdInv, callRelative, Entered
  <2> QED
    BY <2>1, <2>2 DEF callRelative, getCurRelavtiveByBtnNo, MayBeCalled
<1> QED
  BY <1>1, Invariance, PTL DEF Spec, DialledIsAllowed
=============================================================================

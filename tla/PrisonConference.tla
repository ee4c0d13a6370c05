-------------------------- MODULE PrisonConference --------------------------
(***************************************************************************)
(* The conference of one inmate's extension, over successive calls, and    *)
(* the four scripts that steer it through mod_hash's table:                *)
(*   prison_app.lua     startPrisonConference, on the caller's thread       *)
(*   asr.lua            when the relative answers, on the relative's thread *)
(*   timestamp.lua      a loop over all conferences, on a thread of its own *)
(*   prison_hangup.lua  the caller's hangup hook                            *)
(* The table is keyed by the conference's name, which is made of the       *)
(* extension: calls that follow each other use the same entries.           *)
(*                                                                         *)
(* Of mod_conference there is what they set off: members join, are told to *)
(* leave and leave on their own threads.  Who is in the conference is read *)
(* off the legs: the officer (policeIn), the callers whose script is       *)
(* inside the conference application and the relatives who have joined.    *)
(***************************************************************************)
EXTENDS Integers, FiniteSets

CONSTANTS Calls,          \* 1..n: the calls of the extension, in their order
          TalkTimes(_),   \* talktime the web service may give a call: NULL stands for ""
          Minute,         \* units of the clock in a minute: 60 in the code
          callGwWaitTime, \* 20 s in the code, in units of the clock
          Horizon,        \* bound on the clock
          Reached,        \* the calls whose officer may be reached
          Quick,          \* may the relative answer before initConfTime is done?
          DialsInTime,    \* does the dialling thread make its channel, or give up, within
                          \* the second the hook sleeps?
          NULL

ASSUME CallsAssumption == IsFiniteSet(Calls) /\ Calls = 1..Cardinality(Calls)
ASSUME TimesAssumption == /\ Minute \in Nat \ {0} /\ callGwWaitTime \in Nat /\ Horizon \in Nat
                          /\ \A c \in Calls : TalkTimes(c) \subseteq Nat \cup {NULL}
                          /\ NULL \notin Int
                          /\ Reached \subseteq Calls /\ Quick \in BOOLEAN /\ DialsInTime \in BOOLEAN

VARIABLES now,            \* os.time()
          hash,           \* the table's entries of the conference, NULL when absent
          policeId,       \* calls that have an entry policeId
          recordTime,     \* calls that have an entry recordTime
          script,         \* where the script, and then the hook, of each call is
          maxdur,         \* prisonInfo.maxdur of each call
          policeIn,       \* the officer: "out", "coming", "in" or "told" to leave
          leg,            \* the relative's channel of each call
          cflags,         \* of the conference: min is 2, CFLAG_ENFORCE_MIN, CFLAG_DESTRUCT and
                          \* endconference_time
          asr,            \* asr.lua of the relative: its place, nowTime and maxdurVal
          destUuid,       \* what each hook has read of the entry dest
          again,          \* calls whose hook clears for the second time
          timer,          \* timestamp.lua: its place and what it has read
          answered        \* history: when the relative of a call not yet reported answered

confVars == <<now, hash, policeId, recordTime, script, maxdur, policeIn, leg, cflags, asr,
              destUuid, again, timer, answered>>

\* What the scripts share, what they keep for themselves, and the conference.
table == <<hash, policeId, recordTime>>
own   == <<maxdur, destUuid, again, answered>>
conf  == <<policeIn, leg, cflags>>

NoAsr == [at |-> "none", nowTime |-> 0, maxdurVal |-> 0]
TimerSleeps(even) == [at |-> "sleep", even |-> even, actionTime |-> 0, begun |-> FALSE,
                      endTime |-> 0, dest |-> NULL, late |-> FALSE, over |-> FALSE]

\* hash select of a number: tonumber(...) or 0.
Number(v) == IF v = NULL THEN 0 ELSE v

ConfInit ==
    /\ now = 1
    /\ hash = [begintime |-> NULL, endtime |-> NULL, maxdur |-> NULL,
               actiontime |-> NULL, dest |-> NULL]
    /\ policeId = {} /\ recordTime = {}
    /\ script = [c \in Calls |-> "idle"]
    /\ maxdur \in [Calls -> UNION {TalkTimes(c) : c \in Calls}]
    /\ \A c \in Calls : maxdur[c] \in TalkTimes(c)
    /\ policeIn = "out"
    /\ leg = [c \in Calls |-> "none"]
    /\ cflags = {}
    /\ asr = [c \in Calls |-> NoAsr]
    /\ destUuid = [c \in Calls |-> NULL]
    /\ again = {}
    /\ timer = TimerSleeps(FALSE)
    /\ answered = [c \in Calls |-> NULL]

To(c, place) == script' = [script EXCEPT ![c] = place]

Tick == /\ now < Horizon
        /\ now' = now + 1
        /\ UNCHANGED <<table, script, conf, own, asr, timer>>
-----------------------------------------------------------------------------
(* mod_conference and the legs *)

Members == {"talking", "told", "hung"}

\* count, of callers and relatives, and count_ghosts, of the officer.
Count  == Cardinality({c \in Calls : script[c] \in {"in", "told"}})
            + Cardinality({c \in Calls : leg[c] \in Members})
Ghosts == IF policeIn \in {"in", "told"} THEN 1 ELSE 0

\* A conference is there as long as it has members.
Listed == Count + Ghosts > 0

\* conference_find does not find one that is to be destroyed.  Another of its name could
\* then be made; here who would make it waits until the old one is gone.
Found == Listed /\ "destruct" \notin cflags

\* conference_member_add: once there were two the minimum is enforced (mintwo, which the
\* relative's leg brings along).
MemberAdd(f, count) ==
    cflags' = LET g == cflags \cup f
              IN  IF "min" \in g /\ count >= 2 THEN g \cup {"enforce"} ELSE g

\* conference_member_del: an empty conference goes away.
MemberDel(f) ==
    cflags' = LET left == Count + Ghosts - 1
              IN  IF left = 0 THEN {}
                  ELSE IF "enforce" \in cflags /\ left < 2 THEN cflags \cup f \cup {"destruct"}
                  ELSE cflags \cup f

\* "conference ... hup all" takes MFLAG_RUNNING from every member.
HupAll ==
    /\ IF Found
       THEN /\ policeIn' = IF policeIn = "in" THEN "told" ELSE policeIn
            /\ leg' = [c \in Calls |-> IF leg[c] = "talking" THEN "told" ELSE leg[c]]
            /\ script' = [c \in Calls |-> IF script[c] = "in" THEN "told" ELSE script[c]]
       ELSE UNCHANGED <<policeIn, leg, script>>
    /\ UNCHANGED cflags

\* The conference's thread, a second after its officer has left (endconf) or when it is to
\* be destroyed, hangs up every member's channel.
ConferenceThread ==
    /\ "destruct" \in cflags \/ ("endconf" \in cflags /\ Ghosts = 0)
    /\ policeIn = "in" \/ \E c \in Calls : script[c] = "in" \/ leg[c] \in {"talking", "told"}
    /\ cflags' = cflags \cup {"destruct"}
    /\ policeIn' = IF policeIn = "in" THEN "told" ELSE policeIn
    /\ leg' = [c \in Calls |-> IF leg[c] \in Members THEN "hung" ELSE leg[c]]
    /\ script' = [c \in Calls |-> IF script[c] = "in" THEN "told" ELSE script[c]]
    /\ UNCHANGED <<now, table, own, asr, timer>>

\* The officer's channel enters the conference, or does not get there.
PoliceComes ==
    /\ policeIn = "coming"
    /\ \/ "destruct" \notin cflags /\ policeIn' = "in" /\ MemberAdd({}, Count)
       \/ policeIn' = "out" /\ UNCHANGED cflags
    /\ UNCHANGED <<now, table, script, leg, own, asr, timer>>

PoliceIsOut ==
    /\ policeIn' = "out"
    /\ MemberDel({"endconf"})
    /\ UNCHANGED <<now, table, script, leg, own, asr, timer>>

PoliceLeaves == policeIn = "in" /\ PoliceIsOut
PoliceGoes   == policeIn = "told" /\ PoliceIsOut

\* The application returns to the caller's script, which ends: the hook is next.
CallerIsOut(c) ==
    /\ script' = [script EXCEPT ![c] = "hook"]
    /\ MemberDel({})
    /\ UNCHANGED <<now, table, policeIn, leg, own, asr, timer>>

CallerLeaves(c) == script[c] = "in" /\ CallerIsOut(c)
CallerGoes(c)   == script[c] = "told" /\ CallerIsOut(c)

\* The dialling thread makes the channel, or fails.
Ring(c) ==
    /\ leg[c] = "asked"
    /\ \E l \in {"ringing", "gone"} : leg' = [leg EXCEPT ![c] = l]
    /\ UNCHANGED <<now, table, script, policeIn, cflags, own, asr, timer>>

\* execute_on_answer: asr.lua takes the time and reads maxdur.
Answer(c) ==
    /\ leg[c] = "ringing"
    /\ Quick \/ script[c] \notin {"times", "limit"}
    /\ now + Number(hash.maxdur) * Minute < Horizon
    /\ leg' = [leg EXCEPT ![c] = "answered"]
    /\ asr' = [asr EXCEPT ![c] = [at |-> "end", nowTime |-> now, maxdurVal |-> Number(hash.maxdur)]]
    /\ answered' = [answered EXCEPT ![c] = now]
    /\ UNCHANGED <<now, table, script, maxdur, policeIn, cflags, destUuid, again, timer>>

\* The leg that was answered joins; join-only keeps it from opening a conference of its
\* own.
Join(c) ==
    /\ leg[c] = "answered"
    /\ leg' = [leg EXCEPT ![c] = IF Found THEN "talking" ELSE "gone"]
    /\ IF Found THEN MemberAdd({"min"}, Count + 1) ELSE UNCHANGED cflags
    /\ UNCHANGED <<now, table, script, policeIn, own, asr, timer>>

\* A channel that is hung up: a member's thread has yet to leave the conference.
Hangup(l) == IF l \in {"talking", "told"} THEN "hung"
             ELSE IF l \in {"ringing", "answered"} THEN "gone" ELSE l

LegEnds(c) ==
    /\ leg[c] \in {"ringing", "answered", "talking"}
    /\ leg' = [leg EXCEPT ![c] = Hangup(@)]
    /\ UNCHANGED <<now, table, script, policeIn, cflags, own, asr, timer>>

LegGoes(c) ==
    /\ leg[c] \in {"told", "hung"}
    /\ leg' = [leg EXCEPT ![c] = "gone"]
    /\ MemberDel({})
    /\ UNCHANGED <<now, table, script, policeIn, own, asr, timer>>
-----------------------------------------------------------------------------
(* prison_app.lua, startPrisonConference *)

\* A call gets here only through prompts, digits and requests that take seconds.  By
\* then the hook of the call before has slept, looked and reported, who was to leave has
\* left, and what was in the middle of a few table operations has finished them.
Settled(c) == /\ \A d \in 1..(c - 1) : script[d] = "done" /\ leg[d] # "hung"
              /\ policeIn # "told"
              /\ \A d \in Calls : asr[d].at = "none"
              /\ timer.at = "sleep"

\* Mutant of resetConfBeginTime: the reset is missing.
NoReset(c) ==
    /\ script[c] = "idle" /\ Settled(c)
    /\ now + callGwWaitTime + 1 < Horizon
    /\ To(c, "police")
    /\ UNCHANGED <<now, table, conf, own, asr, timer>>

\* sendRedisMsg; resetConfBeginTime.
resetConfBeginTime(c) ==
    /\ script[c] = "idle" /\ Settled(c)
    /\ now + callGwWaitTime + 1 < Horizon
    /\ hash' = [hash EXCEPT !.begintime = 0]
    /\ To(c, "police")
    /\ UNCHANGED <<now, policeId, recordTime, conf, own, asr, timer>>

\* The caller leaves the menu without a call: only the hook runs.
Abandon(c) ==
    /\ script[c] = "idle" /\ Settled(c)
    /\ To(c, "hook")
    /\ UNCHANGED <<now, table, conf, own, asr, timer>>

\* The officer's channel is transferred, wherever it was, or dialled, and then looked up
\* again: it is there unless the officer could not be reached.
addPoliceJoinConf(c) ==
    /\ script[c] = "police"
    /\ policeIn' \in {"out"} \cup {"coming" : d \in Reached \cap {c}}
    /\ IF Ghosts = 1 THEN MemberDel({"endconf"}) ELSE UNCHANGED cflags
    /\ policeId' = IF policeIn' = "coming" THEN policeId \cup {c} ELSE policeId
    /\ To(c, "dest")
    /\ UNCHANGED <<now, hash, recordTime, leg, own, asr, timer>>

\* addRelativeJoinConf stores dest, then leaves the dialling to another thread (bgdial) ...
addRelativeJoinConf(c) ==
    /\ script[c] = "dest"
    /\ hash' = [hash EXCEPT !.dest = c]
    /\ To(c, "dial")
    /\ UNCHANGED <<now, policeId, recordTime, conf, own, asr, timer>>

bgdial(c) ==
    /\ script[c] = "dial"
    /\ leg' = [leg EXCEPT ![c] = "asked"]
    /\ To(c, "times")
    /\ UNCHANGED <<now, table, policeIn, cflags, own, asr, timer>>

\* ... and stores actiontime, then the limit and recordTime, which nobody here reads.
initConfTime(c) ==
    /\ script[c] = "times"
    /\ now + callGwWaitTime < Horizon
    /\ hash' = [hash EXCEPT !.actiontime = now]
    /\ To(c, "limit")
    /\ UNCHANGED <<now, policeId, recordTime, conf, own, asr, timer>>

initMaxDur(c) ==
    /\ script[c] = "limit"
    /\ hash' = [hash EXCEPT !.maxdur = IF maxdur[c] = NULL THEN @ ELSE maxdur[c]]
    /\ recordTime' = recordTime \cup {c}
    /\ To(c, "join")
    /\ UNCHANGED <<now, policeId, conf, own, asr, timer>>

\* The conference application, which returns at once when the caller is gone.
addPrisonJoinConf(c) ==
    /\ script[c] = "join"
    /\ \/ "destruct" \notin cflags /\ To(c, "in") /\ MemberAdd({}, Count + 1)
       \/ To(c, "hook") /\ UNCHANGED cflags
    /\ UNCHANGED <<now, table, policeIn, leg, own, asr, timer>>
-----------------------------------------------------------------------------
(* asr.lua, on the relative's leg: endtime if there is a limit, and then begintime *)

AsrEndTime(c) ==
    /\ asr[c].at = "end"
    /\ hash' = IF asr[c].maxdurVal > 0
               THEN [hash EXCEPT !.endtime = asr[c].nowTime + asr[c].maxdurVal * Minute] ELSE hash
    /\ asr' = [asr EXCEPT ![c].at = "begin"]
    /\ UNCHANGED <<now, policeId, recordTime, script, conf, own, timer>>

AsrBeginTime(c) ==
    /\ asr[c].at = "begin"
    /\ hash' = [hash EXCEPT !.begintime = asr[c].nowTime]
    /\ asr' = [asr EXCEPT ![c] = NoAsr]
    /\ UNCHANGED <<now, policeId, recordTime, script, conf, own, timer>>
-----------------------------------------------------------------------------
(* timestamp.lua: one round of the loop, for this conference *)

Reads == UNCHANGED <<now, table, script, conf, own, asr>>

\* Sleep(5), loopNum, getSysConfList.
TimerList ==
    /\ timer.at = "sleep"
    /\ timer' = [timer EXCEPT !.even = ~@, !.at = IF Listed THEN "action" ELSE "sleep"]
    /\ Reads

getConfActionTime ==
    /\ timer.at = "action"
    /\ timer' = [timer EXCEPT !.at = "begin", !.actionTime = Number(hash.actiontime)]
    /\ Reads

getConfBeginTime ==
    /\ timer.at = "begin"
    /\ timer' = [timer EXCEPT !.at = "end", !.begun = Number(hash.begintime) > 0]
    /\ Reads

getConfEndTime ==
    /\ timer.at = "end"
    /\ timer' = [timer EXCEPT !.at = "dest", !.endTime = Number(hash.endtime)]
    /\ Reads

\* The relative has been answered, or should have been by now.
RelativeIsLate == timer.begun \/ now - timer.actionTime > callGwWaitTime

\* Mutant of TimeIsOver: the very second of the end is waited for.
TimeIsExact == /\ timer.begun /\ timer.endTime > 0
               /\ timer.even
               /\ timer.endTime = now

\* Every second round: beeps before the end of the limit, which are left out, and at
\* the end hangs up.
TimeIsOver == /\ timer.begun /\ timer.endTime > 0
              /\ timer.even
              /\ timer.endTime - now <= 0

\* dest, and then os.time(), which all the comparisons that follow are made with.
getConfDestUuId ==
    /\ timer.at = "dest"
    /\ timer' = [TimerSleeps(timer.even) EXCEPT
                    !.at = IF timer.actionTime > 0 THEN "legs" ELSE "limit",
                    !.dest = IF timer.actionTime > 0 THEN hash.dest ELSE NULL,
                    !.late = timer.actionTime > 0 /\ RelativeIsLate,
                    !.over = TimeIsOver]
    /\ Reads

\* Does "show channels like <dest>" come back empty?  With no dest it lists every channel.
NoRelative == timer.dest # NULL /\ leg[timer.dest] \in {"none", "asked", "gone"}

TimerLegs ==
    /\ timer.at = "legs"
    /\ timer' = [timer EXCEPT !.at = IF NoRelative /\ timer.late THEN "hup" ELSE "limit",
                              !.dest = NULL, !.late = FALSE]
    /\ Reads

TimerHup ==
    /\ timer.at = "hup"
    /\ timer' = [timer EXCEPT !.at = "limit"]
    /\ HupAll
    /\ UNCHANGED <<now, table, own, asr>>

TimerLimit ==
    /\ timer.at = "limit"
    /\ timer' = TimerSleeps(timer.even)
    /\ IF timer.over THEN HupAll ELSE UNCHANGED <<conf, script>>
    /\ UNCHANGED <<now, table, own, asr>>
-----------------------------------------------------------------------------
(* prison_hangup.lua *)

\* destUuid is read; policeUuid is read after it in the same way.
policeUuid(c) == destUuid[c]

getDestChannelUuid(c) ==
    /\ script[c] = "hook"
    /\ destUuid' = [destUuid EXCEPT ![c] = hash.dest]
    /\ To(c, "free")
    /\ UNCHANGED <<now, table, maxdur, again, conf, asr, timer, answered>>

\* clearSession deletes actiontime, and with it recordTime and policeId, which only the
\* script of this call writes ...
FreeEntries(c) ==
    /\ script[c] = "free"
    /\ hash' = [hash EXCEPT !.actiontime = NULL]
    /\ recordTime' = recordTime \ {c} /\ policeId' = policeId \ {c}
    /\ To(c, IF destUuid[c] = NULL THEN "hup" ELSE "kill")
    /\ UNCHANGED <<now, conf, own, asr, timer>>

uuid_kill(d) == leg' = [leg EXCEPT ![d] = Hangup(@)]

\* ... kills policeUuid ...
KillPolice(c) ==
    /\ script[c] = "kill"
    /\ uuid_kill(policeUuid(c))
    /\ To(c, "hup")
    /\ UNCHANGED <<now, table, policeIn, cflags, own, asr, timer>>

\* Sleep(1) is part of the first round; after the second the call is reported.
Cleared(c) == IF c \in again THEN "report" ELSE "asleep"

\* ... hangs the conference up ...
HupConference(c) ==
    /\ script[c] = "hup"
    /\ IF Found
       THEN /\ policeIn' = IF policeIn = "in" THEN "told" ELSE policeIn
            /\ leg' = [d \in Calls |-> IF leg[d] = "talking" THEN "told" ELSE leg[d]]
       ELSE UNCHANGED <<policeIn, leg>>
    /\ To(c, IF destUuid[c] = NULL THEN Cleared(c) ELSE "killdest")
    /\ UNCHANGED <<now, table, cflags, own, asr, timer>>

\* ... kills the relative's leg ...
KillDest(c) ==
    /\ script[c] = "killdest"
    /\ uuid_kill(destUuid[c])
    /\ To(c, "forget")
    /\ UNCHANGED <<now, table, policeIn, cflags, own, asr, timer>>

\* ... and deletes dest.
ForgetDest(c) ==
    /\ script[c] = "forget"
    /\ hash' = [hash EXCEPT !.dest = NULL]
    /\ To(c, Cleared(c))
    /\ UNCHANGED <<now, policeId, recordTime, conf, own, asr, timer>>

\* uuid_exists: a channel that is not hung up.
Exists(d) == d # NULL /\ leg[d] \in {"ringing", "answered", "talking", "told"}

\* Mutant of Look: the channels are not looked for again.
LooksNot(c) ==
    /\ script[c] = "asleep"
    /\ DialsInTime => leg[c] # "asked"
    /\ To(c, "report")
    /\ UNCHANGED <<now, table, conf, own, asr, timer>>

\* A second later the channels are looked for, once; if one exists, all is done again.
Look(c) ==
    /\ script[c] = "asleep"
    /\ DialsInTime => leg[c] # "asked"
    /\ IF Exists(destUuid[c])
       THEN To(c, "free") /\ again' = again \cup {c}
       ELSE To(c, "report") /\ UNCHANGED again
    /\ UNCHANGED <<now, table, conf, maxdur, destUuid, asr, timer, answered>>

\* sendPrisonConfFinishMsg(fUuid, destUuid, policeUuid, fUuid).
sendPrisonConfFinishMsg(c) ==
    /\ script[c] = "report"
    /\ To(c, "done")
    /\ destUuid' = [destUuid EXCEPT ![c] = NULL]
    /\ again' = again \ {c}
    /\ answered' = [answered EXCEPT ![c] = NULL]
    /\ UNCHANGED <<now, table, maxdur, conf, asr, timer>>
-----------------------------------------------------------------------------
ScriptStep(c) ==
    \/ addPoliceJoinConf(c) \/ addRelativeJoinConf(c) \/ bgdial(c) \/ initConfTime(c)
    \/ initMaxDur(c) \/ addPrisonJoinConf(c) \/ CallerGoes(c)
    \/ getDestChannelUuid(c) \/ FreeEntries(c) \/ KillPolice(c) \/ HupConference(c)
    \/ KillDest(c) \/ ForgetDest(c) \/ Look(c) \/ sendPrisonConfFinishMsg(c)

Asr(c) == AsrEndTime(c) \/ AsrBeginTime(c)

Leg(c) == Ring(c) \/ Join(c) \/ LegGoes(c)

Timer == \/ TimerList \/ getConfActionTime \/ getConfBeginTime \/ getConfEndTime
         \/ getConfDestUuId \/ TimerLegs \/ TimerHup \/ TimerLimit

Police == PoliceComes \/ PoliceGoes

People(c) == CallerLeaves(c) \/ LegEnds(c) \/ Answer(c) \/ Abandon(c) \/ resetConfBeginTime(c)

ConfNext == \/ Tick \/ Timer \/ ConferenceThread \/ Police \/ PoliceLeaves
            \/ \E c \in Calls : ScriptStep(c) \/ Asr(c) \/ Leg(c) \/ People(c)

ConfSpec == ConfInit /\ [][ConfNext]_confVars

\* The loop of timestamp.lua goes on, and so do the clock and the threads of the scripts, of
\* the dialling, of the conference and of its members; these take finitely many steps, so
\* that fairness to all of them together is fairness to each.  What people do, they need
\* not do.
Threads == \/ Tick \/ ConferenceThread
           \/ \E c \in Calls : ScriptStep(c) \/ Asr(c) \/ Leg(c)

ConfFairSpec == ConfSpec /\ WF_confVars(Timer) /\ WF_confVars(Threads)
-----------------------------------------------------------------------------
ConfPlaces == {"idle", "police", "dest", "dial", "times", "limit", "join", "in", "told", "hook",
               "free", "kill", "hup", "killdest", "forget", "asleep", "report", "done"}
Entry == 0..Horizon \cup {NULL}

\* Type correctness of the table, the legs and the scripts' places.
ConfTypeOK ==
    /\ now \in 1..Horizon
    /\ hash \in [begintime: Entry, endtime: Entry, maxdur: Nat \cup {NULL}, actiontime: Entry,
                 dest: Calls \cup {NULL}]
    /\ policeId \subseteq Calls /\ recordTime \subseteq Calls
    /\ script \in [Calls -> ConfPlaces]
    /\ policeIn \in {"out", "coming", "in", "told"}
    /\ leg \in [Calls -> {"none", "asked", "ringing", "answered", "talking", "told", "hung", "gone"}]
    /\ cflags \subseteq {"min", "enforce", "endconf", "destruct"}
    /\ again \subseteq Calls
    /\ \A c \in Calls : asr[c].at \in {"none", "end", "begin"}
    /\ destUuid \in [Calls -> Calls \cup {NULL}]

\* timestamp.lua hangs a call up for its length only if that call has a limit and its
\* relative answered at least that long ago.  begintime and endtime are left over from the
\* call before: that resetConfBeginTime comes first, and that asr.lua writes endtime
\* before begintime, is what keeps the loop from taking the old for the new.
CutOnlyWhenOver ==
    [][TimerLimit /\ timer.over =>
          \A c \in Calls : script[c] = "in" \/ leg[c] = "talking" =>
             /\ answered[c] # NULL
             /\ Number(maxdur[c]) > 0
             /\ now - answered[c] >= maxdur[c] * Minute]_confVars

\* When prison_hangup.lua reports a call as finished the relative's leg is hung up for good,
\* though the thread that dials it may have been late for the first uuid_kill.
LegsAreOver == \A c \in Calls : script[c] \in {"report", "done"} => leg[c] \in {"none", "hung", "gone"}

\* What a call has put into the table is freed ("释放内存"): once no call is going on, only the
\* times are left, which the next call overwrites.
TableIsFree ==
    (\A c \in Calls : script[c] \in {"idle", "report", "done"}) =>
       /\ policeId = {} /\ recordTime = {}
       /\ hash.actiontime = NULL /\ hash.dest = NULL

\* When prison_hangup.lua reports the call as finished nothing is left of it.
NothingIsLeft == LegsAreOver /\ TableIsFree

\* A conference whose relative has left or was never reached, or that has a limit, comes
\* to an end though nobody ends it: the loop of timestamp.lua hangs everybody up.
ConferenceEnds ==
    (\E c \in Calls : /\ script[c] = "in"
                      /\ leg[c] = "gone" \/ (leg[c] = "talking" /\ Number(maxdur[c]) > 0))
        ~> (\A c \in Calls : script[c] \notin {"in", "told"})

\* The finish message names the officer's channel, which addPoliceJoinConf stored and
\* getPoliceChannelUuid would read, not the relative's.
PoliceIsReported ==
    \A c \in Calls : script[c] = "report" /\ destUuid[c] # NULL => policeUuid(c) # destUuid[c]
=============================================================================

---------------------------- MODULE ChannelState ----------------------------
(***************************************************************************)
(* One session's state machine: the session thread in                      *)
(* switch_core_session_run, and the threads that change its channel's      *)
(* state, hang it up or queue it a message (switch_core_state_machine.c,   *)
(* switch_channel.c, switch_core_session.c).                               *)
(*                                                                         *)
(* The session thread holds session->mutex all the time except inside its  *)
(* condition wait, and channel->thread_mutex from the moment it thinks of  *)
(* sleeping until it is awake again.  Other threads only ever try these    *)
(* two, so both are functions of the session thread's place.               *)
(* channel->state_mutex is kept across steps and has a variable.           *)
(***************************************************************************)
EXTENDS Naturals

CONSTANTS Threads,          \* the other threads
          NULL,
          Wanted,           \* the states they and the handlers ask for
          NewLoops,         \* how often a session looks around in CS_NEW (500)
          QueueLen,         \* room in the message queue
          Patient,          \* retries outlast everything but a blocked session thread
          EarlyHangup       \* CF_EARLY_HANGUP or SCF_EARLY_HANGUP

LiveStates == {"NEW", "INIT", "ROUTING", "SOFT_EXECUTE", "EXECUTE", "EXCHANGE_MEDIA",
               "PARK", "CONSUME_MEDIA", "HIBERNATE", "RESET"}
DownStates == {"HANGUP", "REPORTING", "DESTROY"}
States     == LiveStates \cup DownStates

Causes == {"NONE", "NORMAL_CLEARING", "WRONG_CALL_STATE"}

ASSUME ChannelAssumption ==
    /\ NULL \notin Threads
    /\ Wanted \subseteq LiveStates \ {"NEW"}
    /\ NewLoops \in Nat \ {0} /\ QueueLen \in Nat \ {0}
    /\ Patient \in BOOLEAN /\ EarlyHangup \in BOOLEAN

VARIABLES state, running_state, hangup_cause,
          ocf_hangup,           \* OCF_HANGUP
          cf_state_repeat,      \* CF_STATE_REPEAT
          cf_block_state,       \* CF_BLOCK_STATE: originate delays this leg
          ssf_hangup,           \* SSF_HANGUP: the hangup handlers have run
          cf_reporting,         \* CF_REPORTING
          state_mutex,          \* its holder
          messages,             \* how many are in the message queue
          run, seen,            \* the session thread: its place and its local state
          new_loops,
          pc, want,             \* the other threads
          gaveUp,               \* history: where the session thread was when wakers gave
                                \* up on it, since it last emptied its message queue
          hangups, reports,     \* history: runs of the handlers
          reported              \* history: the cause the hangup handlers saw

chanVars == <<state, running_state, hangup_cause, ocf_hangup, cf_state_repeat, cf_block_state>>
onceVars == <<ssf_hangup, cf_reporting, hangups, reports, reported>>
userVars == <<pc, want, gaveUp>>
vars     == <<chanVars, onceVars, userVars, run, seen, new_loops, state_mutex, messages>>

RunPlaces  == {"unstarted", "top", "blocked", "setrun", "handle", "end", "new", "lock",
               "events", "parsed", "drowsy", "asleep", "woken", "up", "done"}
UserPlaces == {"idle", "set", "claimed", "flagged", "wake"}

\* switch_channel_init with CS_NEW; no thread yet.
Init ==
    /\ state = "NEW" /\ running_state = "NONE" /\ hangup_cause = "NONE"
    /\ ocf_hangup = FALSE /\ cf_state_repeat = FALSE
    /\ ssf_hangup = FALSE /\ cf_reporting = FALSE
    /\ hangups = 0 /\ reports = 0 /\ reported = "NONE"
    /\ state_mutex = NULL /\ messages = 0
    /\ run = "unstarted" /\ seen = "NEW" /\ new_loops = NewLoops
    /\ pc = [t \in Threads |-> "idle"]
    /\ want = [t \in Threads |-> "NEW"]
    /\ gaveUp = {} /\ cf_block_state = FALSE

\* Whether somebody else's trylock of these fails.
SessionMutexTaken == run \notin {"unstarted", "asleep", "woken", "done"}
ThreadMutexTaken  == run \in {"lock", "events", "parsed", "drowsy", "asleep", "woken"}

-----------------------------------------------------------------------------
(* switch_channel_set_state *)

\* Mutant of MayChange: a channel that is going down may be revived.
MayChangeBack(last, new) == last # new /\ new # "NEW"

\* Mutant of MayChange: the last three states have no row in the table.
MayChangeLive(last, new) == last # new /\ last \in LiveStates

\* The early returns and the table of allowed changes.  (On a live channel a
\* change outside the table is an assertion failure: callers do not ask for it.)
MayChange(last, new) ==
    /\ last # new
    /\ \/ last \in {"NEW", "RESET"}
       \/ last = "HANGUP" /\ new \in {"REPORTING", "DESTROY"}
       \/ last = "REPORTING" /\ new = "DESTROY"
       \/ last = "HIBERNATE" /\ new = "INIT"
       \/ last \in LiveStates /\ new \in LiveStates \ {"NEW", "INIT"}

\* The session thread changes the state itself: careful_set finds session->mutex
\* its own, and there is nobody asleep to signal.
OwnSetState(s) ==
    /\ state_mutex = NULL
    /\ state' = IF MayChange(state, s) THEN s ELSE state

\* Another thread does: state_mutex is its own until it has woken the session.
SetState(t, s) ==
    /\ pc[t] = "idle" /\ state_mutex = NULL
    /\ MayChange(state, s)
    /\ state_mutex' = t
    /\ want' = [want EXCEPT ![t] = s]
    /\ pc' = [pc EXCEPT ![t] = "set"]
    /\ UNCHANGED <<chanVars, onceVars, gaveUp, run, seen, new_loops, messages>>

\* When a hundred (or ten) retries, a millisecond apart, may all find both mutexes
\* taken: a thread that handles messages or private events may take its time (they
\* wait for state_mutex, they run applications), the other places take none.
MayRunOut ==
    SessionMutexTaken /\ ThreadMutexTaken /\ (Patient => run \in {"lock", "events"})

\* careful_set: under thread_mutex, else under session->mutex, else under neither.
CarefulSet(t) ==
    /\ pc[t] = "set"
    /\ ~ThreadMutexTaken \/ ~SessionMutexTaken \/ MayRunOut
    /\ state' = want[t]
    /\ pc' = [pc EXCEPT ![t] = "wake"]
    /\ want' = [want EXCEPT ![t] = "NEW"]
    /\ UNCHANGED <<running_state, hangup_cause, ocf_hangup, cf_state_repeat, cf_block_state,
                   onceVars, gaveUp, run, seen, new_loops, state_mutex, messages>>

-----------------------------------------------------------------------------
(* switch_core_session_wake_session_thread *)

\* The caller goes its way; set_state releases state_mutex.
WakeEnds(t) ==
    /\ pc' = [pc EXCEPT ![t] = "idle"]
    /\ state_mutex' = IF state_mutex = t THEN NULL ELSE state_mutex
    /\ UNCHANGED <<state, running_state, hangup_cause, ocf_hangup, cf_block_state, onceVars,
                   want, seen, new_loops, messages>>

\* session->mutex is free: the session thread waits, or is not in its loop.
WakeSignals(t) ==
    /\ pc[t] = "wake" /\ ~SessionMutexTaken
    /\ run' = IF run = "asleep" THEN "woken" ELSE run
    /\ WakeEnds(t)
    /\ UNCHANGED <<cf_state_repeat, gaveUp>>

\* It is busy and not thinking of sleep yet: CF_STATE_REPEAT keeps it awake.
WakeRepeats(t) ==
    /\ pc[t] = "wake" /\ SessionMutexTaken /\ ~ThreadMutexTaken
    /\ cf_state_repeat' = TRUE
    /\ WakeEnds(t)
    /\ UNCHANGED <<run, gaveUp>>

\* Mutant of WakeGivesUp: no retry, because the thread "is already awake".
WakeOnlyOnce(t) ==
    /\ pc[t] = "wake" /\ SessionMutexTaken /\ ThreadMutexTaken
    /\ WakeEnds(t)
    /\ UNCHANGED <<cf_state_repeat, gaveUp, run>>

\* The tenth attempt finds both taken; the nine before it change nothing.
WakeGivesUp(t) ==
    /\ pc[t] = "wake" /\ MayRunOut
    /\ gaveUp' = IF run = "lock" THEN gaveUp ELSE gaveUp \cup {run}
    /\ WakeEnds(t)
    /\ UNCHANGED <<cf_state_repeat, run>>

\* switch_core_session_queue_message: push if there is room, wake in any case.
QueueMessage(t) ==
    /\ pc[t] = "idle"
    /\ messages' = IF messages < QueueLen THEN messages + 1 ELSE messages
    /\ pc' = [pc EXCEPT ![t] = "wake"]
    /\ UNCHANGED <<chanVars, onceVars, want, gaveUp, run, seen, new_loops, state_mutex>>

-----------------------------------------------------------------------------
(* switch_channel_hangup *)

\* "One per customer"; for the others the call changes nothing.  The one who has it
\* unblocks a delayed leg.
HangupClaim(t) ==
    /\ pc[t] = "idle" /\ state_mutex = NULL
    /\ ~ocf_hangup
    /\ ocf_hangup' = TRUE
    /\ cf_block_state' = FALSE
    /\ pc' = [pc EXCEPT ![t] = "claimed"]
    /\ UNCHANGED <<state, running_state, hangup_cause, cf_state_repeat, onceVars, want,
                   gaveUp, run, seen, new_loops, state_mutex, messages>>

HangupState(t) ==
    /\ pc[t] = "claimed" /\ state_mutex = NULL
    /\ state' = "HANGUP"
    /\ pc' = [pc EXCEPT ![t] = "flagged"]
    /\ UNCHANGED <<running_state, hangup_cause, ocf_hangup, cf_state_repeat, cf_block_state,
                   onceVars, want, gaveUp, run, seen, new_loops, state_mutex, messages>>

\* The cause; a session that has no thread gets one now; then the wake-up.
HangupCause(t) ==
    /\ pc[t] = "flagged"
    /\ hangup_cause' = "NORMAL_CLEARING"
    /\ run' = IF run = "unstarted" THEN "top" ELSE run
    /\ pc' = [pc EXCEPT ![t] = "wake"]
    /\ UNCHANGED <<state, running_state, ocf_hangup, cf_state_repeat, cf_block_state, onceVars,
                   want, gaveUp, seen, new_loops, state_mutex, messages>>

\* Mutant of HangupHandlers: SSF_HANGUP is not looked at.
HangupHandlersAgain(cause) ==
    /\ ssf_hangup' = TRUE
    /\ hangups' = hangups + 1
    /\ reported' = cause

\* switch_core_session_hangup_state, past its two tests of force.
HangupHandlers(cause) ==
    /\ ssf_hangup' = TRUE
    /\ hangups' = IF ssf_hangup THEN hangups ELSE hangups + 1
    /\ reported' = IF ssf_hangup THEN reported ELSE cause

\* switch_core_session_reporting_state
ReportingHandlers ==
    /\ cf_reporting' = TRUE
    /\ reports' = IF cf_reporting THEN reports ELSE reports + 1

\* The session thread hangs itself up; an early hangup runs the handlers at once.
OwnHangup(cause) ==
    /\ ~ocf_hangup /\ state_mutex = NULL
    /\ ocf_hangup' = TRUE
    /\ cf_block_state' = FALSE
    /\ state' = "HANGUP"
    /\ hangup_cause' = cause
    /\ IF EarlyHangup THEN HangupHandlers(cause) ELSE UNCHANGED <<ssf_hangup, hangups, reported>>

\* What a state handler, a message or a private event may make the session
\* thread do to its own channel.
Deed ==
    \/ UNCHANGED <<state, hangup_cause, ocf_hangup, cf_block_state, ssf_hangup, hangups, reported>>
    \/ /\ \E s \in Wanted : OwnSetState(s)
       /\ UNCHANGED <<hangup_cause, ocf_hangup, cf_block_state, ssf_hangup, hangups, reported>>
    \/ OwnHangup("NORMAL_CLEARING")

-----------------------------------------------------------------------------
(* switch_core_session_run *)

\* switch_ivr_originate launches the thread, and blocks a leg that has to wait for its
\* turn (leg_delay_start).  A leg that a hangup has launched before is down, and down
\* channels are not blocked.
Start ==
    /\ run = "unstarted"
    /\ run' = "top"
    /\ cf_block_state' \in BOOLEAN
    /\ UNCHANGED <<state, running_state, hangup_cause, ocf_hangup, cf_state_repeat, onceVars,
                   userVars, seen, new_loops, state_mutex, messages>>

\* Its turn has come.
Unblock ==
    /\ cf_block_state
    /\ cf_block_state' = FALSE
    /\ UNCHANGED <<state, running_state, hangup_cause, ocf_hangup, cf_state_repeat, onceVars,
                   userVars, run, seen, new_loops, state_mutex, messages>>

\* Whether there is something to run in the state that was read.
Enter ==
    /\ run' = IF state = "DESTROY" THEN "done"
              ELSE IF state # running_state \/ state \in DownStates THEN "setrun" ELSE "end"
    /\ seen' = state

\* The head of the loop reads the state, and waits while the leg is blocked ...
Top ==
    /\ run = "top"
    /\ IF cf_block_state /\ state # "DESTROY" THEN run' = "blocked" /\ UNCHANGED seen ELSE Enter
    /\ UNCHANGED <<chanVars, onceVars, userVars, new_loops, state_mutex, messages>>

\* ... and the channel not down (switch_channel_wait_for_flag); then it reads it again.
Blocked ==
    /\ run = "blocked" /\ (~cf_block_state \/ state \in DownStates)
    /\ Enter
    /\ UNCHANGED <<chanVars, onceVars, userVars, new_loops, state_mutex, messages>>

\* switch_channel_set_running_state to what was read, which may be old by now;
\* then the messages.
SetRunning ==
    /\ run = "setrun" /\ state_mutex = NULL
    /\ running_state' = seen
    /\ run' = "handle"
    /\ messages' = 0
    /\ Deed
    /\ UNCHANGED <<cf_state_repeat, cf_reporting, reports, userVars, seen, new_loops,
                   state_mutex>>

\* The handlers of a state that is not one of the last three.
Handle ==
    /\ run = "handle" /\ seen \in LiveStates
    /\ run' = "end"
    /\ seen' = "NEW"
    /\ Deed
    /\ UNCHANGED <<running_state, cf_state_repeat, cf_reporting, reports, userVars, new_loops,
                   state_mutex, messages>>

HandleHangup ==
    /\ run = "handle" /\ seen = "HANGUP"
    /\ HangupHandlers(hangup_cause)
    /\ OwnSetState("REPORTING")
    /\ run' = "end"
    /\ seen' = "NEW"
    /\ UNCHANGED <<running_state, hangup_cause, ocf_hangup, cf_state_repeat, cf_block_state,
                   cf_reporting, reports, userVars, new_loops, state_mutex, messages>>

HandleReporting ==
    /\ run = "handle" /\ seen = "REPORTING"
    /\ ReportingHandlers
    /\ OwnSetState("DESTROY")
    /\ run' = "done"
    /\ seen' = "NEW"
    /\ UNCHANGED <<running_state, hangup_cause, ocf_hangup, cf_state_repeat, cf_block_state,
                   ssf_hangup, hangups, reported, userVars, new_loops, state_mutex, messages>>

\* A new state is run at once; without one CS_NEW looks around, others think of sleep.
End ==
    /\ run = "end"
    /\ run' = IF state # running_state THEN "top" ELSE IF state = "NEW" THEN "new" ELSE "lock"
    /\ UNCHANGED <<chanVars, onceVars, userVars, seen, new_loops, state_mutex, messages>>

\* CS_NEW: 20 ms, switch_ivr_parse_all_events, and in the last round "Abandoned",
\* whatever the events did.  (The uint32 wraps below 0, but only when somebody has
\* OCF_HANGUP, and then it decides nothing.)
LookAround ==
    /\ run = "new"
    /\ run' = "top"
    /\ messages' = 0
    /\ new_loops' = IF new_loops = 0 THEN 0 ELSE new_loops - 1
    /\ \/ (new_loops # 1 \/ ocf_hangup) /\ Deed
       \/ new_loops = 1 /\ \E c \in Causes \ {"NONE"} : OwnHangup(c)
    /\ UNCHANGED <<running_state, cf_state_repeat, cf_reporting, reports, userVars, seen,
                   state_mutex>>

\* switch_ivr_parse_all_events with thread_mutex held: first the messages ...
ParseMessages ==
    /\ run = "lock"
    /\ run' = "events"
    /\ messages' = 0 /\ gaveUp' = {}
    /\ Deed
    /\ UNCHANGED <<running_state, cf_state_repeat, cf_reporting, reports, pc, want, seen,
                   new_loops, state_mutex>>

\* ... and then the private events, which may run whole applications; some of those
\* look after the messages themselves.
ParseEvents ==
    /\ run = "events"
    /\ run' = "parsed"
    /\ messages' \in {0, messages}
    /\ Deed
    /\ UNCHANGED <<running_state, cf_state_repeat, cf_reporting, reports, userVars, seen,
                   new_loops, state_mutex>>

\* Mutant of Decide: the state is not compared once more.
DecideBlindly ==
    /\ run = "parsed"
    /\ run' = IF cf_state_repeat THEN "up" ELSE "drowsy"
    /\ cf_state_repeat' = FALSE
    /\ UNCHANGED <<state, running_state, hangup_cause, ocf_hangup, cf_block_state, onceVars,
                   userVars, seen, new_loops, state_mutex, messages>>

\* CF_STATE_REPEAT or a new state keeps it up; otherwise CF_THREAD_SLEEPING.
Decide ==
    /\ run = "parsed"
    /\ run' = IF cf_state_repeat \/ state # running_state THEN "up" ELSE "drowsy"
    /\ cf_state_repeat' = FALSE
    /\ UNCHANGED <<state, running_state, hangup_cause, ocf_hangup, cf_block_state, onceVars,
                   userVars, seen, new_loops, state_mutex, messages>>

\* switch_thread_cond_wait: session->mutex is given up.
Sleep ==
    /\ run = "drowsy"
    /\ run' = "asleep"
    /\ UNCHANGED <<chanVars, onceVars, userVars, seen, new_loops, state_mutex, messages>>

\* A condition wait may also end by itself.
SpuriousWakeup ==
    /\ run = "asleep"
    /\ run' = "woken"
    /\ UNCHANGED <<chanVars, onceVars, userVars, seen, new_loops, state_mutex, messages>>

\* session->mutex is back and thread_mutex released.
WakeUp ==
    /\ run = "woken"
    /\ run' = "up"
    /\ UNCHANGED <<chanVars, onceVars, userVars, seen, new_loops, state_mutex, messages>>

\* switch_ivr_parse_all_events once more, without thread_mutex.
ParseAgain ==
    /\ run = "up"
    /\ run' = "top"
    /\ messages' = 0
    /\ Deed
    /\ UNCHANGED <<running_state, cf_state_repeat, cf_reporting, reports, userVars, seen,
                   new_loops, state_mutex>>

-----------------------------------------------------------------------------
SessionStep ==
    \/ Top \/ Blocked \/ SetRunning \/ Handle \/ HandleHangup \/ HandleReporting \/ End \/ LookAround
    \/ ParseMessages \/ ParseEvents \/ Decide \/ Sleep \/ WakeUp \/ ParseAgain

UserStep(t) ==
    \/ CarefulSet(t) \/ WakeSignals(t) \/ WakeRepeats(t) \/ WakeGivesUp(t)
    \/ HangupState(t) \/ HangupCause(t)

UserStart(t) ==
    \/ \E s \in Wanted : SetState(t, s)
    \/ QueueMessage(t) \/ HangupClaim(t)

Next ==
    \/ Start \/ Unblock \/ SpuriousWakeup \/ SessionStep
    \/ \E t \in Threads : UserStep(t) \/ UserStart(t)

Spec == Init /\ [][Next]_vars

\* Whoever has begun something gets on with it, and gets state_mutex in the end
\* although others keep taking it.  Originate counts leg_delay_start down, or hangs
\* the leg up.
FairSpec ==
    /\ Spec
    /\ SF_vars(SessionStep)
    /\ WF_vars(Unblock)
    /\ \A t \in Threads : SF_vars(UserStep(t))

-----------------------------------------------------------------------------
TypeOK ==
    /\ state \in States /\ running_state \in States \cup {"NONE"}
    /\ hangup_cause \in Causes /\ reported \in Causes
    /\ ocf_hangup \in BOOLEAN /\ cf_state_repeat \in BOOLEAN
    /\ ssf_hangup \in BOOLEAN /\ cf_reporting \in BOOLEAN
    /\ cf_block_state \in BOOLEAN /\ gaveUp \subseteq {"events", "parsed", "drowsy"}
    /\ state_mutex \in Threads \cup {NULL}
    /\ messages \in 0 .. QueueLen
    /\ run \in RunPlaces /\ seen \in States /\ new_loops \in 0 .. NewLoops
    /\ pc \in [Threads -> UserPlaces]
    /\ want \in [Threads -> LiveStates]
    /\ hangups \in Nat /\ reports \in Nat

\* Somebody is still going to wake the session thread.
WakeupComing == \E t \in Threads : pc[t] \in {"flagged", "wake"}

\* The session thread never sleeps over a state it has not run, nor over a message:
\* if it does, a waker is on its way or has used up its ten tries.  For the state that
\* must have been after the thread compared it for the last time.  For a message it is
\* enough that the thread had begun with its private events.
\* (switch_core_session_wake_session_thread against the end of the loop in
\* switch_core_session_run.)
NoSilentSleep ==
    run = "asleep" =>
        /\ state # running_state => WakeupComing \/ gaveUp \cap {"parsed", "drowsy"} # {}
        /\ messages > 0 => WakeupComing \/ gaveUp # {}

\* The same of a message without the excuse.  Not kept: private events run with both
\* mutexes held, and ten tries are over in ten milliseconds.
MessagesAreSeen == run = "asleep" /\ messages > 0 => WakeupComing

\* The hangup handlers and the reporting handlers (the CDR) run exactly once in
\* the life of a session that has ended, and never more than once: SSF_HANGUP,
\* CF_REPORTING and the early hangup agree.
HandledOnce ==
    /\ hangups <= 1 /\ reports <= 1
    /\ run = "done" => hangups = 1 /\ reports = 1

\* A channel that is going down never comes back, whoever changes its state
\* meanwhile: switch_channel_set_state against switch_channel_hangup.
NoRevival ==
    [][/\ state = "HANGUP" => state' \in DownStates
       /\ state = "REPORTING" => state' \in DownStates \ {"HANGUP"}
       /\ state = "DESTROY" => state' = "DESTROY"]_vars

\* The handlers that run at hangup are told the cause that was given to
\* switch_channel_hangup.
CauseIsGiven == hangups > 0 => reported # "NONE"

\* A hangup ends the session: its thread leaves switch_core_session_run.
HangupEnds == ocf_hangup ~> run = "done"

\* A state that is set and stays is run.
StateIsRun ==
    \A s \in Wanted : (state = s /\ run # "unstarted") ~> (running_state = s \/ state # s)
=============================================================================

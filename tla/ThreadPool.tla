----------------------------- MODULE ThreadPool -----------------------------
(***************************************************************************)
(* The session thread pool of src/src/switch_core_session.c: launchers     *)
(* push a session's thread function onto session_manager.thread_queue and  *)
(* then count it (check_queue); workers pop, run, uncount, and leave when  *)
(* there are more of them than counted jobs, or when the pop fails for any *)
(* other reason than its timeout.                                          *)
(*                                                                         *)
(* The queue is AprQueue itself, its steps interleaved with the pool's.    *)
(* session_manager.mutex protects running and busy for the length of one   *)
(* step each time, so it has no variable.  session->mutex is held by a     *)
(* launcher across the push and check_queue, hence the variable owner.     *)
(***************************************************************************)
EXTENDS AprQueue, Integers

CONSTANTS Sessions,        \* the jobs that are session threads
          Workers,         \* identities for the threads check_queue creates
          Launchers,       \* threads that call switch_core_session_thread_launch
          Main,            \* the thread that calls switch_core_session_uninit
          ThreadFailures   \* whether switch_thread_create may fail

Jobs == Values

ASSUME PoolAssumption ==
    /\ Threads = Workers \cup Launchers \cup {Main}
    /\ Workers \cap Launchers = {} /\ Main \notin Workers \cup Launchers
    /\ NULL \notin Threads
    /\ Sessions \subseteq Values
    /\ {"push", "pop_timeout", "term"} \subseteq Calls
    /\ ThreadFailures \in BOOLEAN

VARIABLES running, busy,   \* session_manager.running and busy
          stage,           \* where each thread is outside the queue
          job,             \* the job a thread is launching or running
          owner,           \* who holds each session's mutex
          jstate,          \* what has become of each job
          failed           \* whether a switch_thread_create has failed (history)

poolVars == <<running, busy, stage, job, owner, jstate, failed>>
vars     == <<queueVars, poolVars>>

WorkerStages   == {"none", "loop", "pop", "execute", "finished"}
LauncherStages == {"idle", "lock", "push", "create", "unlock"}
MainStages     == {"up", "term", "condwait", "down"}

Init ==
    /\ QueueInit
    /\ running = 0 /\ busy = 0
    /\ stage = [t \in Threads |-> IF t \in Workers THEN "none"
                                  ELSE IF t = Main THEN "up" ELSE "idle"]
    /\ job = [t \in Threads |-> NULL]
    /\ owner = [j \in Jobs |-> NULL]
    /\ jstate = [j \in Jobs |-> "new"]
    /\ failed = FALSE

\* SSF_THREAD_STARTED, which is never cleared on the thread-pool path.
Started(j) == jstate[j] # "new"

Step(t, s) == stage' = [stage EXCEPT ![t] = s]

\* running goes down by one; the last one to leave signals
\* session_manager.cond, on which only Main waits.
WithOneLess(t, s) ==
    /\ running' = running - 1
    /\ stage' = [stage EXCEPT ![t] = s,
                              ![Main] = IF running = 1 /\ @ = "condwait" THEN "down" ELSE @]

-----------------------------------------------------------------------------
(* Launching a session *)

\* switch_core_session_thread_launch: the unlocked look at the flags.
ThreadLaunch(l, j) ==
    /\ stage[l] = "idle"
    /\ j \in Sessions
    /\ ~Started(j)
    /\ Step(l, "lock")
    /\ job' = [job EXCEPT ![l] = j]
    /\ UNCHANGED <<queueVars, running, busy, owner, jstate, failed>>

\* Mutant of LooksStarted: the flags are not looked at again.
LooksStartedUnlocked(l) == FALSE

\* The flags as the launcher sees them once it has session->mutex.
LooksStarted(l) == Started(job[l])

\* switch_core_session_thread_pool_launch: session->mutex is taken, the flags
\* are looked at again; INUSE if they are set, otherwise they are set and the
\* push begins.
PoolLaunch(l) ==
    /\ stage[l] = "lock"
    /\ owner[job[l]] = NULL
    /\ \/ /\ LooksStarted(l)
          /\ Step(l, "idle")
          /\ UNCHANGED <<queueVars, owner, jstate>>
       \/ /\ ~LooksStarted(l)
          /\ owner' = [owner EXCEPT ![job[l]] = l]
          /\ jstate' = [jstate EXCEPT ![job[l]] = "launched"]
          /\ Call(l, "push", job[l])
          /\ Step(l, "push")
    /\ UNCHANGED <<running, busy, job, failed>>

\* switch_thread_pool_launch_thread: any other function, without flags or mutex.
LaunchThread(l, j) ==
    /\ stage[l] = "idle"
    /\ j \notin Sessions /\ jstate[j] = "new"
    /\ job' = [job EXCEPT ![l] = j]
    /\ jstate' = [jstate EXCEPT ![j] = "launched"]
    /\ Call(l, "push", j)
    /\ Step(l, "push")
    /\ UNCHANGED <<running, busy, owner, failed>>

\* Mutant of EnoughWorkers: busy is compared before it is incremented.
EnoughWorkersBefore == running >= busy

EnoughWorkers == running >= busy + 1

\* check_queue, up to the unlock.  It runs whatever status the push returned.
CheckQueue(l) ==
    /\ stage[l] = "push" /\ pc[l] = "idle"
    /\ busy' = busy + 1
    /\ \/ /\ EnoughWorkers
          /\ Step(l, "unlock")
          /\ UNCHANGED running
       \/ /\ ~EnoughWorkers
          /\ running' = running + 1
          /\ Step(l, "create")
    /\ jstate' = IF rv[l] = "SUCCESS" THEN jstate
                 ELSE [jstate EXCEPT ![job[l]] = "rejected"]
    /\ UNCHANGED <<queueVars, job, owner, failed>>

\* check_queue, from switch_thread_create on.
CreateWorker(l, w) ==
    /\ stage[l] = "create" /\ stage[w] = "none"
    /\ stage' = [stage EXCEPT ![l] = "unlock", ![w] = "loop"]
    /\ UNCHANGED <<queueVars, running, busy, job, owner, jstate, failed>>

CreateFails(l) ==
    /\ ThreadFailures
    /\ stage[l] = "create"
    /\ WithOneLess(l, "unlock")
    /\ failed' = TRUE
    /\ UNCHANGED <<queueVars, busy, job, owner, jstate>>

\* The launch returns the status of the push.
Unlock(l) ==
    /\ stage[l] = "unlock"
    /\ owner' = [owner EXCEPT ![job[l]] = NULL]
    /\ Step(l, "idle")
    /\ UNCHANGED <<queueVars, running, busy, job, jstate, failed>>

-----------------------------------------------------------------------------
(* switch_core_session_thread_pool_worker *)

WorkerPops(w) ==
    /\ stage[w] = "loop"
    /\ Call(w, "pop_timeout", NULL)
    /\ Step(w, "pop")
    /\ UNCHANGED <<running, busy, job, owner, jstate, failed>>

WorkerStarts(w) ==
    /\ stage[w] = "pop" /\ pc[w] = "idle" /\ rv[w] = "SUCCESS"
    /\ job' = [job EXCEPT ![w] = item[w]]
    /\ jstate' = [jstate EXCEPT ![item[w]] = "running"]
    /\ Step(w, "execute")
    /\ UNCHANGED <<queueVars, running, busy, owner, failed>>

\* The session's thread function returns.
JobEnds(w) ==
    /\ stage[w] = "execute"
    /\ jstate' = [jstate EXCEPT ![job[w]] = "done"]
    /\ Step(w, "finished")
    /\ UNCHANGED <<queueVars, running, busy, job, owner, failed>>

\* Mutant of WorkerUncounts: busy is left alone.
WorkerUncountsNot(w) ==
    /\ stage[w] = "finished"
    /\ job' = [job EXCEPT ![w] = NULL]
    /\ Step(w, "loop")
    /\ UNCHANGED <<queueVars, running, busy, owner, jstate, failed>>

WorkerUncounts(w) ==
    /\ stage[w] = "finished"
    /\ busy' = busy - 1
    /\ job' = [job EXCEPT ![w] = NULL]
    /\ Step(w, "loop")
    /\ UNCHANGED <<queueVars, running, owner, jstate, failed>>

\* Mutant of MayLeave: the status is not looked at.
MayLeaveByCount(w) == running > busy

\* The pop did not merely time out, or there are workers to spare.
MayLeave(w) == rv[w] # "TIMEUP" \/ running > busy

\* A pop that failed.
WorkerIdles(w) ==
    /\ stage[w] = "pop" /\ pc[w] = "idle" /\ rv[w] # "SUCCESS"
    /\ \/ /\ MayLeave(w)
          /\ WithOneLess(w, "none")
       \/ /\ ~MayLeave(w)
          /\ Step(w, "loop")
          /\ UNCHANGED running
    /\ UNCHANGED <<queueVars, busy, job, owner, jstate, failed>>

-----------------------------------------------------------------------------
(* switch_core_session_uninit *)

Uninit ==
    /\ stage[Main] = "up"
    /\ Call(Main, "term", NULL)
    /\ Step(Main, "term")
    /\ UNCHANGED <<running, busy, job, owner, jstate, failed>>

UninitWaits ==
    /\ stage[Main] = "term" /\ pc[Main] = "idle"
    /\ Step(Main, IF running > 0 THEN "condwait" ELSE "down")
    /\ UNCHANGED <<queueVars, running, busy, job, owner, jstate, failed>>

\* The ten-second wait elapses (or wakes by itself).
UninitGivesUp ==
    /\ stage[Main] = "condwait"
    /\ Step(Main, "down")
    /\ UNCHANGED <<queueVars, running, busy, job, owner, jstate, failed>>

-----------------------------------------------------------------------------
\* A thread inside a queue call, or a worker's timed wait.
QueueStep(t) ==
    /\ Proceed(t) \/ Timeout(t) \/ Spurious(t)
    /\ UNCHANGED poolVars

LauncherStep(l) ==
    \/ PoolLaunch(l) \/ CheckQueue(l) \/ CreateFails(l) \/ Unlock(l)
    \/ \E w \in Workers : CreateWorker(l, w)

WorkerStep(w) == WorkerPops(w) \/ WorkerStarts(w) \/ WorkerUncounts(w) \/ WorkerIdles(w)

MainStep == UninitWaits \/ UninitGivesUp

Next ==
    \/ \E t \in Threads : QueueStep(t)
    \/ \E l \in Launchers : LauncherStep(l) \/ \E j \in Jobs : ThreadLaunch(l, j) \/ LaunchThread(l, j)
    \/ \E w \in Workers : WorkerStep(w) \/ JobEnds(w)
    \/ Uninit \/ MainStep

Spec == Init /\ [][Next]_vars

\* Threads inside the pool's code and the queue are scheduled; nothing says
\* that a session ever ends, that another one is launched, or that the system
\* shuts down.
Fairness ==
    /\ \A t \in Threads : WF_vars(QueueStep(t))
    /\ \A l \in Launchers : WF_vars(LauncherStep(l))
    /\ \A w \in Workers : WF_vars(WorkerStep(w))
    /\ WF_vars(MainStep)

FairSpec == Spec /\ Fairness

\* As FairSpec, for a system whose calls all end some day.
EndingSpec == FairSpec /\ \A w \in Workers : WF_vars(JobEnds(w))
-----------------------------------------------------------------------------
(* Properties *)

Live == {w \in Workers : stage[w] # "none"}

\* Elements a thread has put in the queue but not counted yet, and elements a
\* worker has taken out and not uncounted yet.
Uncounted == {l \in Launchers : stage[l] = "push" /\ pc[l] = "idle" /\ rv[l] = "SUCCESS"}
Holding   == {w \in Workers : \/ stage[w] \in {"execute", "finished"}
                              \/ stage[w] = "pop" /\ pc[w] = "idle" /\ rv[w] = "SUCCESS"}
Rejected  == {j \in Jobs : jstate[j] = "rejected"}

\* The two counts that check_queue and the idle exit decide by are exact.
\* session_manager.running is the number of workers, those about to be created
\* included.  session_manager.busy counts the work in hand: what is queued and what a
\* worker holds, less what was pushed but is not yet counted (check_queue comes
\* after the push, so busy can even be -1), plus what a terminated queue turned
\* away, which check_queue counts for good.
CountsAreExact ==
    /\ running = Cardinality(Live) + Cardinality({l \in Launchers : stage[l] = "create"})
    /\ busy + Cardinality(Uncounted) = nelts + Cardinality(Holding) + Cardinality(Rejected)

\* Two launches of one session, both past the unlocked test of the flags, end in
\* one thread: no session is in the queue twice or held by two workers.
OneThreadPerSession ==
    LET held(j) == Cardinality({w \in Holding : (IF stage[w] = "pop" THEN item[w] ELSE job[w]) = j})
    IN  \A j \in Jobs : held(j) + Cardinality({i \in 1 .. nelts : Contents[i] = j}) <= 1

\* Every job whose launch the queue accepted is run, unless the pool is terminated
\* or the system refuses it a thread.  This needs calls to end: see LaunchedHasWorker.
EveryLaunchStarts ==
    \A j \in Jobs : jstate[j] = "launched" ~> (jstate[j] # "launched" \/ terminated \/ failed)

\* After switch_core_session_uninit terminates the queue the workers all leave,
\* whatever they were doing.
WorkersLeave == terminated ~> running = 0

\* switch_core.h promises SWITCH_STATUS_SUCCESS "if the thread was launched".
\* Once the launch has returned that, the session's thread runs, though every
\* other call may go on for ever.
StartsWithoutWaiting ==
    \A j \in Sessions : (jstate[j] = "launched" /\ owner[j] = NULL) ~>
                            (jstate[j] # "launched" \/ terminated)

\* The same promise as a state: as long as a launched session is in the queue
\* there is a worker that is not inside another call.
LaunchedHasWorker ==
    (\E i \in 1 .. nelts : owner[Contents[i]] = NULL) /\ ~terminated
        => \E w \in Live : stage[w] # "execute"
=============================================================================

----------------------------- MODULE Scheduler -----------------------------
(***************************************************************************)
(* The task scheduler (switch_scheduler.c): one task thread walks the task *)
(* list, runs what is due (in itself or in a thread of the task's own) and *)
(* frees what is destroyed, while other threads add and delete tasks.      *)
(* The events that report changes of the list go through a queue that is   *)
(* taken never to be full (it has room for 250000) and are left out.       *)
(***************************************************************************)
EXTENDS Integers, Sequences, Functions

CONSTANTS Tasks,            \* task containers, each with a task_id of its own
          OwnThread, NoDel, \* the tasks with SSHF_OWN_THREAD, with SSHF_NO_DEL
          Users,            \* threads that add and delete tasks
          NULL,
          Epoch, Horizon,   \* the first and the last second of the model
          Delays,           \* "in so many seconds": task_runtime is now + delay
          Intervals,        \* small task_runtimes: repeat every so many seconds
          Prompt,           \* callers get through in the second they read the clock
          Stops             \* whether the scheduler is stopped at some time

ASSUME SchedulerAssumption ==
    /\ OwnThread \subseteq Tasks /\ NoDel \subseteq Tasks /\ NULL \notin Tasks
    /\ Epoch \in Nat /\ Horizon \in Nat /\ Epoch <= Horizon
    /\ Intervals \subseteq 1 .. Epoch - 1 /\ Delays \subseteq Nat
    /\ Prompt \in BOOLEAN /\ Stops \in BOOLEAN

VARIABLES now,                  \* switch_epoch_time_now
          task_list,
          task,                 \* the containers
          task_thread_running,
          loop, at, done,       \* the task thread: place, position in the list, argument
          own,                  \* the tasks' own threads; "lost": none could be created
          mine, when, read,     \* the other threads: a task they are about to add, for
                                \* when, and the time they have read in add_task_ex
          due,                  \* history: when the caller wanted the task to run
          deleted,              \* history: runs begun since the deletion was confirmed
          begun                 \* history: when the function last began

loopVars == <<loop, at, done>>
userVars == <<mine, when, read>>
hist     == <<due, deleted, begun>>
vars     == <<now, task_list, task, task_thread_running, loopVars, own, userVars, hist>>

Fresh == [runtime |-> 0, repeat |-> 0, executed |-> 0, in_thread |-> FALSE,
          destroyed |-> FALSE, running |-> FALSE, destroy_requested |-> FALSE]

Listed  == Range(task_list)
Current == task_list[at]
Never   == -1

\* The task thread keeps task_mutex over several steps only while it scans.
TaskMutexFree == loop # "scan"

Init ==
    /\ now = Epoch
    /\ task_list = <<>>
    /\ task = [t \in Tasks |-> Fresh]
    /\ task_thread_running = 1
    /\ loop = "top" /\ at = 1 /\ done = FALSE
    /\ own = [t \in Tasks |-> "none"]
    /\ mine = [u \in Users |-> NULL]
    /\ when = [u \in Users |-> 0] /\ read = [u \in Users |-> 0]
    /\ due = [t \in Tasks |-> Never]
    /\ deleted = [t \in Tasks |-> Never]
    /\ begun = [t \in Tasks |-> Never]

Tick ==
    /\ now < Horizon
    /\ Prompt => \A u \in Users : mine[u] = NULL
    /\ now' = now + 1
    /\ UNCHANGED <<task_list, task, task_thread_running, loopVars, own, userVars, hist>>

-----------------------------------------------------------------------------
(* switch_scheduler_add_task_ex *)

\* The caller works out task_runtime, some time before the call.
Want(u, t) ==
    /\ mine[u] = NULL
    /\ due[t] = Never /\ \A v \in Users : mine[v] # t
    /\ \E r \in {now + d : d \in Delays} \cup Intervals : when' = [when EXCEPT ![u] = r]
    /\ mine' = [mine EXCEPT ![u] = t]
    /\ UNCHANGED <<now, task_list, task, task_thread_running, loopVars, own, read, hist>>

\* The clock is read before task_mutex is asked for.
ReadClock(u) ==
    /\ mine[u] # NULL /\ read[u] = 0
    /\ read' = [read EXCEPT ![u] = now]
    /\ UNCHANGED <<now, task_list, task, task_thread_running, loopVars, own, mine, when, hist>>

\* Mutant of NewTask: off by one.
NewTaskOffByOne(r, clock) ==
    IF r <= clock THEN [Fresh EXCEPT !.repeat = r, !.runtime = r + clock]
                  ELSE [Fresh EXCEPT !.runtime = r]

\* A task_runtime in the past is taken for an interval.
NewTask(r, clock) ==
    IF r < clock THEN [Fresh EXCEPT !.repeat = r, !.runtime = r + clock]
                 ELSE [Fresh EXCEPT !.runtime = r]

AddTask(u) ==
    /\ mine[u] # NULL /\ read[u] # 0 /\ TaskMutexFree
    /\ task' = [task EXCEPT ![mine[u]] = NewTask(when[u], read[u])]
    /\ task_list' = Append(task_list, mine[u])
    /\ due' = [due EXCEPT ![mine[u]] = IF when[u] < Epoch THEN read[u] + when[u] ELSE when[u]]
    /\ mine' = [mine EXCEPT ![u] = NULL]
    /\ when' = [when EXCEPT ![u] = 0]
    /\ read' = [read EXCEPT ![u] = 0]
    /\ UNCHANGED <<now, task_thread_running, loopVars, own, deleted, begun>>

-----------------------------------------------------------------------------
(* switch_scheduler_del_task_id, switch_scheduler_del_task_group *)

\* Mutant of Deletion: a running task is left alone.
DeletionForgotten(c) == IF c.running THEN c ELSE [c EXCEPT !.destroyed = TRUE]

Deletion(c) ==
    IF c.running THEN [c EXCEPT !.destroy_requested = TRUE] ELSE [c EXCEPT !.destroyed = TRUE]

Delete(ts) ==
    /\ TaskMutexFree
    /\ task' = [t \in Tasks |-> IF t \in ts THEN Deletion(task[t]) ELSE task[t]]
    /\ deleted' = [t \in Tasks |-> IF t \in ts /\ deleted[t] = Never THEN 0 ELSE deleted[t]]
    /\ UNCHANGED <<now, task_list, task_thread_running, loopVars, own, userVars, due, begun>>

DelTaskId == \E t \in Listed \ NoDel : Delete({t})

\* A group is any set of tasks; those already destroyed are passed over.
DelTaskGroup == \E ts \in SUBSET {t \in Listed \ NoDel : ~task[t].destroyed} : Delete(ts)

-----------------------------------------------------------------------------
(* switch_scheduler_execute, by the task thread and by a task's own thread *)

\* The function begins ...
Begins(t) ==
    /\ begun' = [begun EXCEPT ![t] = now]
    /\ deleted' = [deleted EXCEPT ![t] = IF @ = Never THEN Never ELSE @ + 1]
    /\ UNCHANGED due

\* ... and may give its task a new runtime.
Func(t) == \/ UNCHANGED task
           \/ \E d \in Delays : task' = [task EXCEPT ![t].runtime = now + d]

\* Mutant of Executed: the interval is added to the runtime that was missed.
ExecutedCatchesUp(c) ==
    LET r == IF c.repeat > 0 THEN c.runtime + c.repeat ELSE c.runtime IN
    IF ~c.destroy_requested /\ (r > c.executed \/ c.repeat > 0)
    THEN [c EXCEPT !.runtime = r, !.executed = 0]
    ELSE [c EXCEPT !.runtime = r, !.destroyed = TRUE]

\* What becomes of the task afterwards, under task_mutex.
Executed(c) ==
    LET r == IF c.repeat > 0 THEN now + c.repeat ELSE c.runtime IN
    IF ~c.destroy_requested /\ r > c.executed
    THEN [c EXCEPT !.runtime = r, !.executed = 0]
    ELSE [c EXCEPT !.runtime = r, !.destroyed = TRUE]

\* task_own_thread: the function, the end of execute, and in_thread without the mutex.
OwnFunc(t) ==
    /\ own[t] = "func"
    /\ Func(t)
    /\ own' = [own EXCEPT ![t] = "after"]
    /\ UNCHANGED <<now, task_list, task_thread_running, loopVars, userVars, hist>>

OwnAfter(t) ==
    /\ own[t] = "after" /\ TaskMutexFree
    /\ task' = [task EXCEPT ![t] = Executed(@)]
    /\ own' = [own EXCEPT ![t] = "leaving"]
    /\ UNCHANGED <<now, task_list, task_thread_running, loopVars, userVars, hist>>

OwnLeaves(t) ==
    /\ own[t] = "leaving"
    /\ task' = [task EXCEPT ![t].in_thread = FALSE]
    /\ own' = [own EXCEPT ![t] = "none"]
    /\ UNCHANGED <<now, task_list, task_thread_running, loopVars, userVars, hist>>

-----------------------------------------------------------------------------
(* switch_scheduler_task_thread and task_thread_loop *)

LoopTop ==
    /\ loop = "top"
    /\ loop' = "scan" /\ at' = 1 /\ done' = (task_thread_running # 1)
    /\ UNCHANGED <<now, task_list, task, task_thread_running, own, userVars, hist>>

Due(t) == ~task[t].destroyed /\ now >= task[t].runtime /\ ~task[t].in_thread

\* A task that is not due is passed over; the last pass marks every task.
ScanPast ==
    /\ loop = "scan" /\ at <= Len(task_list)
    /\ done \/ ~Due(Current)
    /\ task' = IF done THEN [task EXCEPT ![Current].destroyed = TRUE] ELSE task
    /\ at' = at + 1
    /\ UNCHANGED <<now, task_list, task_thread_running, loop, done, own, userVars, hist>>

ScanOwn ==
    /\ loop = "scan" /\ at <= Len(task_list) /\ ~done
    /\ Due(Current) /\ Current \in OwnThread
    /\ task' = [task EXCEPT ![Current] = [@ EXCEPT !.executed = now, !.in_thread = TRUE]]
    /\ own' = [own EXCEPT ![Current] = "func"]
    /\ Begins(Current)
    /\ at' = at + 1
    /\ UNCHANGED <<now, task_list, task_thread_running, loop, done, userVars>>

\* The result of switch_thread_create is not looked at: in_thread is set all the same.
ScanOwnFails ==
    /\ loop = "scan" /\ at <= Len(task_list) /\ ~done
    /\ Due(Current) /\ Current \in OwnThread
    /\ task' = [task EXCEPT ![Current] = [@ EXCEPT !.executed = now, !.in_thread = TRUE]]
    /\ own' = [own EXCEPT ![Current] = "lost"]
    /\ at' = at + 1
    /\ UNCHANGED <<now, task_list, task_thread_running, loop, done, userVars, hist>>

\* The task thread runs it itself, with task_mutex released.
ScanRun ==
    /\ loop = "scan" /\ at <= Len(task_list) /\ ~done
    /\ Due(Current) /\ Current \notin OwnThread
    /\ task' = [task EXCEPT ![Current] = [@ EXCEPT !.executed = now, !.running = TRUE]]
    /\ Begins(Current)
    /\ loop' = "func"
    /\ UNCHANGED <<now, task_list, task_thread_running, at, done, own, userVars>>

LoopFunc ==
    /\ loop = "func"
    /\ Func(Current)
    /\ loop' = "after"
    /\ UNCHANGED <<now, task_list, task_thread_running, at, done, own, userVars, hist>>

\* execute locks and unlocks task_mutex ...
LoopAfter ==
    /\ loop = "after"
    /\ task' = [task EXCEPT ![Current] = Executed(@)]
    /\ loop' = "relock"
    /\ UNCHANGED <<now, task_list, task_thread_running, at, done, own, userVars, hist>>

\* ... and the loop locks it again.
Relock ==
    /\ loop = "relock"
    /\ task' = [task EXCEPT ![Current].running = FALSE]
    /\ loop' = "scan" /\ at' = at + 1
    /\ UNCHANGED <<now, task_list, task_thread_running, done, own, userVars, hist>>

ScanEnds ==
    /\ loop = "scan" /\ at > Len(task_list)
    /\ loop' = "reap" /\ at' = 1
    /\ UNCHANGED <<now, task_list, task, task_thread_running, done, own, userVars, hist>>

\* Mutants of Reapable: in_thread is not looked at; a task that was deleted while
\* it ran is left to somebody else.
ReapableRunning(t) == task[t].destroyed
ReapableUnrequested(t) == task[t].destroyed /\ ~task[t].in_thread /\ ~task[t].destroy_requested

Reapable(t) == task[t].destroyed /\ ~task[t].in_thread

\* s is the list without what is freed, in the order of the list.
IsRest(s) ==
    /\ Range(s) = {t \in Listed : ~Reapable(t)}
    /\ \A i, j \in DOMAIN s : i < j =>
          \E k, l \in DOMAIN task_list : k < l /\ task_list[k] = s[i] /\ task_list[l] = s[j]

\* The second pass unlinks and frees; then the event queue is waited on, or the
\* thread ends.
Reap ==
    /\ loop = "reap"
    /\ \E n \in 0 .. Len(task_list) : \E s \in [1 .. n -> Tasks] : IsRest(s) /\ task_list' = s
    /\ task' = [t \in Tasks |-> IF t \in Listed /\ Reapable(t) THEN Fresh ELSE task[t]]
    /\ loop' = IF done THEN "ended" ELSE "top"
    /\ task_thread_running' = IF done THEN 0 ELSE task_thread_running
    /\ UNCHANGED <<now, at, done, own, userVars, hist>>

\* switch_scheduler_task_thread_stop asks, and joins the thread.
Stop ==
    /\ Stops /\ task_thread_running = 1
    /\ task_thread_running' = -1
    /\ UNCHANGED <<now, task_list, task, loopVars, own, userVars, hist>>

-----------------------------------------------------------------------------
LoopStep ==
    \/ LoopTop \/ ScanPast \/ ScanOwn \/ ScanOwnFails \/ ScanRun \/ LoopFunc \/ LoopAfter
    \/ Relock \/ ScanEnds \/ Reap

OwnStep(t) == OwnFunc(t) \/ OwnAfter(t) \/ OwnLeaves(t)

Next ==
    \/ Tick \/ LoopStep \/ DelTaskId \/ DelTaskGroup \/ Stop
    \/ \E t \in Tasks : OwnStep(t)
    \/ \E u \in Users : ReadClock(u) \/ AddTask(u) \/ \E t \in Tasks : Want(u, t)

Spec == Init /\ [][Next]_vars

\* Time passes, functions return, and a thread gets task_mutex although others
\* keep taking it.
FairSpec ==
    /\ Spec
    /\ WF_vars(Tick)
    /\ WF_vars(LoopStep)
    /\ \A t \in Tasks : SF_vars(OwnStep(t))
    /\ \A u \in Users : SF_vars(ReadClock(u) \/ AddTask(u))

-----------------------------------------------------------------------------
Times == Epoch .. 2 * Horizon + 1

TypeOK ==
    /\ now \in Epoch .. Horizon
    /\ Listed \subseteq Tasks /\ IsInjective(task_list)
    /\ task_thread_running \in {1, 0, -1}
    /\ at \in 1 .. Len(task_list) + 1
    /\ \A t \in Tasks : task[t].runtime \in Times \cup {0} /\ task[t].repeat \in 0 .. Horizon

\* Whoever works with a container.
LoopRuns(t) == loop \in {"func", "after", "relock"} /\ Current = t
OwnRuns(t)  == own[t] \notin {"none", "lost"}
Works(t)    == LoopRuns(t) \/ OwnRuns(t)

\* A container that some thread still works with is in the list, so it has not
\* been freed (the reaper looks at in_thread; a task the task thread runs itself
\* cannot be reaped meanwhile), and no two threads work with one.
InUseIsListed ==
    \A t \in Tasks : /\ Works(t) => t \in Listed
                     /\ ~(LoopRuns(t) /\ OwnRuns(t))

\* A task whose deletion was confirmed begins at most one run more, in whatever
\* order deletions and runs come (destroyed and destroy_requested).
DeletedRunsOnceMore == \A t \in Tasks : deleted[t] <= 1

\* "Delete a scheduled task": a task that was deleted does not begin again.
DeletedDoesNotRun == \A t \in Tasks : deleted[t] <= 0

\* A task with an interval leaves at least that long between two beginnings,
\* however late the task thread comes to it.
SpacedOut ==
    [][\A t \in Tasks : (~Works(t) /\ Works(t)' /\ begun[t] # Never /\ task[t].repeat > 0)
                        => now - begun[t] >= task[t].repeat]_vars

\* A task begins when its time has come, unless it is deleted before, its thread
\* could not be created or the scheduler stopped.
DueRuns ==
    \A t \in Tasks : (due[t] # Never /\ due[t] <= Horizon)
                     ~> \/ begun[t] # Never \/ deleted[t] # Never
                        \/ own[t] = "lost" \/ task_thread_running # 1

\* A destroyed task is unlinked and freed, however deletions and runs of it fall
\* together, unless its thread could not be created or the task thread has ended.
DestroyedIsFreed ==
    \A t \in Tasks : task[t].destroyed
                     ~> (t \notin Listed \/ own[t] = "lost" \/ task_thread_running = 0)

\* The same of every task: a failed switch_thread_create keeps no task in the list.
DeletedIsFreed ==
    \A t \in Tasks : task[t].destroyed ~> (t \notin Listed \/ task_thread_running = 0)

\* Once the task thread has been joined no task runs any more.
StoppedIsQuiet == task_thread_running = 0 => \A t \in Tasks : ~OwnRuns(t)
=============================================================================

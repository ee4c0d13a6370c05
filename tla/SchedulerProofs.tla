-------------------------- MODULE SchedulerProofs --------------------------
(* What holds of Scheduler for any number of tasks and of threads that add    *)
(* and delete them, whatever the delays and intervals are.                    *)
EXTENDS Scheduler, SequenceTheorems, TLAPS

(* Zenon proves the leaves that do not name the SMT solver. *)
USE ZenonT(60)

Containers == [runtime: Nat, repeat: Nat, executed: Nat, in_thread: BOOLEAN,
               destroyed: BOOLEAN, running: BOOLEAN, destroy_requested: BOOLEAN]
Loops == {"top", "scan", "func", "after", "relock", "reap", "ended"}
Runs  == {"func", "after", "relock"}

Types ==
  /\ now \in Nat /\ now >= Epoch
  /\ task_list \in Seq(Tasks)
  /\ task \in [Tasks -> Containers]
  /\ loop \in Loops /\ at \in Nat \ {0} /\ done \in BOOLEAN
  /\ own \in [Tasks -> {"none", "lost", "func", "after", "leaving"}]
  /\ mine \in [Users -> Tasks \cup {NULL}]
  /\ when \in [Users -> Nat] /\ read \in [Users -> Nat]
  /\ due \in [Tasks -> Int] /\ deleted \in [Tasks -> Int] /\ begun \in [Tasks -> Int]

(* While a function runs the task thread stands at a task of the list. *)
PlaceInv == loop \in Runs => at <= Len(task_list) /\ Current \notin OwnThread

(* The list as the set of its places, and after a step. *)
LEMMA ListedIs ==
  /\ \A t : t \in Listed <=> \E i \in DOMAIN task_list : t = task_list[i]
  /\ \A t : t \in Listed' <=> \E i \in DOMAIN task_list' : t = task_list'[i]
BY DEF Listed, Range

(* The task at a place of the list is listed. *)
LEMMA CurrentListed ==
  ASSUME Types, at <= Len(task_list)
  PROVE  Current \in Listed /\ Current \in Tasks
<1>1. at \in DOMAIN task_list
  BY SMTT(60) DEF Types
<1>2. task_list[at] \in Tasks
  BY <1>1, SMTT(60) DEF Types
<1> QED BY <1>1, <1>2, ListedIs DEF Current

(* Only tasks are listed. *)
LEMMA ListedTasks == Types => Listed \subseteq Tasks
BY ListedIs, SMTT(60) DEF Types

(* A new task goes to the end of the list: the others keep their places. *)
LEMMA AppendLists ==
  ASSUME Types, NEW x \in Tasks, task_list' = Append(task_list, x), at' = at
  PROVE  /\ task_list' \in Seq(Tasks)
         /\ Listed' = Listed \cup {x}
         /\ at <= Len(task_list) => at <= Len(task_list') /\ Current' = Current
<1>1. /\ Len(task_list') = Len(task_list) + 1
      /\ \A i \in 1 .. Len(task_list) : task_list'[i] = task_list[i]
      /\ task_list'[Len(task_list) + 1] = x
      /\ task_list' \in Seq(Tasks)
      /\ Len(task_list) \in Nat
      /\ DOMAIN task_list = 1 .. Len(task_list)
      /\ DOMAIN task_list' = 1 .. Len(task_list')
  BY SMTT(60) DEF Types
<1>2. Listed' = Listed \cup {x}
  <2>1. ASSUME NEW t \in Listed' PROVE t \in Listed \cup {x}
    <3>1. PICK i \in 1 .. Len(task_list) + 1 : t = task_list'[i]
      BY <1>1, ListedIs, SMTT(60)
    <3>2. CASE i = Len(task_list) + 1
      BY <1>1, <3>1, <3>2
    <3>3. CASE i \in 1 .. Len(task_list)
      BY <1>1, <3>1, <3>3, ListedIs
    <3> QED BY <1>1, <3>2, <3>3, SMTT(60)
  <2>2. ASSUME NEW t \in Listed PROVE t \in Listed'
    <3>1. PICK i \in 1 .. Len(task_list) : t = task_list[i]
      BY <1>1, ListedIs
    <3>2. i \in 1 .. Len(task_list') /\ t = task_list'[i]
      BY <1>1, <3>1, SMTT(60)
    <3> QED BY <1>1, <3>2, ListedIs
  <2>3. x \in Listed'
    <3>1. Len(task_list) + 1 \in 1 .. Len(task_list')
      BY <1>1, SMTT(60)
    <3> QED BY <1>1, <3>1, ListedIs
  <2> QED BY <2>1, <2>2, <2>3
<1> QED BY <1>1, <1>2, SMTT(60) DEF Current, Types

(* The reaper leaves the tasks in the list that it does not free. *)
LEMMA ReapLists ==
  ASSUME Types, Reap
  PROVE  task_list' \in Seq(Tasks) /\ Listed' = {t \in Listed : ~Reapable(t)}
<1>1. PICK n \in 0 .. Len(task_list) : \E s \in [1 .. n -> Tasks] : IsRest(s) /\ task_list' = s
  BY DEF Reap
<1>2. PICK s \in [1 .. n -> Tasks] : IsRest(s) /\ task_list' = s
  BY <1>1
<1>3. s \in Seq(Tasks)
  BY <1>1, <1>2, SeqDef, SMTT(60)
<1> QED BY <1>2, <1>3 DEF IsRest, Listed
-----------------------------------------------------------------------------
(* The invariant *)

(* A container is the caller's own until it is in the list: nobody else is    *)
(* about to add it, and nothing has happened to it.                           *)
UserInv ==
  /\ \A u \in Users : mine[u] # NULL => due[mine[u]] = Never
  /\ \A u, v \in Users : mine[u] = mine[v] /\ mine[u] # NULL => u = v
  /\ \A t \in Tasks : due[t] = Never =>
        t \notin Listed /\ deleted[t] = Never /\ begun[t] = Never

(* A task's own thread keeps in_thread set, which keeps the reaper away. *)
OwnInv == \A t \in Tasks : own[t] # "none" => t \in Listed \cap OwnThread /\ task[t].in_thread

(* The task thread is inside execute of t, before the end of which runtime and *)
(* the marks are not settled.                                                  *)
InFunc(t) == loop \in {"func", "after"} /\ Current = t

(* Only a task that the task thread runs itself is ever asked to be destroyed *)
(* later.  It is destroyed when the next run of it is over.                   *)
DelInv ==
  \A t \in Tasks :
    /\ task[t].running \/ task[t].destroy_requested => t \notin OwnThread
    /\ deleted[t] \in {Never, 0, 1}
    /\ t \in Listed /\ deleted[t] # Never /\ ~task[t].destroyed
          => task[t].destroy_requested /\ (deleted[t] = 0 \/ InFunc(t))

(* The next run of a task with an interval is at least that long after the    *)
(* last one began, as soon as execute has given it its new time.              *)
SpaceInv ==
  \A t \in Tasks :
    /\ begun[t] \in {Never} \cup Nat /\ begun[t] <= now
    /\ t \in Listed /\ begun[t] # Never /\ task[t].repeat > 0
          /\ ~InFunc(t) /\ own[t] \notin {"func", "after"}
          => task[t].runtime >= begun[t] + task[t].repeat

IInv == Types /\ PlaceInv /\ UserInv /\ OwnInv /\ DelInv /\ SpaceInv

(* A container just allocated. *)
LEMMA FreshType == Fresh \in Containers
BY DEF Fresh, Containers

(* What add_task_ex makes of one. *)
LEMMA NewTaskIs ==
  ASSUME NEW r \in Nat, NEW clock \in Nat
  PROVE  /\ NewTask(r, clock) \in Containers
         /\ ~NewTask(r, clock).running /\ ~NewTask(r, clock).destroy_requested
<1>1. CASE r < clock
  <2>1. NewTask(r, clock) = [Fresh EXCEPT !.repeat = r, !.runtime = r + clock]
    BY <1>1 DEF NewTask
  <2>2. r + clock \in Nat
    BY SMTT(60)
  <2>3. NewTask(r, clock) \in Containers
    BY <2>1, <2>2, FreshType DEF Containers
  <2>4. /\ NewTask(r, clock).running = FALSE
        /\ NewTask(r, clock).destroy_requested = FALSE
    BY <2>1 DEF Fresh
  <2> QED BY <2>3, <2>4
<1>2. CASE ~(r < clock)
  BY <1>2 DEF NewTask, Fresh, Containers
<1> QED BY <1>1, <1>2

(* A deletion sets one of the two marks and nothing else. *)
LEMMA DeletionIs ==
  ASSUME NEW c \in Containers
  PROVE  /\ Deletion(c) \in Containers
         /\ Deletion(c).runtime = c.runtime /\ Deletion(c).repeat = c.repeat
         /\ Deletion(c).in_thread = c.in_thread /\ Deletion(c).running = c.running
         /\ c.destroyed => Deletion(c).destroyed
         /\ c.destroy_requested => Deletion(c).destroy_requested
         /\ Deletion(c).destroyed \/ Deletion(c).destroy_requested
         /\ Deletion(c).destroy_requested => c.destroy_requested \/ c.running
BY DEF Deletion, Containers

(* The end of execute: a new time, or the task is destroyed. *)
LEMMA ExecutedIs ==
  ASSUME NEW c \in Containers, now \in Nat
  PROVE  /\ Executed(c) \in Containers
         /\ Executed(c).repeat = c.repeat /\ Executed(c).in_thread = c.in_thread
         /\ Executed(c).running = c.running
         /\ Executed(c).destroy_requested = c.destroy_requested
         /\ c.destroyed \/ c.destroy_requested => Executed(c).destroyed
         /\ c.repeat > 0 => Executed(c).runtime = now + c.repeat
<1> DEFINE r == IF c.repeat > 0 THEN now + c.repeat ELSE c.runtime
<1>1. r \in Nat /\ (c.repeat > 0 => r = now + c.repeat)
  BY SMTT(60) DEF Containers
<1>2. Executed(c) = IF ~c.destroy_requested /\ r > c.executed
                    THEN [c EXCEPT !.runtime = r, !.executed = 0]
                    ELSE [c EXCEPT !.runtime = r, !.destroyed = TRUE]
  BY DEF Executed
<1> HIDE DEF r
<1>3. CASE ~c.destroy_requested /\ r > c.executed
  <2>1. Executed(c) = [c EXCEPT !.runtime = r, !.executed = 0]
    BY <1>2, <1>3
  <2>2. Executed(c) \in Containers
    <3> DEFINE zero == 0
    <3>1. zero \in Nat /\ Executed(c) = [c EXCEPT !.runtime = r, !.executed = zero]
      BY <2>1
    <3> HIDE DEF zero
    <3> QED BY <1>1, <3>1 DEF Containers
  <2>3. /\ Executed(c).repeat = c.repeat /\ Executed(c).in_thread = c.in_thread
        /\ Executed(c).running = c.running /\ Executed(c).destroyed = c.destroyed
        /\ Executed(c).destroy_requested = c.destroy_requested /\ Executed(c).runtime = r
    BY <2>1 DEF Containers
  <2> QED BY <1>1, <1>3, <2>2, <2>3
<1>4. CASE ~(~c.destroy_requested /\ r > c.executed)
  <2>1. Executed(c) = [c EXCEPT !.runtime = r, !.destroyed = TRUE]
    BY <1>2, <1>4
  <2>2. Executed(c) \in Containers
    BY <1>1, <2>1 DEF Containers
  <2>3. Executed(c).destroyed /\ Executed(c).runtime = r
    BY <2>1 DEF Containers
  <2>4. /\ Executed(c).repeat = c.repeat /\ Executed(c).in_thread = c.in_thread
        /\ Executed(c).running = c.running
        /\ Executed(c).destroy_requested = c.destroy_requested
    BY <2>1 DEF Containers
  <2> QED BY <1>1, <2>2, <2>3, <2>4
<1> QED BY <1>3, <1>4

(* A function may give its task a new time and does nothing else to it. *)
LEMMA FuncIs ==
  ASSUME Types, NEW t \in Tasks, Func(t)
  PROVE  /\ task' \in [Tasks -> Containers]
         /\ \A x \in Tasks \ {t} : task'[x] = task[x]
         /\ task'[t].repeat = task[t].repeat /\ task'[t].in_thread = task[t].in_thread
         /\ task'[t].running = task[t].running /\ task'[t].destroyed = task[t].destroyed
         /\ task'[t].destroy_requested = task[t].destroy_requested
<1>1. ASSUME NEW c \in Containers, NEW r \in Nat
      PROVE  [c EXCEPT !.runtime = r] \in Containers
  BY DEF Containers
<1>2. ASSUME NEW d \in Delays, task' = [task EXCEPT ![t].runtime = now + d]
      PROVE  /\ task' \in [Tasks -> Containers]
             /\ \A x \in Tasks \ {t} : task'[x] = task[x]
             /\ task'[t] = [task[t] EXCEPT !.runtime = now + d]
  <2>1. now + d \in Nat
    BY SchedulerAssumption, SMTT(60) DEF Types
  <2>2. [task[t] EXCEPT !.runtime = now + d] \in Containers
    BY <1>1, <2>1 DEF Types
  <2> QED BY <1>2, <2>2 DEF Types
<1>3. ASSUME NEW c \in Containers, NEW r
      PROVE  /\ [c EXCEPT !.runtime = r].repeat = c.repeat
             /\ [c EXCEPT !.runtime = r].in_thread = c.in_thread
             /\ [c EXCEPT !.runtime = r].running = c.running
             /\ [c EXCEPT !.runtime = r].destroyed = c.destroyed
             /\ [c EXCEPT !.runtime = r].destroy_requested = c.destroy_requested
  BY DEF Containers
<1>4. CASE UNCHANGED task
  BY <1>4 DEF Types
<1>5. task[t] \in Containers
  BY DEF Types
<1>6. CASE \E d \in Delays : task' = [task EXCEPT ![t].runtime = now + d]
  <2>1. PICK d \in Delays : task' = [task EXCEPT ![t].runtime = now + d]
    BY <1>6
  <2>2. /\ task' \in [Tasks -> Containers] /\ \A x \in Tasks \ {t} : task'[x] = task[x]
        /\ task'[t] = [task[t] EXCEPT !.runtime = now + d]
    BY <1>2, <2>1
  <2> QED BY <1>3, <1>5, <2>2, SMTT(60)
<1> QED BY <1>4, <1>6 DEF Func

(* What the marks leave alone. *)
SameBut(d, c) ==
  /\ d \in Containers
  /\ d.runtime = c.runtime /\ d.repeat = c.repeat
  /\ d.destroy_requested = c.destroy_requested
  /\ c.in_thread => d.in_thread
  /\ c.destroyed => d.destroyed

(* The marks that the task thread sets, and nothing else of the container. *)
LEMMA MarksAre ==
  ASSUME NEW c \in Containers, NEW e \in Nat
  PROVE  /\ SameBut([c EXCEPT !.destroyed = TRUE], c)
         /\ SameBut([c EXCEPT !.executed = e, !.in_thread = TRUE], c)
         /\ SameBut([c EXCEPT !.executed = e, !.running = TRUE], c)
         /\ SameBut([c EXCEPT !.running = FALSE], c)
         /\ [c EXCEPT !.executed = e, !.in_thread = TRUE].in_thread = TRUE
         /\ [c EXCEPT !.executed = e, !.in_thread = TRUE].running = c.running
         /\ [c EXCEPT !.destroyed = TRUE].running = c.running
         /\ [c EXCEPT !.running = FALSE].running = FALSE
         /\ [c EXCEPT !.running = FALSE].in_thread = c.in_thread
         /\ [c EXCEPT !.running = FALSE].destroyed = c.destroyed
         /\ [c EXCEPT !.executed = e, !.running = TRUE].in_thread = c.in_thread
         /\ [c EXCEPT !.executed = e, !.running = TRUE].destroyed = c.destroyed
         /\ [c EXCEPT !.executed = e, !.in_thread = TRUE].destroyed = c.destroyed
<1>1. SameBut([c EXCEPT !.destroyed = TRUE], c)
  BY DEF SameBut, Containers
<1>2. SameBut([c EXCEPT !.executed = e, !.in_thread = TRUE], c)
  BY DEF SameBut, Containers
<1>3. SameBut([c EXCEPT !.executed = e, !.running = TRUE], c)
  BY DEF SameBut, Containers
<1>4. SameBut([c EXCEPT !.running = FALSE], c)
  BY DEF SameBut, Containers
<1> QED BY <1>1, <1>2, <1>3, <1>4 DEF Containers

(* The clock, the callers before they have task_mutex, and the request to stop. *)
LEMMA UsersHold ==
  ASSUME IInv, Tick \/ Stop \/ (\E u \in Users : ReadClock(u) \/ \E t \in Tasks : Want(u, t))
  PROVE  IInv'
<1>0. Types /\ PlaceInv /\ UserInv /\ OwnInv /\ DelInv /\ SpaceInv
  BY DEF IInv
<1>1. /\ UNCHANGED <<task_list, task, loop, at, done, own, due, deleted, begun>>
      /\ now' \in Nat /\ now' >= now
  <2>1. now \in Nat
    BY <1>0 DEF Types
  <2>2. CASE Tick
    BY <2>1, <2>2, SMTT(60) DEF Tick, hist, loopVars
  <2>3. CASE Stop
    BY <2>1, <2>3, SMTT(60) DEF Stop, hist, loopVars
  <2>4. CASE \E u \in Users : ReadClock(u) \/ \E t \in Tasks : Want(u, t)
    BY <2>1, <2>4, SMTT(60) DEF ReadClock, Want, hist, loopVars
  <2> QED BY <2>2, <2>3, <2>4
<1>2. Listed' = Listed /\ Current' = Current
  BY <1>1 DEF Listed, Current
<1>3. /\ when' \in [Users -> Nat] /\ read' \in [Users -> Nat]
      /\ \/ mine' = mine
         \/ \E u \in Users, t \in Tasks : /\ due[t] = Never /\ \A v \in Users : mine[v] # t
                                         /\ mine' = [mine EXCEPT ![u] = t]
  <2>1. CASE Tick \/ Stop
    BY <1>0, <2>1 DEF Tick, Stop, userVars, Types
  <2>2. ASSUME NEW u \in Users, ReadClock(u)
        PROVE  mine' = mine /\ when' = when /\ read' \in [Users -> Nat]
    BY <1>0, <2>2 DEF ReadClock, Types
  <2>3. ASSUME NEW u \in Users, NEW t \in Tasks, Want(u, t)
        PROVE  /\ due[t] = Never /\ \A v \in Users : mine[v] # t
               /\ mine' = [mine EXCEPT ![u] = t]
               /\ read' = read /\ when' \in [Users -> Nat]
    <3>1. PICK r \in {now + d : d \in Delays} \cup Intervals : when' = [when EXCEPT ![u] = r]
      BY <2>3 DEF Want
    <3>2. r \in Nat
      <4>1. CASE r \in Intervals
        BY <4>1, SchedulerAssumption, SMTT(60)
      <4>2. ASSUME NEW d \in Delays, r = now + d
            PROVE  r \in Nat
        <5>1. d \in Nat
          BY SchedulerAssumption
        <5> QED BY <1>0, <4>2, <5>1, SMTT(60) DEF Types
      <4> QED BY <4>1, <4>2
    <3> QED BY <1>0, <2>3, <3>1, <3>2 DEF Want, Types
  <2> QED BY <1>0, <2>1, <2>2, <2>3 DEF Types
<1>4. mine' \in [Users -> Tasks \cup {NULL}]
  BY <1>0, <1>3 DEF Types
<1>5. Types'
  BY <1>0, <1>1, <1>2, <1>3, <1>4, SchedulerAssumption, SMTT(60) DEF Types, Loops, hist, loopVars
<1>6. PlaceInv'
  BY <1>0, <1>1, <1>2 DEF Types, PlaceInv, Runs, hist, loopVars
<1>7. UserInv'
  <2>1. CASE mine' = mine
    BY <1>0, <1>1, <1>2, <2>1 DEF UserInv
  <2>2. ASSUME NEW u \in Users, NEW t \in Tasks, due[t] = Never, \A v \in Users : mine[v] # t,
               mine' = [mine EXCEPT ![u] = t]
        PROVE  UserInv'
    <3>1. \A v \in Users : mine'[v] = IF v = u THEN t ELSE mine[v]
      BY <1>0, <2>2 DEF Types
    <3> QED BY <1>0, <1>1, <1>2, <2>2, <3>1, SMTT(60) DEF UserInv
  <2> QED BY <1>3, <2>1, <2>2
<1>8. OwnInv'
  BY <1>0, <1>1, <1>2 DEF Types, OwnInv, hist, loopVars
<1>9. DelInv'
  BY <1>0, <1>1, <1>2 DEF Types, DelInv, InFunc, Runs, Never, hist, loopVars
<1>10. SpaceInv'
  BY <1>0, <1>1, <1>2, SMTT(60) DEF Types, SpaceInv, InFunc, Runs, Never, hist, loopVars
<1> QED BY <1>5, <1>6, <1>7, <1>8, <1>9, <1>10 DEF IInv

(* add_task_ex: the new container is at the end of the list. *)
LEMMA AddTaskHolds ==
  ASSUME IInv, NEW u \in Users, AddTask(u)
  PROVE  IInv'
<1>0. Types /\ PlaceInv /\ UserInv /\ OwnInv /\ DelInv /\ SpaceInv
  BY DEF IInv
<1> DEFINE x == mine[u]
           c == NewTask(when[u], read[u])
<1>1. /\ x \in Tasks /\ loop # "scan" /\ task_list' = Append(task_list, x)
      /\ task' = [task EXCEPT ![x] = c]
      /\ mine' = [mine EXCEPT ![u] = NULL]
      /\ UNCHANGED <<now, loop, at, done, own, deleted, begun>>
  BY <1>0 DEF AddTask, TaskMutexFree, loopVars, Types
<1>2. /\ when' \in [Users -> Nat] /\ read' \in [Users -> Nat]
      /\ due' \in [Tasks -> Int] /\ due'[x] # Never
      /\ \A t \in Tasks \ {x} : due'[t] = due[t]
  <2>1. /\ when \in [Users -> Nat] /\ read \in [Users -> Nat] /\ due \in [Tasks -> Int]
        /\ when[u] \in Nat /\ read[u] \in Nat
    BY <1>0 DEF Types
  <2>2. /\ due' = [due EXCEPT ![x] = IF when[u] < Epoch THEN read[u] + when[u] ELSE when[u]]
        /\ when' = [when EXCEPT ![u] = 0] /\ read' = [read EXCEPT ![u] = 0]
    BY DEF AddTask
  <2> HIDE DEF x
  <2> QED BY <1>1, <2>1, <2>2, SMTT(60) DEF Never
<1>3. c \in Containers /\ ~c.running /\ ~c.destroy_requested
  BY <1>0, NewTaskIs DEF Types
<1> HIDE DEF c
<1>4. /\ task_list' \in Seq(Tasks) /\ Listed' = Listed \cup {x}
      /\ at <= Len(task_list) => at <= Len(task_list') /\ Current' = Current
  BY <1>0, <1>1, AppendLists
<1>5. x \notin Listed /\ deleted[x] = Never /\ begun[x] = Never /\ own[x] = "none"
  BY <1>0, <1>1 DEF UserInv, OwnInv, AddTask
<1>6. loop \in Runs => Current' = Current
  BY <1>0, <1>4 DEF PlaceInv
<1>7. Types'
  BY <1>0, <1>1, <1>3, <1>4, <1>5, <1>6, <1>2 DEF Types, Loops, hist, loopVars
<1>8. PlaceInv'
  BY <1>0, <1>1, <1>3, <1>4, <1>5, <1>6 DEF Types, PlaceInv, Runs, hist, loopVars
<1>9. UserInv'
  BY <1>0, <1>1, <1>3, <1>4, <1>5, <1>6, <1>2 DEF Types, UserInv, hist, loopVars
<1>10. OwnInv'
  BY <1>0, <1>1, <1>3, <1>4, <1>5, <1>6 DEF Types, OwnInv, hist, loopVars
<1>11. DelInv'
  BY <1>0, <1>1, <1>3, <1>4, <1>5, <1>6 DEF Types, DelInv, InFunc, Runs, Never, hist, loopVars
<1>12. SpaceInv'
  BY <1>0, <1>1, <1>3, <1>4, <1>5, <1>6 DEF Types, SpaceInv, InFunc, Runs, Never, hist, loopVars
<1> QED BY <1>7, <1>8, <1>9, <1>10, <1>11, <1>12 DEF IInv

(* del_task_id and del_task_group: a mark on each of the tasks, or none. *)
LEMMA DeleteHolds ==
  ASSUME IInv, NEW ts \in SUBSET Listed, Delete(ts)
  PROVE  IInv'
<1>0. Types /\ PlaceInv /\ UserInv /\ OwnInv /\ DelInv /\ SpaceInv
  BY DEF IInv
<1>1. UNCHANGED <<now, task_list, loop, at, done, own, mine, when, read, due, begun>>
  BY DEF Delete, loopVars, userVars
<1>2. Listed' = Listed /\ Current' = Current
  BY <1>1 DEF Listed, Current
<1>3. /\ \A t \in ts : task'[t] = Deletion(task[t])
      /\ \A t \in Tasks \ ts : task'[t] = task[t]
      /\ \A t \in Tasks : deleted'[t] = IF t \in ts /\ deleted[t] = Never THEN 0 ELSE deleted[t]
      /\ DOMAIN task' = Tasks /\ deleted' \in [Tasks -> Int]
  BY <1>0, ListedTasks, SMTT(60) DEF Delete, Types, Never
<1>4. \A t \in Tasks : task'[t] \in Containers
  BY <1>0, <1>3, DeletionIs DEF Types
<1>5. task' \in [Tasks -> Containers]
  BY <1>3, <1>4 DEF Delete
<1>6. ASSUME NEW t \in Tasks
      PROVE  /\ task'[t].runtime = task[t].runtime /\ task'[t].repeat = task[t].repeat
             /\ task'[t].in_thread = task[t].in_thread /\ task'[t].running = task[t].running
             /\ task[t].destroyed => task'[t].destroyed
             /\ task[t].destroy_requested => task'[t].destroy_requested
             /\ t \in ts => task'[t].destroyed \/ task'[t].destroy_requested
             /\ task'[t].destroy_requested => task[t].destroy_requested \/ task[t].running
  <2>1. task[t] \in Containers
    BY <1>0 DEF Types
  <2>2. CASE t \in ts
    BY <1>3, <2>1, <2>2, DeletionIs
  <2>3. CASE t \notin ts
    BY <1>3, <2>3
  <2> QED BY <2>2, <2>3
<1>7. Types'
  BY <1>0, <1>1, <1>2, <1>3, <1>6, <1>5 DEF Types, Loops
<1>8. PlaceInv'
  BY <1>0, <1>1, <1>2, <1>3, <1>6 DEF Types, PlaceInv, Runs
<1>9. UserInv'
  BY <1>0, <1>1, <1>2, <1>3, <1>6, SMTT(60) DEF Types, UserInv
<1>10. OwnInv'
  BY <1>0, <1>1, <1>2, <1>3, <1>6 DEF Types, OwnInv
<1>11. DelInv'
  BY <1>0, <1>1, <1>2, <1>3, <1>6, SMTT(60) DEF Types, DelInv, InFunc, Runs, Never
<1>12. SpaceInv'
  BY <1>0, <1>1, <1>2, <1>3, <1>6 DEF Types, SpaceInv, InFunc, Runs, Never
<1> QED BY <1>7, <1>8, <1>9, <1>10, <1>11, <1>12 DEF IInv

(* A task's own thread, from the function to the end of task_own_thread. *)
LEMMA OwnHolds ==
  ASSUME IInv, NEW t \in Tasks, OwnStep(t)
  PROVE  IInv'
<1>0. Types /\ PlaceInv /\ UserInv /\ OwnInv /\ DelInv /\ SpaceInv
  BY DEF IInv
<1>1. UNCHANGED <<now, task_list, loop, at, done, mine, when, read, due, deleted, begun>>
  BY DEF OwnStep, OwnFunc, OwnAfter, OwnLeaves, loopVars, userVars, hist
<1>2. Listed' = Listed /\ Current' = Current
  BY <1>1 DEF Listed, Current
<1>3. own[t] # "none" /\ t \in OwnThread /\ ~task[t].destroy_requested
  BY <1>0 DEF OwnStep, OwnFunc, OwnAfter, OwnLeaves, OwnInv, DelInv
<1>4. /\ task' \in [Tasks -> Containers]
      /\ \A x \in Tasks \ {t} : task'[x] = task[x]
      /\ task'[t].repeat = task[t].repeat
      /\ task'[t].running = task[t].running
      /\ task'[t].destroy_requested = task[t].destroy_requested
      /\ task[t].destroyed => task'[t].destroyed
      /\ own[t] # "leaving" => task'[t].in_thread = task[t].in_thread
      /\ own[t] = "leaving" => task'[t].runtime = task[t].runtime
      /\ own[t] = "after" /\ task[t].repeat > 0 => task'[t].runtime = now + task[t].repeat
  <2>1. CASE OwnFunc(t)
    BY <1>0, <2>1, FuncIs DEF OwnFunc
  <2>2. CASE OwnAfter(t)
    BY <1>0, <2>2, ExecutedIs DEF OwnAfter, Types
  <2>3. CASE OwnLeaves(t)
    BY <1>0, <2>3 DEF OwnLeaves, Types, Containers
  <2> QED BY <2>1, <2>2, <2>3 DEF OwnStep
<1>5. own' = [own EXCEPT ![t] = CASE own[t] = "func" -> "after" [] own[t] = "after" -> "leaving"
                                  [] own[t] = "leaving" -> "none"]
  BY DEF OwnStep, OwnFunc, OwnAfter, OwnLeaves
<1>6. own[t] \in {"func", "after", "leaving"}
  BY DEF OwnStep, OwnFunc, OwnAfter, OwnLeaves
<1>7. Types'
  BY <1>0, <1>1, <1>2, <1>3, <1>4, <1>5, <1>6 DEF Types, Loops
<1>8. PlaceInv'
  BY <1>0, <1>1, <1>2, <1>3, <1>4, <1>5, <1>6 DEF Types, PlaceInv, Runs
<1>9. UserInv'
  BY <1>0, <1>1, <1>2, <1>3, <1>4, <1>5, <1>6 DEF Types, UserInv
<1>10. OwnInv'
  BY <1>0, <1>1, <1>2, <1>3, <1>4, <1>5, <1>6 DEF Types, OwnInv
<1>11. DelInv'
  BY <1>0, <1>1, <1>2, <1>3, <1>4, <1>5, <1>6 DEF Types, DelInv, InFunc, Runs, Never
<1>12. SpaceInv'
  <2> SUFFICES ASSUME NEW x \in Tasks
               PROVE  /\ begun'[x] \in {Never} \cup Nat /\ begun'[x] <= now'
                      /\ x \in Listed' /\ begun'[x] # Never /\ task'[x].repeat > 0
                           /\ ~InFunc(x)' /\ own'[x] \notin {"func", "after"}
                           => task'[x].runtime >= begun'[x] + task'[x].repeat
    BY DEF SpaceInv, Never
  <2>1. /\ begun[x] \in {Never} \cup Nat /\ begun[x] <= now
        /\ x \in Listed /\ begun[x] # Never /\ task[x].repeat > 0
             /\ ~InFunc(x) /\ own[x] \notin {"func", "after"}
             => task[x].runtime >= begun[x] + task[x].repeat
    BY <1>0 DEF SpaceInv
  <2>2. InFunc(x)' = InFunc(x)
    BY <1>1, <1>2 DEF InFunc
  <2>3. CASE x # t
    BY <1>0, <1>1, <1>2, <1>4, <1>5, <2>1, <2>2, <2>3 DEF Types
  <2>4. CASE x = t /\ own[t] = "after"
    <3>1. now \in Nat /\ task[x].repeat \in Nat
      BY <1>0 DEF Types, Containers
    <3> QED BY <1>1, <1>2, <1>4, <2>1, <2>4, <3>1, SMTT(60) DEF Never
  <2>5. CASE x = t /\ own[t] = "leaving"
    BY <1>0, <1>1, <1>2, <1>4, <2>1, <2>2, <2>5 DEF Types
  <2>6. CASE x = t /\ own[t] = "func"
    BY <1>0, <1>1, <1>5, <2>1, <2>6 DEF Types
  <2> QED BY <1>6, <2>3, <2>4, <2>5, <2>6
<1> QED BY <1>7, <1>8, <1>9, <1>10, <1>11, <1>12 DEF IInv

(* The loop begins, and its first pass ends: no function is being run. *)
LEMMA TurnHolds ==
  ASSUME IInv, LoopTop \/ ScanEnds
  PROVE  IInv'
<1>0. Types /\ PlaceInv /\ UserInv /\ OwnInv /\ DelInv /\ SpaceInv
  BY DEF IInv
<1>1. /\ loop \notin Runs /\ loop' \in Loops \ Runs /\ at' = 1 /\ done' \in BOOLEAN
      /\ UNCHANGED <<now, task_list, task, own, mine, when, read, due, deleted, begun>>
  BY <1>0 DEF LoopTop, ScanEnds, Loops, Runs, userVars, hist, Types
<1>2. Listed' = Listed
  BY <1>1 DEF Listed
<1>3. Types'
  BY <1>0, <1>1, <1>2, SMTT(60) DEF Types, Loops
<1>4. PlaceInv'
  BY <1>0, <1>1, <1>2 DEF Types, PlaceInv, Runs
<1>5. UserInv'
  BY <1>0, <1>1, <1>2 DEF Types, UserInv
<1>6. OwnInv'
  BY <1>0, <1>1, <1>2 DEF Types, OwnInv
<1>7. DelInv'
  BY <1>0, <1>1, <1>2 DEF Types, DelInv, InFunc, Runs, Never
<1>8. SpaceInv'
  BY <1>0, <1>1, <1>2 DEF Types, SpaceInv, InFunc, Runs, Never
<1> QED BY <1>3, <1>4, <1>5, <1>6, <1>7, <1>8 DEF IInv

(* A task that is passed over, or marked by the last pass. *)
LEMMA ScanPastHolds ==
  ASSUME IInv, ScanPast
  PROVE  IInv'
<1>0. Types /\ PlaceInv /\ UserInv /\ OwnInv /\ DelInv /\ SpaceInv
  BY DEF IInv
<1>1. /\ loop = "scan" /\ loop' = loop /\ at' = at + 1 /\ at <= Len(task_list)
      /\ UNCHANGED <<now, task_list, done, own, mine, when, read, due, deleted, begun>>
      /\ task' = task \/ task' = [task EXCEPT ![Current].destroyed = TRUE]
  BY DEF ScanPast, userVars, hist
<1>2. Listed' = Listed /\ Current \in Tasks
  BY <1>0, <1>1, CurrentListed DEF Listed
<1>3. /\ task' \in [Tasks -> Containers]
      /\ \A x \in Tasks : SameBut(task'[x], task[x]) /\ task'[x].running = task[x].running
  <2>1. task[Current] \in Containers /\ \A x \in Tasks : SameBut(task[x], task[x])
    BY <1>0, <1>2 DEF Types, SameBut
  <2>2. CASE task' = task
    BY <1>0, <2>1, <2>2 DEF Types
  <2> DEFINE d == [task[Current] EXCEPT !.destroyed = TRUE]
  <2>3. SameBut(d, task[Current]) /\ d.running = task[Current].running /\ d \in Containers
    BY <1>0, <2>1, MarksAre DEF Types, SameBut
  <2> HIDE DEF d
  <2>4. CASE task' = [task EXCEPT ![Current] = d]
    BY <1>0, <1>2, <2>1, <2>3, <2>4 DEF Types
  <2> QED BY <1>1, <2>2, <2>4 DEF d
<1>4. ASSUME NEW x \in Tasks
      PROVE  /\ task'[x].runtime = task[x].runtime /\ task'[x].repeat = task[x].repeat
             /\ task[x].in_thread => task'[x].in_thread
             /\ task'[x].running = task[x].running
             /\ task[x].destroyed => task'[x].destroyed
             /\ task'[x].destroy_requested = task[x].destroy_requested
  BY <1>3 DEF SameBut
<1>5. Types'
  <2>1. loop' \in Loops /\ at' \in Nat \ {0} /\ done' \in BOOLEAN
    BY <1>0, <1>1, SMTT(60) DEF Types, Loops
  <2> QED BY <1>0, <1>1, <1>3, <2>1 DEF Types
<1>6. PlaceInv'
  BY <1>0, <1>1, <1>2, <1>4 DEF Types, PlaceInv, Runs
<1>7. UserInv'
  BY <1>0, <1>1, <1>2, <1>4 DEF Types, UserInv
<1>8. OwnInv'
  BY <1>0, <1>1, <1>2, <1>4 DEF Types, OwnInv
<1>9. DelInv'
  BY <1>0, <1>1, <1>2, <1>4 DEF Types, DelInv, InFunc, Runs, Never
<1>10. SpaceInv'
  BY <1>0, <1>1, <1>2, <1>4 DEF Types, SpaceInv, InFunc, Runs, Never
<1> QED BY <1>5, <1>6, <1>7, <1>8, <1>9, <1>10 DEF IInv

(* A task that is due gets a thread of its own. *)
LEMMA ScanOwnHolds ==
  ASSUME IInv, ScanOwn
  PROVE  IInv'
<1>0. Types /\ PlaceInv /\ UserInv /\ OwnInv /\ DelInv /\ SpaceInv
  BY DEF IInv
<1> DEFINE c == Current
<1>1. /\ loop = "scan" /\ loop' = loop /\ at' = at + 1 /\ at <= Len(task_list)
      /\ UNCHANGED <<now, task_list, done, mine, when, read, due>>
      /\ task' = [task EXCEPT ![c] = [@ EXCEPT !.executed = now, !.in_thread = TRUE]]
      /\ own' = [own EXCEPT ![c] = "func"] /\ c \in OwnThread
      /\ begun' = [begun EXCEPT ![c] = now]
      /\ deleted' = [deleted EXCEPT ![c] = IF @ = Never THEN Never ELSE @ + 1]
      /\ ~task[c].destroyed
  BY DEF ScanOwn, userVars, Begins, Due
<1>2. Listed' = Listed /\ c \in Tasks /\ c \in Listed
  BY <1>0, <1>1, CurrentListed DEF Listed
<1> DEFINE d == [task[c] EXCEPT !.executed = now, !.in_thread = TRUE]
<1>3. /\ task' = [task EXCEPT ![c] = d] /\ d \in Containers
      /\ SameBut(d, task[c]) /\ d.destroyed = task[c].destroyed
      /\ d.running = task[c].running /\ d.in_thread
  <2>1. task[c] \in Containers /\ now \in Nat
    BY <1>0, <1>2 DEF Types
  <2> QED BY <1>1, <2>1, MarksAre DEF SameBut
<1> HIDE DEF c, d
<1>4. ASSUME NEW x \in Tasks
      PROVE  /\ task'[x].runtime = task[x].runtime /\ task'[x].repeat = task[x].repeat
             /\ task[x].in_thread => task'[x].in_thread
             /\ task'[x].running = task[x].running
             /\ task'[x].destroyed = task[x].destroyed
             /\ task'[x].destroy_requested = task[x].destroy_requested
  BY <1>0, <1>2, <1>3 DEF Types, SameBut
<1>5. task'[c].in_thread /\ deleted[c] = Never /\ due[c] # Never
  BY <1>0, <1>1, <1>2, <1>3 DEF Types, DelInv, UserInv
<1>6. deleted' = deleted
  BY <1>0, <1>1, <1>2, <1>5 DEF Types
<1>7. Types'
  <2>1. task' \in [Tasks -> Containers] /\ own' \in [Tasks -> {"none", "lost", "func", "after", "leaving"}]
    BY <1>0, <1>1, <1>2, <1>3 DEF Types
  <2>2. begun' \in [Tasks -> Int] /\ deleted' \in [Tasks -> Int]
    BY <1>0, <1>1, <1>2, <1>6, SMTT(60) DEF Types, Never
  <2>3. loop' \in Loops /\ at' \in Nat \ {0}
    BY <1>0, <1>1, SMTT(60) DEF Types, Loops
  <2> QED BY <1>0, <1>1, <2>1, <2>2, <2>3 DEF Types
<1>8. PlaceInv'
  BY <1>0, <1>1, <1>2, <1>4, <1>5, <1>6 DEF Types, PlaceInv, Runs
<1>9. UserInv'
  BY <1>0, <1>1, <1>2, <1>4, <1>5, <1>6, SMTT(60) DEF Types, UserInv
<1>10. OwnInv'
  BY <1>0, <1>1, <1>2, <1>4, <1>5, <1>6 DEF Types, OwnInv
<1>11. DelInv'
  BY <1>0, <1>1, <1>2, <1>4, <1>5, <1>6, SMTT(60) DEF Types, DelInv, InFunc, Runs, Never
<1>12. SpaceInv'
  BY <1>0, <1>1, <1>2, <1>4, <1>5, <1>6, SMTT(60) DEF Types, SpaceInv, InFunc, Runs, Never
<1> QED BY <1>7, <1>8, <1>9, <1>10, <1>11, <1>12 DEF IInv

(* A task that is due should get a thread of its own and gets none. *)
LEMMA ScanOwnFailsHolds ==
  ASSUME IInv, ScanOwnFails
  PROVE  IInv'
<1>0. Types /\ PlaceInv /\ UserInv /\ OwnInv /\ DelInv /\ SpaceInv
  BY DEF IInv
<1> DEFINE c == Current
<1>1. /\ loop = "scan" /\ loop' = loop /\ at' = at + 1 /\ at <= Len(task_list)
      /\ UNCHANGED <<now, task_list, done, mine, when, read, due, begun, deleted>>
      /\ task' = [task EXCEPT ![c] = [@ EXCEPT !.executed = now, !.in_thread = TRUE]]
      /\ own' = [own EXCEPT ![c] = "lost"] /\ c \in OwnThread
      /\ ~task[c].destroyed /\ ~task[c].in_thread
  BY DEF ScanOwnFails, userVars, hist, Due
<1>2. Listed' = Listed /\ c \in Tasks /\ c \in Listed
  BY <1>0, <1>1, CurrentListed DEF Listed
<1> DEFINE d == [task[c] EXCEPT !.executed = now, !.in_thread = TRUE]
<1>3. /\ task' = [task EXCEPT ![c] = d] /\ d \in Containers
      /\ SameBut(d, task[c]) /\ d.destroyed = task[c].destroyed
      /\ d.running = task[c].running /\ d.in_thread
  <2>1. task[c] \in Containers /\ now \in Nat
    BY <1>0, <1>2 DEF Types
  <2> QED BY <1>1, <2>1, MarksAre DEF SameBut
<1> HIDE DEF c, d
<1>4. ASSUME NEW x \in Tasks
      PROVE  /\ task'[x].runtime = task[x].runtime /\ task'[x].repeat = task[x].repeat
             /\ task[x].in_thread => task'[x].in_thread
             /\ task'[x].running = task[x].running
             /\ task'[x].destroyed = task[x].destroyed
             /\ task'[x].destroy_requested = task[x].destroy_requested
  BY <1>0, <1>2, <1>3 DEF Types, SameBut
<1>5. task'[c].in_thread /\ due[c] # Never
  BY <1>0, <1>1, <1>2, <1>3 DEF Types, UserInv
<1>6. own[c] = "none"
  BY <1>0, <1>1, <1>2 DEF OwnInv
<1>7. Types'
  <2>1. task' \in [Tasks -> Containers] /\ own' \in [Tasks -> {"none", "lost", "func", "after", "leaving"}]
    BY <1>0, <1>1, <1>2, <1>3 DEF Types
  <2>2. loop' \in Loops /\ at' \in Nat \ {0}
    BY <1>0, <1>1, SMTT(60) DEF Types, Loops
  <2> QED BY <1>0, <1>1, <2>1, <2>2 DEF Types
<1>8. PlaceInv'
  BY <1>0, <1>1, <1>2, <1>4, <1>5, <1>6 DEF Types, PlaceInv, Runs
<1>9. UserInv'
  BY <1>0, <1>1, <1>2, <1>4, <1>5, <1>6, SMTT(60) DEF Types, UserInv
<1>10. OwnInv'
  BY <1>0, <1>1, <1>2, <1>4, <1>5, <1>6 DEF Types, OwnInv
<1>11. DelInv'
  BY <1>0, <1>1, <1>2, <1>4, <1>5, <1>6, SMTT(60) DEF Types, DelInv, InFunc, Runs, Never
<1>12. SpaceInv'
  BY <1>0, <1>1, <1>2, <1>4, <1>5, <1>6, SMTT(60) DEF Types, SpaceInv, InFunc, Runs, Never
<1> QED BY <1>7, <1>8, <1>9, <1>10, <1>11, <1>12 DEF IInv

(* A task that is due is run by the task thread itself. *)
LEMMA ScanRunHolds ==
  ASSUME IInv, ScanRun
  PROVE  IInv'
<1>0. Types /\ PlaceInv /\ UserInv /\ OwnInv /\ DelInv /\ SpaceInv
  BY DEF IInv
<1> DEFINE c == Current
<1>1. /\ loop = "scan" /\ loop' = "func" /\ at <= Len(task_list)
      /\ UNCHANGED <<now, task_list, at, done, own, mine, when, read, due>>
      /\ task' = [task EXCEPT ![c] = [@ EXCEPT !.executed = now, !.running = TRUE]]
      /\ c \notin OwnThread /\ begun' = [begun EXCEPT ![c] = now]
      /\ deleted' = [deleted EXCEPT ![c] = IF @ = Never THEN Never ELSE @ + 1]
      /\ ~task[c].destroyed
  BY DEF ScanRun, userVars, Begins, Due
<1>2. Listed' = Listed /\ c \in Tasks /\ c \in Listed /\ Current' = c /\ Current = c
  BY <1>0, <1>1, CurrentListed DEF Listed, Current
<1> DEFINE d == [task[c] EXCEPT !.executed = now, !.running = TRUE]
<1>3. /\ task' = [task EXCEPT ![c] = d] /\ d \in Containers
      /\ SameBut(d, task[c]) /\ d.destroyed = task[c].destroyed
      /\ d.in_thread = task[c].in_thread
  <2>1. task[c] \in Containers /\ now \in Nat
    BY <1>0, <1>2 DEF Types
  <2> QED BY <1>1, <2>1, MarksAre DEF SameBut
<1> HIDE DEF c, d
<1>4. ASSUME NEW x \in Tasks
      PROVE  /\ task'[x].runtime = task[x].runtime /\ task'[x].repeat = task[x].repeat
             /\ task'[x].in_thread = task[x].in_thread
             /\ x # c => task'[x].running = task[x].running
             /\ task'[x].destroyed = task[x].destroyed
             /\ task'[x].destroy_requested = task[x].destroy_requested
  BY <1>0, <1>2, <1>3 DEF Types, SameBut
<1>5. due[c] # Never /\ deleted[c] \in {Never, 0}
  BY <1>0, <1>1, <1>2 DEF DelInv, UserInv, InFunc
<1>6. Types'
  <2>1. task' \in [Tasks -> Containers] /\ own' \in [Tasks -> {"none", "lost", "func", "after", "leaving"}]
    BY <1>0, <1>1, <1>2, <1>3 DEF Types
  <2>2. begun' \in [Tasks -> Int] /\ deleted' \in [Tasks -> Int]
    BY <1>0, <1>1, <1>2, SMTT(60) DEF Types, Never
  <2>3. loop' \in Loops /\ at' \in Nat \ {0}
    BY <1>0, <1>1 DEF Types, Loops
  <2> QED BY <1>0, <1>1, <2>1, <2>2, <2>3 DEF Types
<1>7. PlaceInv'
  BY <1>0, <1>1, <1>2, <1>4, <1>5 DEF Types, PlaceInv, Runs
<1>8. UserInv'
  BY <1>0, <1>1, <1>2, <1>4, <1>5 DEF Types, UserInv
<1>9. OwnInv'
  BY <1>0, <1>1, <1>2, <1>4, <1>5 DEF Types, OwnInv
<1>10. DelInv'
  BY <1>0, <1>1, <1>2, <1>4, <1>5, SMTT(60) DEF Types, DelInv, InFunc, Runs, Never
<1>11. SpaceInv'
  BY <1>0, <1>1, <1>2, <1>4, <1>5, SMTT(60) DEF Types, SpaceInv, InFunc, Runs, Never
<1> QED BY <1>6, <1>7, <1>8, <1>9, <1>10, <1>11 DEF IInv

(* The function that the task thread runs returns. *)
LEMMA LoopFuncHolds ==
  ASSUME IInv, LoopFunc
  PROVE  IInv'
<1>0. Types /\ PlaceInv /\ UserInv /\ OwnInv /\ DelInv /\ SpaceInv
  BY DEF IInv
<1> DEFINE c == Current
<1>1. /\ loop = "func" /\ loop' = "after" /\ at' = at
      /\ UNCHANGED <<now, task_list, done, own, mine, when, read, due, deleted, begun>>
  BY DEF LoopFunc, userVars, hist
<1>2. Listed' = Listed /\ c \in Tasks /\ c \in Listed /\ Current = c /\ at <= Len(task_list)
  BY <1>0, <1>1, CurrentListed DEF PlaceInv, Runs, Listed
<1>3. at' = at => Current' = c
  BY <1>1 DEF Current
<1> HIDE DEF c
<1>4. /\ task' \in [Tasks -> Containers] /\ \A x \in Tasks \ {c} : task'[x] = task[x]
      /\ task'[c].repeat = task[c].repeat /\ task'[c].in_thread = task[c].in_thread
      /\ task[c].destroyed => task'[c].destroyed
      /\ task'[c].destroy_requested = task[c].destroy_requested
      /\ task'[c].running = task[c].running
  BY <1>0, <1>2, FuncIs DEF LoopFunc
<1>5. c \notin OwnThread /\ own[c] = "none" /\ due[c] # Never
  BY <1>0, <1>1, <1>2 DEF PlaceInv, Runs, OwnInv, UserInv
<1>6. Types'
  <2>1. loop' \in Loops /\ at' \in Nat \ {0}
    BY <1>0, <1>1 DEF Types, Loops
  <2> QED BY <1>0, <1>1, <1>4, <2>1 DEF Types
<1>7. PlaceInv'
  BY <1>0, <1>1, <1>2, <1>3, <1>4, <1>5 DEF Types, PlaceInv, Runs
<1>8. UserInv'
  BY <1>0, <1>1, <1>2, <1>3, <1>4, <1>5 DEF Types, UserInv
<1>9. OwnInv'
  BY <1>0, <1>1, <1>2, <1>3, <1>4, <1>5 DEF Types, OwnInv
<1>10. DelInv'
  BY <1>0, <1>1, <1>2, <1>3, <1>4, <1>5 DEF Types, DelInv, InFunc, Runs, Never
<1>11. SpaceInv'
  BY <1>0, <1>1, <1>2, <1>3, <1>4, <1>5 DEF Types, SpaceInv, InFunc, Runs, Never
<1> QED BY <1>6, <1>7, <1>8, <1>9, <1>10, <1>11 DEF IInv

(* The end of execute, in the task thread. *)
LEMMA LoopAfterHolds ==
  ASSUME IInv, LoopAfter
  PROVE  IInv'
<1>0. Types /\ PlaceInv /\ UserInv /\ OwnInv /\ DelInv /\ SpaceInv
  BY DEF IInv
<1> DEFINE c == Current
<1>1. /\ loop = "after" /\ loop' = "relock" /\ at' = at
      /\ UNCHANGED <<now, task_list, done, own, mine, when, read, due, deleted, begun>>
  BY DEF LoopAfter, userVars, hist
<1>2. Listed' = Listed /\ c \in Tasks /\ c \in Listed /\ Current = c /\ at <= Len(task_list)
  BY <1>0, <1>1, CurrentListed DEF PlaceInv, Runs, Listed
<1>3. at' = at => Current' = c
  BY <1>1 DEF Current
<1> HIDE DEF c
<1>4. /\ task' \in [Tasks -> Containers] /\ \A x \in Tasks \ {c} : task'[x] = task[x]
      /\ task'[c].repeat = task[c].repeat /\ task'[c].in_thread = task[c].in_thread
      /\ task[c].destroyed => task'[c].destroyed
      /\ task'[c].destroy_requested = task[c].destroy_requested
      /\ task'[c].running = task[c].running
      /\ task[c].destroy_requested => task'[c].destroyed
      /\ task[c].repeat > 0 => task'[c].runtime = now + task[c].repeat
  BY <1>0, <1>2, ExecutedIs DEF LoopAfter, Types
<1>5. c \notin OwnThread /\ own[c] = "none" /\ due[c] # Never
  BY <1>0, <1>1, <1>2 DEF PlaceInv, Runs, OwnInv, UserInv
<1>6. Types'
  <2>1. loop' \in Loops /\ at' \in Nat \ {0}
    BY <1>0, <1>1 DEF Types, Loops
  <2> QED BY <1>0, <1>1, <1>4, <2>1 DEF Types
<1>7. PlaceInv'
  BY <1>0, <1>1, <1>2, <1>3, <1>4, <1>5 DEF Types, PlaceInv, Runs
<1>8. UserInv'
  BY <1>0, <1>1, <1>2, <1>3, <1>4, <1>5 DEF Types, UserInv
<1>9. OwnInv'
  BY <1>0, <1>1, <1>2, <1>3, <1>4, <1>5 DEF Types, OwnInv
<1>10. DelInv'
  BY <1>0, <1>1, <1>2, <1>3, <1>4, <1>5 DEF Types, DelInv, InFunc, Runs, Never
<1>11. SpaceInv'
  <2> SUFFICES ASSUME NEW x \in Tasks
               PROVE  /\ begun'[x] \in {Never} \cup Nat /\ begun'[x] <= now'
                      /\ x \in Listed' /\ begun'[x] # Never /\ task'[x].repeat > 0
                           /\ ~InFunc(x)' /\ own'[x] \notin {"func", "after"}
                           => task'[x].runtime >= begun'[x] + task'[x].repeat
    BY DEF SpaceInv, Never
  <2>1. /\ begun[x] \in {Never} \cup Nat /\ begun[x] <= now
        /\ x \in Listed /\ begun[x] # Never /\ task[x].repeat > 0
             /\ ~InFunc(x) /\ own[x] \notin {"func", "after"}
             => task[x].runtime >= begun[x] + task[x].repeat
    BY <1>0 DEF SpaceInv
  <2>2. CASE x # c
    <3>1. ~InFunc(x)
      BY <1>2, <2>2 DEF InFunc
    <3> QED BY <1>1, <1>2, <1>4, <2>1, <2>2, <3>1
  <2>3. CASE x = c
    <3>1. now \in Nat /\ task[x].repeat \in Nat
      BY <1>0 DEF Types, Containers
    <3> QED BY <1>1, <1>4, <2>1, <2>3, <3>1, SMTT(60) DEF Never
  <2> QED BY <2>2, <2>3
<1> QED BY <1>6, <1>7, <1>8, <1>9, <1>10, <1>11 DEF IInv

(* The task thread has task_mutex again. *)
LEMMA RelockHolds ==
  ASSUME IInv, Relock
  PROVE  IInv'
<1>0. Types /\ PlaceInv /\ UserInv /\ OwnInv /\ DelInv /\ SpaceInv
  BY DEF IInv
<1> DEFINE c == Current
<1>1. /\ loop = "relock" /\ loop' = "scan" /\ at' = at + 1
      /\ UNCHANGED <<now, task_list, done, own, mine, when, read, due, deleted, begun>>
  BY DEF Relock, userVars, hist
<1>2. Listed' = Listed /\ c \in Tasks /\ c \in Listed /\ Current = c /\ at <= Len(task_list)
  BY <1>0, <1>1, CurrentListed DEF PlaceInv, Runs, Listed
<1>3. at' = at => Current' = c
  BY <1>1 DEF Current
<1> HIDE DEF c
<1>4. /\ task' \in [Tasks -> Containers] /\ \A x \in Tasks \ {c} : task'[x] = task[x]
      /\ task'[c].repeat = task[c].repeat /\ task'[c].in_thread = task[c].in_thread
      /\ task[c].destroyed => task'[c].destroyed
      /\ task'[c].destroy_requested = task[c].destroy_requested
      /\ task'[c].running = FALSE /\ task'[c].runtime = task[c].runtime
      /\ task'[c].destroyed = task[c].destroyed
  <2> DEFINE d == [task[c] EXCEPT !.running = FALSE]
  <2>1. /\ SameBut(d, task[c]) /\ d.running = FALSE /\ d.in_thread = task[c].in_thread
        /\ d.destroyed = task[c].destroyed
    BY <1>0, <1>2, MarksAre DEF Types
  <2>2. task' = [task EXCEPT ![c] = d]
    BY <1>2 DEF Relock
  <2> HIDE DEF d
  <2> QED BY <1>0, <1>2, <2>1, <2>2 DEF Types, SameBut
<1>5. c \notin OwnThread /\ own[c] = "none" /\ due[c] # Never
  BY <1>0, <1>1, <1>2 DEF PlaceInv, Runs, OwnInv, UserInv
<1>6. Types'
  <2>1. loop' \in Loops /\ at' \in Nat \ {0}
    BY <1>0, <1>1, SMTT(60) DEF Types, Loops
  <2> QED BY <1>0, <1>1, <1>4, <2>1 DEF Types
<1>7. PlaceInv'
  BY <1>0, <1>1, <1>2, <1>3, <1>4, <1>5 DEF Types, PlaceInv, Runs
<1>8. UserInv'
  BY <1>0, <1>1, <1>2, <1>3, <1>4, <1>5 DEF Types, UserInv
<1>9. OwnInv'
  BY <1>0, <1>1, <1>2, <1>3, <1>4, <1>5 DEF Types, OwnInv
<1>10. DelInv'
  BY <1>0, <1>1, <1>2, <1>3, <1>4, <1>5 DEF Types, DelInv, InFunc, Runs, Never
<1>11. SpaceInv'
  BY <1>0, <1>1, <1>2, <1>3, <1>4, <1>5 DEF Types, SpaceInv, InFunc, Runs, Never
<1> QED BY <1>6, <1>7, <1>8, <1>9, <1>10, <1>11 DEF IInv

(* What is destroyed and in no thread is unlinked and freed. *)
LEMMA ReapHolds ==
  ASSUME IInv, Reap
  PROVE  IInv'
<1>0. Types /\ PlaceInv /\ UserInv /\ OwnInv /\ DelInv /\ SpaceInv
  BY DEF IInv
<1>1. /\ loop = "reap" /\ loop' \in {"top", "ended"}
      /\ UNCHANGED <<now, at, done, own, mine, when, read, due, deleted, begun>>
      /\ task' = [t \in Tasks |-> IF t \in Listed /\ Reapable(t) THEN Fresh ELSE task[t]]
  BY DEF Reap, userVars, hist
<1>2. task_list' \in Seq(Tasks) /\ Listed' = {t \in Listed : ~Reapable(t)}
  BY <1>0, ReapLists
<1>3. \A t \in Tasks : task'[t] = IF t \in Listed /\ Reapable(t) THEN Fresh ELSE task[t]
  BY <1>1
<1>4. task' \in [Tasks -> Containers]
  BY <1>0, <1>1, FreshType DEF Types
<1>5. \A t \in Listed' : t \in Tasks /\ t \in Listed /\ task'[t] = task[t]
  BY <1>0, <1>2, <1>3, ListedTasks
<1>6. \A t \in Tasks : own[t] # "none" => t \in Listed'
  BY <1>0, <1>2 DEF OwnInv, Reapable
<1>7. \A t \in Tasks : /\ task'[t].running => task[t].running
                       /\ task'[t].destroy_requested => task[t].destroy_requested
  BY <1>3, SMTT(60) DEF Fresh
<1>8. Types'
  BY <1>0, <1>1, <1>2, <1>5, <1>6, <1>7, <1>4 DEF Types, Loops
<1>9. PlaceInv'
  BY <1>0, <1>1, <1>2, <1>5, <1>6, <1>7 DEF Types, PlaceInv, Runs
<1>10. UserInv'
  BY <1>0, <1>1, <1>2, <1>5, <1>6, <1>7 DEF Types, UserInv
<1>11. OwnInv'
  BY <1>0, <1>1, <1>2, <1>5, <1>6, <1>7 DEF Types, OwnInv
<1>12. DelInv'
  BY <1>0, <1>1, <1>2, <1>5, <1>6, <1>7 DEF Types, DelInv, InFunc, Runs, Never
<1>13. SpaceInv'
  BY <1>0, <1>1, <1>2, <1>5, <1>6, <1>7 DEF Types, SpaceInv, InFunc, Runs, Never
<1> QED BY <1>8, <1>9, <1>10, <1>11, <1>12, <1>13 DEF IInv

(* Every step keeps the invariant. *)
LEMMA Invariance == Spec => []IInv
<1>1. Init => IInv
  <2> SUFFICES ASSUME Init PROVE IInv
    OBVIOUS
  <2>1. Listed = {}
    BY SMTT(60) DEF Init, Listed, Range
  <2>2. Types
    <3>1. task_list \in Seq(Tasks) /\ now \in Nat /\ now >= Epoch
      BY SchedulerAssumption, EmptySeq, SMTT(60) DEF Init
    <3>2. task \in [Tasks -> Containers]
      BY FreshType DEF Init
    <3>3. /\ due \in [Tasks -> Int] /\ deleted \in [Tasks -> Int] /\ begun \in [Tasks -> Int]
          /\ when \in [Users -> Nat] /\ read \in [Users -> Nat]
      BY SMTT(60) DEF Init, Never
    <3>4. /\ own \in [Tasks -> {"none", "lost", "func", "after", "leaving"}]
          /\ mine \in [Users -> Tasks \cup {NULL}]
      BY DEF Init
    <3>5. loop \in Loops /\ done \in BOOLEAN
      BY DEF Init, Loops
    <3>6. at \in Nat \ {0}
      BY SMTT(60) DEF Init
    <3> QED BY <3>1, <3>2, <3>3, <3>4, <3>5, <3>6 DEF Types
  <2>3. PlaceInv /\ OwnInv /\ DelInv /\ SpaceInv
    BY SchedulerAssumption, SMTT(60) DEF Init, PlaceInv, Runs, OwnInv, DelInv, SpaceInv, Fresh, Never
  <2>4. UserInv
    BY <2>1 DEF Init, UserInv
  <2> QED BY <2>2, <2>3, <2>4 DEF IInv
<1>2. IInv /\ [Next]_vars => IInv'
  <2> SUFFICES ASSUME IInv, [Next]_vars PROVE IInv'
    OBVIOUS
  <2>1. CASE LoopStep
    BY <2>1, TurnHolds, ScanPastHolds, ScanOwnHolds, ScanOwnFailsHolds, ScanRunHolds,
       LoopFuncHolds, LoopAfterHolds, RelockHolds, ReapHolds DEF LoopStep
  <2>2. CASE DelTaskId \/ DelTaskGroup
    BY <2>2, DeleteHolds DEF DelTaskId, DelTaskGroup
  <2>3. CASE UNCHANGED vars
    BY <2>3 DEF vars, loopVars, userVars, hist, IInv, Types, PlaceInv, Current, UserInv, Listed,
                OwnInv, DelInv, InFunc, SpaceInv
  <2> QED BY <2>1, <2>2, <2>3, UsersHold, AddTaskHolds, OwnHolds DEF Next
<1> QED BY <1>1, <1>2, PTL DEF Spec

(* No container is freed that a thread still works with, and no two threads   *)
(* work with one, however adding, deleting and running fall together.         *)
THEOREM InUseIsKept == Spec => []InUseIsListed
<1>1. IInv => InUseIsListed
  <2> SUFFICES ASSUME IInv, NEW t \in Tasks
               PROVE  (Works(t) => t \in Listed) /\ ~(LoopRuns(t) /\ OwnRuns(t))
    BY DEF InUseIsListed
  <2>1. LoopRuns(t) => t \in Listed /\ t \notin OwnThread
    BY CurrentListed DEF IInv, PlaceInv, Runs, LoopRuns
  <2>2. OwnRuns(t) => t \in Listed /\ t \in OwnThread
    BY DEF IInv, OwnInv, OwnRuns
  <2> QED BY <2>1, <2>2 DEF Works
<1> QED BY <1>1, Invariance, PTL

(* A deleted task begins at most one run more: destroy_requested, set while   *)
(* the task thread is between execute and the loop, ends the task after the   *)
(* run that follows.                                                          *)
THEOREM DeletionTakesEffect == Spec => []DeletedRunsOnceMore
<1>1. IInv => DeletedRunsOnceMore
  BY SMTT(60) DEF IInv, DelInv, DeletedRunsOnceMore, Never
<1> QED BY <1>1, Invariance, PTL

(* Only the task thread makes a run begin, and only of a task that is due. *)
LEMMA BeginsWhenDue ==
  ASSUME IInv, Next, NEW t \in Tasks, ~Works(t), Works(t)'
  PROVE  Due(t) /\ t \in Listed
<1>0. Types /\ PlaceInv /\ OwnInv
  BY DEF IInv
<1>1. CASE ScanOwn \/ ScanRun
  <2>1. at <= Len(task_list) /\ Due(Current) /\ (ScanOwn => own' = [own EXCEPT ![Current] = "func"])
    BY <1>1 DEF ScanOwn, ScanRun
  <2>2. Current \in Listed
    BY <1>0, <2>1, CurrentListed
  <2>3. t = Current
    <3>1. CASE ScanOwn
      BY <1>0, <2>1, <3>1 DEF ScanOwn, Works, OwnRuns, LoopRuns, Types
    <3>2. CASE ScanRun
      BY <3>2 DEF ScanRun, Works, OwnRuns, LoopRuns, Current
    <3> QED BY <1>1, <3>1, <3>2
  <2> QED BY <2>1, <2>2, <2>3
<1>2. CASE LoopTop \/ ScanPast \/ ScanEnds \/ Reap \/ Relock
  BY <1>2 DEF LoopTop, ScanPast, ScanEnds, Reap, Relock, Works, OwnRuns, LoopRuns
<1>3. CASE LoopFunc \/ LoopAfter
  BY <1>3 DEF LoopFunc, LoopAfter, Works, OwnRuns, LoopRuns, Current
<1>4. CASE Tick \/ Stop \/ DelTaskId \/ DelTaskGroup
           \/ \E u \in Users : ReadClock(u) \/ \E x \in Tasks : Want(u, x)
  BY <1>4 DEF Tick, Stop, DelTaskId, DelTaskGroup, Delete, ReadClock, Want, loopVars, Works,
              OwnRuns, LoopRuns, Current
<1>5. ASSUME NEW u \in Users, AddTask(u) PROVE FALSE
  <2>1. mine[u] \in Tasks /\ task_list' = Append(task_list, mine[u])
        /\ loop' = loop /\ at' = at /\ own' = own
    BY <1>0, <1>5 DEF AddTask, loopVars, Types
  <2>2. loop \in Runs => Current' = Current
    BY <1>0, <2>1, AppendLists DEF PlaceInv
  <2> QED BY <2>1, <2>2 DEF Works, OwnRuns, LoopRuns, Runs
<1>6. ASSUME NEW x \in Tasks, OwnStep(x) PROVE FALSE
  <2>1. /\ UNCHANGED <<loop, at, task_list>> /\ own[x] \notin {"none", "lost"}
        /\ \A y \in Tasks \ {x} : own'[y] = own[y]
    BY <1>0, <1>6 DEF OwnStep, OwnFunc, OwnAfter, OwnLeaves, loopVars, Types
  <2> QED BY <2>1 DEF Works, OwnRuns, LoopRuns, Current
<1>7. CASE ScanOwnFails
  BY <1>0, <1>7 DEF ScanOwnFails, Works, OwnRuns, LoopRuns, Types
<1> QED BY <1>1, <1>2, <1>3, <1>4, <1>5, <1>6, <1>7 DEF Next, LoopStep

(* The runs of a task with an interval begin at least that long one after the *)
(* other, though the task thread comes late and functions take their time.    *)
THEOREM RunsAreSpaced == Spec => SpacedOut
<1> DEFINE A == \A t \in Tasks : (~Works(t) /\ Works(t)' /\ begun[t] # Never /\ task[t].repeat > 0)
                                 => now - begun[t] >= task[t].repeat
<1>1. IInv /\ [Next]_vars => [A]_vars
  <2> SUFFICES ASSUME IInv, Next, NEW t \in Tasks, ~Works(t), Works(t)', begun[t] # Never,
                      task[t].repeat > 0
               PROVE  now - begun[t] >= task[t].repeat
    OBVIOUS
  <2>1. Due(t) /\ t \in Listed
    BY BeginsWhenDue
  <2>2. ~InFunc(t) /\ own[t] \notin {"func", "after"}
    BY DEF Works, LoopRuns, OwnRuns, InFunc
  <2>3. task[t].runtime >= begun[t] + task[t].repeat
    BY <2>1, <2>2 DEF IInv, SpaceInv
  <2>4. /\ now \in Nat /\ now >= task[t].runtime /\ begun[t] \in Int
        /\ task[t].runtime \in Nat /\ task[t].repeat \in Nat
    BY <2>1 DEF IInv, Types, Containers, Due
  <2> QED BY <2>3, <2>4, SMTT(60)
<1> QED BY <1>1, Invariance, PTL DEF Spec, SpacedOut
=============================================================================

---------------------------- MODULE EventSystem ----------------------------
(***************************************************************************)
(* Events (switch_event.c): fired by any thread, queued, and delivered by  *)
(* dispatch threads to the callbacks that are bound to them.  Callbacks    *)
(* are bound and unbound meanwhile, a full queue brings further dispatch   *)
(* threads, and in the end the system is shut down.                        *)
(*                                                                         *)
(* EVENT_DISPATCH_QUEUE is the bounded queue that AprQueue implements.  A  *)
(* writer of RWLOCK is one step; readers keep it over their callbacks.     *)
(* Thread creation succeeds.  events_use_dispatch is always set            *)
(* (switch_core.c resets it), so switch_event_deliver_thread_pool is not   *)
(* reached.                                                                *)
(***************************************************************************)
EXTENDS Naturals, Sequences, FiniteSets, FiniteSetsExt

CONSTANTS Firers,
          Events,             \* 1..n: the events fired, in their order
          Kind(_),            \* event_id and subclass_name of an event
          Nodes,              \* the memory of bindings
          NodeKind(_),        \* event_id and subclass_name of a binding
          ALL, NULL,          \* SWITCH_EVENT_ALL; no subclass, no event, no node
          DISPATCH_QUEUE_LEN, MAX_DISPATCH,
          InitialThreads,     \* initial-event-threads
          CallbackFires,      \* whether callbacks fire events themselves
          Prompt              \* no dispatch thread dawdles on its way to the queue

Slots  == 0 .. MAX_DISPATCH - 1
Actors == Firers \cup Slots
Capacity == DISPATCH_QUEUE_LEN * MAX_DISPATCH

ASSUME EventAssumption ==
    /\ IsFiniteSet(Events) /\ Events = 1..Cardinality(Events)
    /\ Firers \cap Nat = {} /\ NULL \notin Nat \cup Nodes
    /\ DISPATCH_QUEUE_LEN \in Nat \ {0} /\ MAX_DISPATCH \in Nat \ {0, 1}
    /\ InitialThreads \in 1..MAX_DISPATCH
    /\ CallbackFires \in BOOLEAN /\ Prompt \in BOOLEAN

VARIABLES SYSTEM_RUNNING, queue,
          DISPATCH_THREAD_COUNT, SOFT_MAX_DISPATCH, PENDING,
          bound,              \* EVENT_NODES
          thread,             \* a slot of EVENT_DISPATCH_QUEUE_THREADS: its thread's place
          event, called, at,  \* the event it has, the nodes it has called, the one it is in
          fire, fired,        \* switch_event_fire: where each actor is, and with which event
          lost,               \* history: events that are neither queued nor destroyed
          shutdown, x         \* switch_event_shutdown: its place and its counter

queueVars == <<SYSTEM_RUNNING, queue>>
dispatchVars == <<DISPATCH_THREAD_COUNT, SOFT_MAX_DISPATCH, PENDING>>
threadVars == <<thread, event, called, at>>
fireVars  == <<fire, fired, lost>>
stopVars  == <<shutdown, x>>
eventVars == <<queueVars, dispatchVars, bound, threadVars, fireVars, stopVars>>

\* After switch_event_init and the configuration, with the threads counted.
EventInit ==
    /\ SYSTEM_RUNNING = TRUE /\ queue = <<>>
    /\ DISPATCH_THREAD_COUNT = InitialThreads
    /\ SOFT_MAX_DISPATCH = InitialThreads
    /\ PENDING = 0
    /\ bound = {}
    /\ thread = [i \in Slots |-> IF i < InitialThreads THEN "test" ELSE "none"]
    /\ event = [i \in Slots |-> NULL]
    /\ called = [i \in Slots |-> {}]
    /\ at = [i \in Slots |-> NULL]
    /\ fire = [a \in Actors |-> "idle"] /\ fired = [a \in Actors |-> NULL]
    /\ lost = {}
    /\ shutdown = "no" /\ x = 0

-----------------------------------------------------------------------------
(* Bindings *)

switch_events_match(e, n) ==
    LET ek == Kind(e)  nk == NodeKind(n) IN
    \/ nk.id = ALL /\ nk.subclass = NULL
    \/ /\ nk.id \in {ALL, ek.id}
       /\ nk.subclass \in {NULL, ek.subclass}

Readers == {i \in Slots : thread[i] = "walk"}

\* switch_event_bind_removable, with RWLOCK held for writing.
Bind(n) ==
    /\ n \notin bound /\ Readers = {}
    /\ bound' = bound \cup {n}
    /\ UNCHANGED <<queueVars, dispatchVars, threadVars, fireVars, stopVars>>

\* Mutant of Unbind: only BLOCK is locked.
UnbindUnlocked(ns) ==
    /\ bound' = bound \ ns
    /\ UNCHANGED <<queueVars, dispatchVars, threadVars, fireVars, stopVars>>

\* switch_event_unbind of one node, or switch_event_unbind_callback of several.
Unbind(ns) ==
    /\ Readers = {}
    /\ bound' = bound \ ns
    /\ UNCHANGED <<queueVars, dispatchVars, threadVars, fireVars, stopVars>>

-----------------------------------------------------------------------------
(* switch_event_fire_detailed, switch_event_queue_dispatch_event *)

\* Events that have been destroyed, or not been made.
Unused == Events \ UNION {Range(queue), Range(fired), Range(event), lost}

\* Under EVENT_QUEUE_MUTEX: is another dispatch thread wanted?
Crowded ==
    /\ PENDING = 0
    /\ Len(queue) > DISPATCH_QUEUE_LEN * DISPATCH_THREAD_COUNT
    /\ SOFT_MAX_DISPATCH + 1 < MAX_DISPATCH

\* An event fired too late is destroyed: nothing happens.
Fire(a) ==
    /\ fire[a] = "idle"
    /\ a \in Slots => CallbackFires /\ at[a] # NULL
    /\ Unused # {}
    /\ SYSTEM_RUNNING
    /\ fired' = [fired EXCEPT ![a] = Min(Unused)]
    /\ fire' = [fire EXCEPT ![a] = "check"]
    /\ UNCHANGED <<queueVars, dispatchVars, bound, threadVars, lost, stopVars>>

Check(a) ==
    /\ fire[a] = "check"
    /\ fire' = [fire EXCEPT ![a] = IF Crowded THEN "launch" ELSE "push"]
    /\ PENDING' = IF Crowded THEN PENDING + 1 ELSE PENDING
    /\ UNCHANGED <<queueVars, DISPATCH_THREAD_COUNT, SOFT_MAX_DISPATCH, bound, threadVars, fired,
                   lost, stopVars>>

\* switch_event_launch_dispatch_threads(SOFT_MAX_DISPATCH + 1), which waits for the new
\* thread, but not for ever.
Launch(a) ==
    /\ fire[a] = "launch"
    /\ thread' = [thread EXCEPT ![SOFT_MAX_DISPATCH] = IF @ = "none" THEN "new" ELSE @]
    /\ fire' = [fire EXCEPT ![a] = "launched"]
    /\ UNCHANGED <<queueVars, dispatchVars, bound, event, called, at, fired, lost, stopVars>>

Launched(a) ==
    /\ fire[a] = "launched"
    /\ SOFT_MAX_DISPATCH' = SOFT_MAX_DISPATCH + 1
    /\ PENDING' = PENDING - 1
    /\ fire' = [fire EXCEPT ![a] = "push"]
    /\ UNCHANGED <<queueVars, DISPATCH_THREAD_COUNT, bound, threadVars, fired, lost, stopVars>>

\* switch_queue_push, which waits for a free place.
Push(a) ==
    /\ fire[a] = "push"
    /\ Len(queue) < Capacity
    /\ queue' = Append(queue, fired[a])
    /\ fire' = [fire EXCEPT ![a] = "idle"]
    /\ fired' = [fired EXCEPT ![a] = NULL]
    /\ UNCHANGED <<SYSTEM_RUNNING, dispatchVars, bound, threadVars, lost, stopVars>>

\* APR_EINTR: woken, by the interrupt of the shutdown or for a place that somebody else
\* took, and the queue is full.  Nobody looks at the result, and nobody has the event.
PushFails(a) ==
    /\ fire[a] = "push"
    /\ Len(queue) = Capacity
    /\ lost' = lost \cup {fired[a]}
    /\ fire' = [fire EXCEPT ![a] = "idle"]
    /\ fired' = [fired EXCEPT ![a] = NULL]
    /\ UNCHANGED <<queueVars, dispatchVars, bound, threadVars, stopVars>>

-----------------------------------------------------------------------------
(* switch_event_dispatch_thread, switch_event_deliver *)

Goto(i, place) == thread' = [thread EXCEPT ![i] = place]

Start(i) ==
    /\ thread[i] = "new"
    /\ Goto(i, "test")
    /\ DISPATCH_THREAD_COUNT' = DISPATCH_THREAD_COUNT + 1
    /\ UNCHANGED <<queueVars, SOFT_MAX_DISPATCH, PENDING, bound, event, called, at, fireVars, stopVars>>

Test(i) ==
    /\ thread[i] = "test"
    /\ Goto(i, IF SYSTEM_RUNNING THEN "pop" ELSE "leave")
    /\ UNCHANGED <<queueVars, dispatchVars, bound, event, called, at, fireVars, stopVars>>

\* APR_EINTR: woken for an element that somebody else took.
PopFails(i) ==
    /\ thread[i] = "wait" /\ queue = <<>>
    /\ Goto(i, "test")
    /\ UNCHANGED <<queueVars, dispatchVars, bound, event, called, at, fireVars, stopVars>>

\* switch_event_destroy.
Destroy(i) ==
    /\ event' = [event EXCEPT ![i] = NULL]
    /\ Goto(i, "test")

\* The nodes of EVENT_NODES[event_id] and EVENT_NODES[ALL] that match.
Listeners(e) ==
    {n \in bound : NodeKind(n).id \in {Kind(e).id, ALL} /\ switch_events_match(e, n)}

\* switch_queue_pop takes the head at once, or waits for one.  RWLOCK is taken for
\* reading, or the event is destroyed at once.
Pop(i) ==
    /\ thread[i] \in {"pop", "wait"}
    /\ \/ /\ queue = <<>> /\ thread[i] = "pop"
          /\ Goto(i, "wait")
          /\ UNCHANGED <<queue, event>>
       \/ /\ queue # <<>> /\ queue' = Tail(queue)
          /\ \/ Head(queue) = NULL /\ Goto(i, "leave") /\ UNCHANGED event
             \/ /\ Head(queue) # NULL /\ SYSTEM_RUNNING
                /\ event' = [event EXCEPT ![i] = Head(queue)]
                /\ Goto(i, "walk")
             \/ Head(queue) # NULL /\ ~SYSTEM_RUNNING /\ Destroy(i)
    /\ UNCHANGED <<SYSTEM_RUNNING, dispatchVars, bound, called, at, fireVars, stopVars>>

\* The callback before has returned, the next one is called.
Callback(i, n) ==
    /\ thread[i] = "walk" /\ fire[i] = "idle"
    /\ n \in Listeners(event[i]) \ called[i]
    /\ called' = [called EXCEPT ![i] = @ \cup {n}]
    /\ at' = [at EXCEPT ![i] = n]
    /\ UNCHANGED <<queueVars, dispatchVars, bound, thread, event, fireVars, stopVars>>

\* The last one has returned; RWLOCK is released.
Delivered(i) ==
    /\ thread[i] = "walk" /\ fire[i] = "idle"
    /\ Listeners(event[i]) \subseteq called[i]
    /\ called' = [called EXCEPT ![i] = {}]
    /\ at' = [at EXCEPT ![i] = NULL]
    /\ Destroy(i)
    /\ UNCHANGED <<queueVars, dispatchVars, bound, fireVars, stopVars>>

Leave(i) ==
    /\ thread[i] = "leave"
    /\ Goto(i, "ended")
    /\ DISPATCH_THREAD_COUNT' = DISPATCH_THREAD_COUNT - 1
    /\ UNCHANGED <<queueVars, SOFT_MAX_DISPATCH, PENDING, bound, event, called, at, fireVars, stopVars>>

-----------------------------------------------------------------------------
(* switch_event_shutdown *)

Stop ==
    /\ shutdown = "no"
    /\ SYSTEM_RUNNING' = FALSE
    /\ shutdown' = "null"
    /\ UNCHANGED <<queue, dispatchVars, bound, threadVars, fireVars, x>>

\* A NULL for each dispatch thread, if there is room; the count is read each time.
PushNull ==
    /\ shutdown = "null" /\ x < DISPATCH_THREAD_COUNT
    /\ queue' = IF Len(queue) < Capacity THEN Append(queue, NULL) ELSE queue
    /\ x' = x + 1
    /\ UNCHANGED <<SYSTEM_RUNNING, dispatchVars, bound, threadVars, fireVars, shutdown>>

\* Mutant of Interrupt: left out.
InterruptNobody ==
    /\ shutdown = "null" /\ x >= DISPATCH_THREAD_COUNT
    /\ Prompt => \A i \in Slots : thread[i] # "pop"
    /\ shutdown' = "join" /\ x' = 0
    /\ UNCHANGED <<queueVars, dispatchVars, bound, threadVars, fireVars>>

\* switch_queue_interrupt_all.
Interrupt ==
    /\ shutdown = "null" /\ x >= DISPATCH_THREAD_COUNT
    /\ Prompt => \A i \in Slots : thread[i] # "pop"
    /\ thread' = [i \in Slots |-> IF thread[i] = "wait" /\ queue = <<>> THEN "test" ELSE thread[i]]
    /\ shutdown' = "join" /\ x' = 0
    /\ UNCHANGED <<queueVars, dispatchVars, bound, event, called, at, fireVars>>

\* switch_thread_join, slot by slot.
Join ==
    /\ shutdown = "join"
    /\ IF x < MAX_DISPATCH
       THEN /\ thread[x] \in {"none", "ended"}
            /\ x' = x + 1 /\ UNCHANGED shutdown
       ELSE shutdown' = "drain" /\ x' = 0
    /\ UNCHANGED <<queueVars, dispatchVars, bound, threadVars, fireVars>>

\* Mutant of Drain: one pop, no loop.
DrainOnce ==
    /\ shutdown = "drain"
    /\ queue' = IF queue = <<>> THEN queue ELSE Tail(queue)
    /\ shutdown' = "done"
    /\ UNCHANGED <<SYSTEM_RUNNING, dispatchVars, bound, threadVars, fireVars, x>>

\* What is left in the queue is destroyed, up to the first NULL.
Drain ==
    /\ shutdown = "drain"
    /\ queue' = IF queue = <<>> THEN queue ELSE Tail(queue)
    /\ shutdown' = IF queue = <<>> \/ Head(queue) = NULL THEN "done" ELSE "drain"
    /\ UNCHANGED <<SYSTEM_RUNNING, dispatchVars, bound, threadVars, fireVars, x>>

-----------------------------------------------------------------------------
Fires(a) == Check(a) \/ Launch(a) \/ Launched(a) \/ Push(a)

Dispatches(i) ==
    \/ Start(i) \/ Test(i) \/ Pop(i) \/ Delivered(i) \/ Leave(i)
    \/ \E n \in Nodes : Callback(i, n)

ShutsDown == PushNull \/ Interrupt \/ Join \/ Drain

EventNext ==
    \/ \E n \in Nodes : Bind(n)
    \/ \E ns \in SUBSET bound \ {{}} : Unbind(ns)
    \/ \E a \in Actors : Fire(a) \/ Fires(a) \/ PushFails(a)
    \/ \E i \in Slots : Dispatches(i) \/ PopFails(i)
    \/ Stop \/ ShutsDown

EventSpec == EventInit /\ [][EventNext]_eventVars

\* Threads that can go on do, and callbacks return.
EventFairSpec ==
    /\ EventSpec
    /\ \A a \in Firers : WF_eventVars(Fires(a))
    /\ \A i \in Slots : WF_eventVars(Dispatches(i) \/ Fires(i))
    /\ WF_eventVars(ShutsDown)

-----------------------------------------------------------------------------
(* Properties *)

EventTypeOK ==
    /\ SYSTEM_RUNNING \in BOOLEAN /\ queue \in Seq(Events \cup {NULL})
    /\ DISPATCH_THREAD_COUNT \in 0..MAX_DISPATCH /\ SOFT_MAX_DISPATCH \in 1..MAX_DISPATCH
    /\ PENDING \in 0..1
    /\ bound \subseteq Nodes
    /\ thread \in [Slots -> {"none", "new", "test", "pop", "wait", "walk", "leave", "ended"}]
    /\ event \in [Slots -> Events \cup {NULL}]
    /\ called \in [Slots -> SUBSET Nodes] /\ at \in [Slots -> Nodes \cup {NULL}]
    /\ fire \in [Actors -> {"idle", "check", "launch", "launched", "push"}]
    /\ fired \in [Actors -> Events \cup {NULL}] /\ lost \subseteq Events
    /\ shutdown \in {"no", "null", "join", "drain", "done"} /\ x \in 0..MAX_DISPATCH

\* Once switch_event_unbind has returned, the callback is not running in any dispatch
\* thread and will not be called again: its module may be unloaded.
UnboundIsQuiet == \A i \in Slots : at[i] # NULL => at[i] \in bound

\* An event that is in the queue before the shutdown is destroyed in the end: the NULLs
\* that stop the drain, and the threads, come after it.
QueuedIsFreed ==
    \A e \in Events : (SYSTEM_RUNNING /\ e \in Range(queue)) ~> e \in Unused

\* switch_event_shutdown returns: every dispatch thread gets to see that it should leave.
ShutdownReturns == shutdown = "null" ~> shutdown = "done"

\* Every event that switch_event_fire accepts is queued; destroying it is then up to the
\* dispatch threads and the shutdown.
AcceptedIsQueued == lost = {}

\* switch_event_fire returns, though it waits for a free place in the queue.
FireReturns == \A a \in Firers : fire[a] # "idle" ~> fire[a] = "idle"
=============================================================================

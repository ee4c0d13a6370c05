------------------------------ MODULE AprQueue ------------------------------
(***************************************************************************)
(* The bounded queue of src/src/switch_apr_queue.c behind switch_queue_t:  *)
(* a ring of slots, one mutex, two condition variables, a count of the     *)
(* threads waiting on each and a termination flag.                         *)
(*                                                                         *)
(* A thread holds one_big_mutex from Enter or Resume to the end of that    *)
(* step and gives it up only inside a condition wait, so a step of this    *)
(* model is one critical section and the mutex itself needs no variable.   *)
(* What the code reads outside the mutex (terminated, on entry and after   *)
(* the unlock of a failed wait) is read in a step of its own.              *)
(*                                                                         *)
(* A condition variable is the set of threads blocked on it.  A woken      *)
(* thread is "resumed": it has left the set but must still get the mutex,  *)
(* and any other thread may get it first.                                  *)
(***************************************************************************)
EXTENDS Naturals, Sequences, FiniteSets

CONSTANTS Threads,           \* the threads that call the queue
          Values,            \* what is pushed
          NULL,              \* no element
          Bounds,            \* queue_capacity
          Calls,             \* the calls the threads make
          SpuriousWakeups    \* whether a condition wait may wake by itself

ASSUME BoundsAssumption == Bounds \in Nat \ {0}
ASSUME ThreadsAssumption == IsFiniteSet(Threads)
ASSUME NullAssumption == NULL \notin Values
ASSUME SpuriousAssumption == SpuriousWakeups \in BOOLEAN

VARIABLES data, nelts, in, out, full_waiters, empty_waiters, terminated,
          not_empty, not_full,  \* the threads blocked on each condition
          pc,                   \* where each thread is in its call
          op,                   \* which call it makes
          item,                 \* its data argument
          rv,                   \* the status of its last finished call
          wokenBy               \* history: what ended its last wait

ringVars  == <<data, nelts, in, out>>
waitVars  == <<full_waiters, empty_waiters, not_empty, not_full>>
callVars  == <<op, item, rv, wokenBy>>
queueVars == <<ringVars, waitVars, terminated, pc, callVars>>

PushOps == {"push", "trypush"}
PopOps  == {"pop", "pop_timeout", "trypop"}
CtlOps  == {"interrupt_all", "term"}
Ops     == PushOps \cup PopOps \cup CtlOps

Statuses == {"none", "SUCCESS", "EOF", "EINTR", "EAGAIN", "TIMEUP"}
Places   == {"idle", "called", "enter", "waiting", "resumed", "timedup",
             "interrupted", "broadcast"}
Wakers   == {"none", "signal", "broadcast", "spurious"}

Slots == 0 .. Bounds - 1

apr_queue_full  == nelts = Bounds
apr_queue_empty == nelts = 0

\* switch_apr_queue_create: memset leaves every slot NULL.
QueueInit ==
    /\ data = [i \in Slots |-> NULL]
    /\ nelts = 0 /\ in = 0 /\ out = 0
    /\ full_waiters = 0 /\ empty_waiters = 0
    /\ terminated = FALSE
    /\ not_empty = {} /\ not_full = {}
    /\ pc = [t \in Threads |-> "idle"]
    /\ op = [t \in Threads |-> "trypop"]
    /\ item = [t \in Threads |-> NULL]
    /\ rv = [t \in Threads |-> "none"]
    /\ wokenBy = [t \in Threads |-> "none"]

-----------------------------------------------------------------------------
(* Building blocks *)

\* The sets of threads one fspr_thread_cond_signal may wake: none when the
\* caller's waiter count is zero or nobody is blocked, otherwise any single
\* blocked thread.
Signalled(waiters, cond) ==
    IF waiters > 0 /\ cond # {} THEN {{w} : w \in cond} ELSE {{}}

\* t goes to place p and the threads in woken leave their wait.
Move(t, p, woken, how) ==
    /\ pc' = [x \in Threads |-> IF x = t THEN p
                                ELSE IF x \in woken THEN "resumed" ELSE pc[x]]
    /\ wokenBy' = [x \in Threads |-> IF x \in woken THEN how ELSE wokenBy[x]]

Goto(t, p) ==
    /\ pc' = [pc EXCEPT ![t] = p]
    /\ UNCHANGED wokenBy

\* A call ends without having touched the ring.
ReturnFailure(t, s) ==
    /\ Goto(t, "idle")
    /\ rv' = [rv EXCEPT ![t] = s]
    /\ item' = [item EXCEPT ![t] = NULL]
    /\ UNCHANGED <<ringVars, op>>

\* Mutants of Put: signal only when several wait; advance in first.
PutSignalsSeveral(t) ==
    /\ data' = [data EXCEPT ![in] = item[t]]
    /\ in' = (in + 1) % Bounds
    /\ nelts' = nelts + 1
    /\ UNCHANGED out
    /\ \E W \in Signalled(IF empty_waiters > 1 THEN 1 ELSE 0, not_empty) :
          /\ not_empty' = not_empty \ W
          /\ Move(t, "idle", W, "signal")
    /\ rv' = [rv EXCEPT ![t] = "SUCCESS"]
    /\ item' = [item EXCEPT ![t] = NULL]
    /\ UNCHANGED <<not_full, empty_waiters, op>>

PutAdvancesFirst(t) ==
    /\ in' = (in + 1) % Bounds
    /\ data' = [data EXCEPT ![in'] = item[t]]
    /\ nelts' = nelts + 1
    /\ UNCHANGED out
    /\ \E W \in Signalled(empty_waiters, not_empty) :
          /\ not_empty' = not_empty \ W
          /\ Move(t, "idle", W, "signal")
    /\ rv' = [rv EXCEPT ![t] = "SUCCESS"]
    /\ item' = [item EXCEPT ![t] = NULL]
    /\ UNCHANGED <<not_full, empty_waiters, op>>

\* Store the element, count it, signal not_empty, unlock, return.
Put(t) ==
    /\ data' = [data EXCEPT ![in] = item[t]]
    /\ in' = (in + 1) % Bounds
    /\ nelts' = nelts + 1
    /\ UNCHANGED out
    /\ \E W \in Signalled(empty_waiters, not_empty) :
          /\ not_empty' = not_empty \ W
          /\ Move(t, "idle", W, "signal")
    /\ rv' = [rv EXCEPT ![t] = "SUCCESS"]
    /\ item' = [item EXCEPT ![t] = NULL]
    /\ UNCHANGED <<not_full, empty_waiters, op>>

\* Fetch the oldest element, uncount it, signal not_full, unlock, return.
Take(t) ==
    /\ item' = [item EXCEPT ![t] = data[out]]
    /\ nelts' = nelts - 1
    /\ out' = (out + 1) % Bounds
    /\ UNCHANGED <<data, in>>
    /\ \E W \in Signalled(full_waiters, not_full) :
          /\ not_full' = not_full \ W
          /\ Move(t, "idle", W, "signal")
    /\ rv' = [rv EXCEPT ![t] = "SUCCESS"]
    /\ UNCHANGED <<not_empty, full_waiters, op>>

-----------------------------------------------------------------------------
(* The calls *)

\* A thread calls into the queue.
Call(t, o, v) ==
    /\ pc[t] = "idle"
    /\ op' = [op EXCEPT ![t] = o]
    /\ item' = [item EXCEPT ![t] = v]
    /\ rv' = [rv EXCEPT ![t] = "none"]
    /\ wokenBy' = [wokenBy EXCEPT ![t] = "none"]
    /\ pc' = [pc EXCEPT ![t] = IF o = "interrupt_all" THEN "broadcast"
                               ELSE IF o = "term" THEN "enter" ELSE "called"]
    /\ UNCHANGED <<ringVars, waitVars, terminated>>

\* if (queue->terminated) return APR_EOF, before the mutex is taken.
Check(t) ==
    /\ pc[t] = "called"
    /\ \/ /\ terminated
          /\ ReturnFailure(t, "EOF")
       \/ /\ ~terminated
          /\ Goto(t, "enter")
          /\ UNCHANGED <<ringVars, op, item, rv>>
    /\ UNCHANGED <<waitVars, terminated>>

\* Block on not_full; the count includes the thread until it has the mutex back.
WaitNotFull(t) ==
    /\ full_waiters' = full_waiters + 1
    /\ not_full' = not_full \cup {t}
    /\ Goto(t, "waiting")
    /\ UNCHANGED <<ringVars, op, item, rv, empty_waiters, not_empty>>

WaitNotEmpty(t) ==
    /\ empty_waiters' = empty_waiters + 1
    /\ not_empty' = not_empty \cup {t}
    /\ Goto(t, "waiting")
    /\ UNCHANGED <<ringVars, op, item, rv, full_waiters, not_full>>

\* Nothing was stored or fetched: unlock, and go and read terminated.
GiveUp(t) ==
    /\ Goto(t, "interrupted")
    /\ UNCHANGED <<ringVars, op, item, rv>>

EnterPush(t) ==
    /\ op[t] = "push"
    /\ \/ /\ apr_queue_full /\ ~terminated
          /\ WaitNotFull(t)
       \/ /\ apr_queue_full /\ terminated
          /\ GiveUp(t)
          /\ UNCHANGED waitVars
       \/ /\ ~apr_queue_full
          /\ Put(t)
          /\ UNCHANGED full_waiters

EnterTrypush(t) ==
    /\ op[t] = "trypush"
    /\ \/ /\ apr_queue_full
          /\ ReturnFailure(t, "EAGAIN")
          /\ UNCHANGED waitVars
       \/ /\ ~apr_queue_full
          /\ Put(t)
          /\ UNCHANGED full_waiters

\* Mutant of EnterPop: terminated is not looked at again under the mutex.
EnterPopUnchecked(t) ==
    /\ op[t] \in {"pop", "pop_timeout"}
    /\ \/ /\ apr_queue_empty
          /\ WaitNotEmpty(t)
       \/ /\ ~apr_queue_empty
          /\ Take(t)
          /\ UNCHANGED empty_waiters

EnterPop(t) ==
    /\ op[t] \in {"pop", "pop_timeout"}
    /\ \/ /\ apr_queue_empty /\ ~terminated
          /\ WaitNotEmpty(t)
       \/ /\ apr_queue_empty /\ terminated
          /\ GiveUp(t)
          /\ UNCHANGED waitVars
       \/ /\ ~apr_queue_empty
          /\ Take(t)
          /\ UNCHANGED empty_waiters

EnterTrypop(t) ==
    /\ op[t] = "trypop"
    /\ \/ /\ apr_queue_empty
          /\ ReturnFailure(t, "EAGAIN")
          /\ UNCHANGED waitVars
       \/ /\ ~apr_queue_empty
          /\ Take(t)
          /\ UNCHANGED empty_waiters

Enter(t) ==
    /\ pc[t] = "enter"
    /\ EnterPush(t) \/ EnterTrypush(t) \/ EnterPop(t) \/ EnterTrypop(t)
    /\ UNCHANGED terminated

\* A woken push has the mutex again: it looks at the ring once, and a ring
\* that is still full makes it give up.
ResumePush(t) ==
    /\ op[t] = "push"
    /\ full_waiters' = full_waiters - 1
    /\ \/ /\ apr_queue_full
          /\ GiveUp(t)
          /\ UNCHANGED <<empty_waiters, not_empty, not_full>>
       \/ /\ ~apr_queue_full
          /\ Put(t)

ResumePop(t) ==
    /\ op[t] \in {"pop", "pop_timeout"}
    /\ empty_waiters' = empty_waiters - 1
    /\ \/ /\ apr_queue_empty
          /\ GiveUp(t)
          /\ UNCHANGED <<full_waiters, not_empty, not_full>>
       \/ /\ ~apr_queue_empty
          /\ Take(t)

Resume(t) ==
    /\ pc[t] = "resumed"
    /\ ResumePush(t) \/ ResumePop(t)
    /\ UNCHANGED terminated

\* After the unlock: EOF when terminated, otherwise EINTR, which
\* switch_queue_push answers by calling again with the same element.
Interrupted(t) ==
    /\ pc[t] = "interrupted"
    /\ \/ /\ terminated
          /\ ReturnFailure(t, "EOF")
       \/ /\ ~terminated /\ op[t] \in PopOps
          /\ ReturnFailure(t, "EINTR")
       \/ /\ ~terminated /\ op[t] = "push"
          /\ Goto(t, "called")
          /\ UNCHANGED <<ringVars, op, item, rv>>
    /\ UNCHANGED <<waitVars, terminated>>

\* switch_apr_queue_term: the flag is set under the mutex, which is released
\* before interrupt_all takes it again.
SetTerminated(t) ==
    /\ pc[t] = "enter" /\ op[t] = "term"
    /\ terminated' = TRUE
    /\ Goto(t, "broadcast")
    /\ UNCHANGED <<ringVars, waitVars, op, item, rv>>

\* Mutant of Broadcast: only the poppers are woken.
BroadcastPops(t) ==
    /\ pc[t] = "broadcast"
    /\ Move(t, "idle", not_empty, "broadcast")
    /\ not_empty' = {}
    /\ rv' = [rv EXCEPT ![t] = "SUCCESS"]
    /\ UNCHANGED <<ringVars, full_waiters, empty_waiters, not_full, terminated, op, item>>

\* switch_apr_queue_interrupt_all
Broadcast(t) ==
    /\ pc[t] = "broadcast"
    /\ Move(t, "idle", not_empty \cup not_full, "broadcast")
    /\ not_empty' = {} /\ not_full' = {}
    /\ rv' = [rv EXCEPT ![t] = "SUCCESS"]
    /\ UNCHANGED <<ringVars, full_waiters, empty_waiters, terminated, op, item>>

-----------------------------------------------------------------------------
(* The condition variables themselves *)

\* The interval of a timed wait elapses; a thread that was already signalled
\* does not time out.
Timeout(t) ==
    /\ t \in not_empty /\ op[t] = "pop_timeout"
    /\ not_empty' = not_empty \ {t}
    /\ Goto(t, "timedup")
    /\ UNCHANGED <<ringVars, full_waiters, empty_waiters, not_full, terminated,
                   op, item, rv>>

\* APR_TIMEUP is returned without another look at the ring.
TimedUp(t) ==
    /\ pc[t] = "timedup"
    /\ empty_waiters' = empty_waiters - 1
    /\ ReturnFailure(t, "TIMEUP")
    /\ UNCHANGED <<full_waiters, not_empty, not_full, terminated>>

\* POSIX lets a condition wait return unprompted.
Spurious(t) ==
    /\ SpuriousWakeups
    /\ t \in not_empty \cup not_full
    /\ not_empty' = not_empty \ {t}
    /\ not_full' = not_full \ {t}
    /\ pc' = [pc EXCEPT ![t] = "resumed"]
    /\ wokenBy' = [wokenBy EXCEPT ![t] = "spurious"]
    /\ UNCHANGED <<ringVars, full_waiters, empty_waiters, terminated, op, item, rv>>

-----------------------------------------------------------------------------
\* The steps by which a call in progress gets on.
Proceed(t) ==
    \/ Check(t) \/ Enter(t) \/ Resume(t) \/ Interrupted(t)
    \/ SetTerminated(t) \/ Broadcast(t) \/ TimedUp(t)

Invoke(t) ==
    \/ \E o \in PushOps \cap Calls, v \in Values : Call(t, o, v)
    \/ \E o \in (PopOps \cup CtlOps) \cap Calls : Call(t, o, NULL)

QueueNext ==
    \E t \in Threads : Invoke(t) \/ Proceed(t) \/ Timeout(t) \/ Spurious(t)

QueueSpec == QueueInit /\ [][QueueNext]_queueVars

\* A thread inside a call is scheduled, and a timed wait elapses.  Nothing
\* makes a thread call the queue.
QueueFairSpec ==
    QueueSpec /\ \A t \in Threads : WF_queueVars(Proceed(t)) /\ WF_queueVars(Timeout(t))
-----------------------------------------------------------------------------
(* Properties *)

Blocking == {"pop", "pop_timeout"}

\* The threads whose wait for an element (a slot) has ended but which have not
\* had the mutex back yet.
WokenPops   == {t \in Threads : pc[t] = "resumed" /\ op[t] \in Blocking}
WokenPushes == {t \in Threads : pc[t] = "resumed" /\ op[t] = "push"}

TypeOK ==
    /\ data \in [Slots -> Values \cup {NULL}]
    /\ nelts \in 0 .. Bounds
    /\ in \in Slots
    /\ out \in Slots
    /\ full_waiters \in Nat
    /\ empty_waiters \in Nat
    /\ terminated \in BOOLEAN
    /\ not_empty \subseteq Threads
    /\ not_full \subseteq Threads
    /\ pc \in [Threads -> Places]
    /\ op \in [Threads -> Ops]
    /\ item \in [Threads -> Values \cup {NULL}]
    /\ rv \in [Threads -> Statuses]
    /\ wokenBy \in [Threads -> Wakers]

\* No lost wake-up.  As long as a pop is blocked on not_empty, every element in
\* the ring is already spoken for by a popper that was woken and is on its way
\* to the mutex; likewise every free slot while a push is blocked on not_full.
\* One fspr_thread_cond_signal per stored element is therefore enough, although
\* newcomers steal elements, waits time out and interrupts come in between.
NoLostWakeup ==
    /\ not_empty # {} => nelts <= Cardinality(WokenPops)
    /\ not_full # {} => Bounds - nelts <= Cardinality(WokenPushes)

\* Once switch_apr_queue_term has set the flag and broadcast, nobody is blocked
\* and nobody blocks any more: the comment in term explains why the flag is set
\* under the mutex, and push and pop look at it again before they wait.
TermReachesEveryone ==
    (terminated /\ \A t \in Threads : ~(op[t] = "term" /\ pc[t] = "broadcast"))
        => not_empty = {} /\ not_full = {}

\* The elements in the ring, oldest first.
Contents == [i \in 1 .. nelts |-> data[(out + i - 1) % Bounds]]

Fifo == INSTANCE BoundedFifo WITH
            queue <- Contents, closed <- terminated,
            active <- {t \in Threads : pc[t] # "idle"}

\* The ring, its counters and its error paths behave as a bounded FIFO: a call
\* that reports SUCCESS took effect once and in order, any other call had no
\* effect and reports a status its state allows.
ImplementsFifo == Fifo!FifoSpec

\* After termination every call that is in progress returns, whether it was
\* about to block, blocked, or looping on APR_EINTR in switch_queue_push.
TermReleasesCallers ==
    \A t \in Threads : (terminated /\ pc[t] # "idle") ~> (pc[t] = "idle")

\* The comment in push, pop and pop_timeout: "If we wake up and it's still
\* empty, then we were interrupted", that is APR_EINTR is returned only to a
\* caller that interrupt_all woke.
EintrMeansInterrupted ==
    \A t \in Threads : rv[t] = "EINTR" => wokenBy[t] = "broadcast"
=============================================================================

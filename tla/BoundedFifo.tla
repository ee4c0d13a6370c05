---------------------------- MODULE BoundedFifo ----------------------------
(***************************************************************************)
(* What the users of switch_queue_t rely on: a bounded first-in first-out  *)
(* queue whose calls either take effect exactly once and report SUCCESS,   *)
(* or take no effect and report why.  AprQueue is shown to implement it.   *)
(***************************************************************************)
EXTENDS Naturals, Sequences

CONSTANTS Threads, Values, NULL, Bounds

VARIABLES queue,    \* the elements, oldest first
          closed,   \* the queue was terminated
          op,       \* the call each thread makes, or made last
          active,   \* the threads inside a call
          item,     \* the element a thread pushes, or the one its pop returned
          rv        \* the status of a thread's last finished call

fifoVars == <<queue, closed, op, active, item, rv>>

PushOps == {"push", "trypush"}
PopOps  == {"pop", "pop_timeout", "trypop"}
CtlOps  == {"interrupt_all", "term"}
Ops     == PushOps \cup PopOps \cup CtlOps

FifoInit ==
    /\ queue = <<>>
    /\ closed = FALSE
    /\ op = [t \in Threads |-> "trypop"]
    /\ active = {}
    /\ item = [t \in Threads |-> NULL]
    /\ rv = [t \in Threads |-> "none"]

Begin(t, o, v) ==
    /\ t \notin active
    /\ active' = active \cup {t}
    /\ op' = [op EXCEPT ![t] = o]
    /\ item' = [item EXCEPT ![t] = v]
    /\ rv' = [rv EXCEPT ![t] = "none"]
    /\ UNCHANGED <<queue, closed>>

End(t, s) ==
    /\ t \in active
    /\ active' = active \ {t}
    /\ rv' = [rv EXCEPT ![t] = s]
    /\ UNCHANGED op

\* A successful push appends the caller's element, never beyond the bound.
Insert(t) ==
    /\ op[t] \in PushOps
    /\ Len(queue) < Bounds
    /\ queue' = Append(queue, item[t])
    /\ item' = [item EXCEPT ![t] = NULL]
    /\ End(t, "SUCCESS")
    /\ UNCHANGED closed

\* A successful pop hands the oldest element to exactly one caller.
Remove(t) ==
    /\ op[t] \in PopOps
    /\ queue # <<>>
    /\ item' = [item EXCEPT ![t] = Head(queue)]
    /\ queue' = Tail(queue)
    /\ End(t, "SUCCESS")
    /\ UNCHANGED closed

\* The statuses that report failure, each with the reason it stands for.
MayFail(t, s) ==
    \/ s = "EOF"    /\ op[t] \in PushOps \cup PopOps /\ closed
    \/ s = "EAGAIN" /\ op[t] = "trypush" /\ Len(queue) = Bounds
    \/ s = "EAGAIN" /\ op[t] = "trypop"  /\ queue = <<>>
    \/ s = "EINTR"  /\ op[t] \in {"pop", "pop_timeout"}
    \/ s = "TIMEUP" /\ op[t] = "pop_timeout"

Fail(t, s) ==
    /\ MayFail(t, s)
    /\ End(t, s)
    /\ item' = [item EXCEPT ![t] = NULL]
    /\ UNCHANGED <<queue, closed>>

Close(t) ==
    /\ t \in active
    /\ op[t] = "term"
    /\ closed' = TRUE
    /\ UNCHANGED <<queue, op, active, item, rv>>

Control(t) ==
    /\ op[t] \in CtlOps
    /\ End(t, "SUCCESS")
    /\ UNCHANGED <<queue, closed, item>>

FifoNext ==
    \E t \in Threads :
        \/ \E o \in PushOps, v \in Values : Begin(t, o, v)
        \/ \E o \in PopOps \cup CtlOps : Begin(t, o, NULL)
        \/ Insert(t)
        \/ Remove(t)
        \/ \E s \in {"EOF", "EAGAIN", "EINTR", "TIMEUP"} : Fail(t, s)
        \/ Close(t)
        \/ Control(t)

FifoSpec == FifoInit /\ [][FifoNext]_fifoVars
=============================================================================

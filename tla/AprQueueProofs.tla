--------------------------- MODULE AprQueueProofs ---------------------------
(***************************************************************************)
(* TLAPS proofs about AprQueue, for any set of threads, any elements and   *)
(* any capacity: its bookkeeping, wake-ups and termination, and that it    *)
(* implements BoundedFifo, which is what switch_queue_t promises its users. *)
(***************************************************************************)
EXTENDS AprQueue, FiniteSetTheorems, TLAPS

(* Zenon proves the leaves that do not name the SMT solver. *)
USE ZenonT(60)

\* The size of a finite set is a natural number.
LEMMA CardType ==
  ASSUME NEW S, IsFiniteSet(S)
  PROVE  Cardinality(S) \in Nat
  BY FS_CardinalityType

\* A set with a member is not counted as empty.
LEMMA CardNonEmpty ==
  ASSUME NEW S, IsFiniteSet(S), NEW x \in S
  PROVE  Cardinality(S) # 0
  BY FS_EmptySet

\* One more member counts one more.
LEMMA CardAdd ==
  ASSUME NEW S, IsFiniteSet(S), NEW x, x \notin S
  PROVE  Cardinality(S \cup {x}) = Cardinality(S) + 1
  BY FS_AddElement

\* One member less counts one less, if it was counted at all.
LEMMA CardRemove ==
  ASSUME NEW S, IsFiniteSet(S), NEW x
  PROVE  Cardinality(S \ {x}) = IF x \in S THEN Cardinality(S) - 1 ELSE Cardinality(S)
  BY FS_RemoveElement


WaitPlaces == {"waiting", "resumed", "timedup"}

\* The threads that the two waiter counts stand for.
EmptyWaiting == {t \in Threads : pc[t] \in WaitPlaces /\ op[t] \in Blocking}
FullWaiting  == {t \in Threads : pc[t] \in WaitPlaces /\ op[t] = "push"}

\* Who may be where: only blocking calls wait, only timed pops time out.
Placement ==
    /\ \A t \in not_empty : pc[t] = "waiting" /\ op[t] \in Blocking
    /\ \A t \in not_full : pc[t] = "waiting" /\ op[t] = "push"
    /\ \A t \in Threads : pc[t] = "timedup" => op[t] = "pop_timeout"
    /\ \A t \in Threads : pc[t] = "broadcast" => op[t] \in CtlOps

Counts ==
    /\ empty_waiters = Cardinality(EmptyWaiting)
    /\ full_waiters = Cardinality(FullWaiting)

IInv == TypeOK /\ Placement /\ Counts /\ NoLostWakeup /\ TermReachesEveryone

\* A ring index stays a slot of the ring.
LEMMA ModSlot == ASSUME NEW i \in Nat PROVE (i + 1) % Bounds \in Slots
  BY BoundsAssumption, SMTT(60) DEF Slots

\* A queue just created by switch_apr_queue_create satisfies the invariant.
THEOREM InitIInv == QueueInit => IInv
<1> SUFFICES ASSUME QueueInit PROVE IInv
  OBVIOUS
<1> USE DEF QueueInit
<1>1. TypeOK
  <2>1. data \in [Slots -> Values \cup {NULL}] /\ item \in [Threads -> Values \cup {NULL}]
    OBVIOUS
  <2>2. nelts \in 0 .. Bounds /\ in \in Slots /\ out \in Slots
    BY BoundsAssumption, SMTT(60) DEF Slots
  <2>3. /\ pc \in [Threads -> Places] /\ op \in [Threads -> Ops]
        /\ rv \in [Threads -> Statuses] /\ wokenBy \in [Threads -> Wakers]
    BY DEF Places, Ops, PopOps, PushOps, CtlOps, Statuses, Wakers
  <2> QED BY <2>1, <2>2, <2>3 DEF TypeOK
<1>2. Placement
  BY DEF Placement
<1>3. Counts
  <2>1. EmptyWaiting = {} /\ FullWaiting = {}
    BY DEF EmptyWaiting, FullWaiting, WaitPlaces
  <2> QED BY <2>1, FS_EmptySet DEF Counts
<1>4. NoLostWakeup /\ TermReachesEveryone
  BY DEF NoLostWakeup, TermReachesEveryone
<1> QED BY <1>1, <1>2, <1>3, <1>4 DEF IInv

-----------------------------------------------------------------------------
(* How the waiting sets change *)

\* The sets the bookkeeping counts are finite, whatever the state.
LEMMA Finiteness ==
  /\ IsFiniteSet(EmptyWaiting) /\ IsFiniteSet(FullWaiting)
  /\ IsFiniteSet(WokenPops) /\ IsFiniteSet(WokenPushes)
<1>1. /\ EmptyWaiting \subseteq Threads /\ FullWaiting \subseteq Threads
      /\ WokenPops \subseteq Threads /\ WokenPushes \subseteq Threads
  BY DEF EmptyWaiting, FullWaiting, WokenPops, WokenPushes
<1> QED BY <1>1, ThreadsAssumption, FS_Subset

\* A step of a thread that neither was nor becomes a waiter, and that leaves
\* the ring's count alone, leaves the wake-up bookkeeping alone.
LEMMA QuietStep ==
  ASSUME IInv, NEW t \in Threads, pc[t] \notin WaitPlaces,
         NEW p \in Places \ WaitPlaces,
         pc' = [pc EXCEPT ![t] = p],
         op' \in [Threads -> Ops], \A x \in Threads \ {t} : op'[x] = op[x],
         p = "broadcast" => op'[t] \in CtlOps,
         UNCHANGED <<waitVars, nelts>>
  PROVE  Placement' /\ Counts' /\ NoLostWakeup'
<1>0. /\ Placement /\ Counts /\ NoLostWakeup
      /\ pc \in [Threads -> Places] /\ not_empty \subseteq Threads /\ not_full \subseteq Threads
  BY DEF IInv, TypeOK
<1>1. /\ EmptyWaiting' = EmptyWaiting /\ FullWaiting' = FullWaiting
      /\ WokenPops' = WokenPops /\ WokenPushes' = WokenPushes
  BY <1>0 DEF EmptyWaiting, FullWaiting, WokenPops, WokenPushes, WaitPlaces
<1>2. Placement'
  BY <1>0 DEF Placement, WaitPlaces, waitVars
<1>3. Counts'
  BY <1>0, <1>1 DEF Counts, waitVars
<1>4. NoLostWakeup'
  BY <1>0, <1>1 DEF NoLostWakeup, waitVars
<1> QED BY <1>2, <1>3, <1>4

\* The same bookkeeping when t stores an element and signals not_empty.
LEMMA PutStep ==
  ASSUME IInv, NEW t \in Threads, Put(t),
         \/ pc[t] = "enter" /\ UNCHANGED full_waiters
         \/ pc[t] = "resumed" /\ op[t] = "push" /\ full_waiters' = full_waiters - 1,
         op[t] \in PushOps
  PROVE  Placement' /\ Counts' /\ NoLostWakeup'
<1>0. /\ Placement /\ Counts /\ NoLostWakeup
      /\ pc \in [Threads -> Places] /\ not_empty \subseteq Threads /\ not_full \subseteq Threads
      /\ nelts \in Nat
  BY BoundsAssumption, SMTT(60) DEF IInv, TypeOK
<1>1. PICK W \in Signalled(empty_waiters, not_empty) :
          not_empty' = not_empty \ W /\ Move(t, "idle", W, "signal")
  BY DEF Put
<1>2. /\ nelts' = nelts + 1
      /\ UNCHANGED <<not_full, empty_waiters, op>>
  BY DEF Put
<1>3. W \subseteq not_empty
  BY <1>1 DEF Signalled
<1>4. pc' = [x \in Threads |-> IF x = t THEN "idle" ELSE IF x \in W THEN "resumed" ELSE pc[x]]
  BY <1>1 DEF Move
<1>5. /\ t \notin W /\ t \notin not_empty /\ t \notin not_full
      /\ \A x \in W : x \in Threads /\ pc[x] = "waiting" /\ op[x] \in Blocking
  BY <1>0, <1>3 DEF Placement
<1>6. /\ EmptyWaiting' = EmptyWaiting /\ FullWaiting' = FullWaiting \ {t}
      /\ WokenPops' = WokenPops \cup W /\ WokenPushes' = WokenPushes \ {t}
  BY <1>0, <1>2, <1>4, <1>5
     DEF EmptyWaiting, FullWaiting, WokenPops, WokenPushes, WaitPlaces, Blocking, PushOps
<1>7. t \in FullWaiting <=> pc[t] = "resumed"
  BY DEF FullWaiting, WaitPlaces
<1>8. Placement'
  <2>1. \A x \in Threads \ {t} : x \notin W => pc'[x] = pc[x]
    BY <1>4
  <2>2. pc'[t] = "idle" /\ \A x \in W : pc'[x] = "resumed"
    BY <1>4, <1>5
  <2>3. \A x \in not_empty' : pc'[x] = "waiting" /\ op'[x] \in Blocking
    BY <1>0, <1>1, <1>2, <1>5, <2>1 DEF Placement
  <2>4. \A x \in not_full' : pc'[x] = "waiting" /\ op'[x] = "push"
    BY <1>0, <1>2, <1>5, <2>1 DEF Placement, Blocking
  <2>5. \A x \in Threads : pc'[x] \in {"timedup", "broadcast"} => pc'[x] = pc[x]
    BY <2>1, <2>2
  <2> QED BY <1>0, <1>2, <2>3, <2>4, <2>5 DEF Placement
<1>9. Counts'
  <2>1. Cardinality(FullWaiting \ {t}) =
            IF t \in FullWaiting THEN Cardinality(FullWaiting) - 1 ELSE Cardinality(FullWaiting)
    BY Finiteness, CardRemove
  <2> QED BY <1>0, <1>2, <1>6, <1>7, <2>1 DEF Counts
<1>10. not_empty' # {} => nelts' <= Cardinality(WokenPops')
  <2> SUFFICES ASSUME not_empty' # {} PROVE nelts' <= Cardinality(WokenPops')
    OBVIOUS
  <2>1. PICK y \in not_empty : TRUE
    BY <1>1
  <2>2. y \in EmptyWaiting
    BY <1>0, <2>1 DEF EmptyWaiting, Placement, WaitPlaces
  <2>3. Cardinality(EmptyWaiting) # 0 /\ Cardinality(EmptyWaiting) \in Nat
    BY <2>2, Finiteness, CardNonEmpty, CardType
  <2>4. empty_waiters > 0
    BY <1>0, <2>3, SMTT(60) DEF Counts
  <2>5. PICK w \in not_empty : W = {w}
    BY <1>1, <2>1, <2>4 DEF Signalled
  <2>6. w \notin WokenPops
    BY <1>0, <2>5 DEF WokenPops, Placement
  <2>7. Cardinality(WokenPops') = Cardinality(WokenPops) + 1
    BY <1>6, <2>5, <2>6, Finiteness, CardAdd
  <2>8. nelts <= Cardinality(WokenPops) /\ Cardinality(WokenPops) \in Nat
    BY <1>0, <2>1, Finiteness, CardType DEF NoLostWakeup
  <2> QED BY <1>0, <1>2, <2>7, <2>8, SMTT(60)
<1>11. not_full' # {} => Bounds - nelts' <= Cardinality(WokenPushes')
  <2>1. Cardinality(WokenPushes) \in Nat
    BY Finiteness, CardType
  <2>2. Cardinality(WokenPushes \ {t}) =
            IF t \in WokenPushes THEN Cardinality(WokenPushes) - 1 ELSE Cardinality(WokenPushes)
    BY Finiteness, CardRemove
  <2> QED BY <1>0, <1>2, <1>6, <2>1, <2>2, BoundsAssumption, SMTT(60) DEF NoLostWakeup
<1> QED BY <1>8, <1>9, <1>10, <1>11 DEF NoLostWakeup
\* The same bookkeeping when t fetches an element and signals not_full.
LEMMA TakeStep ==
  ASSUME IInv, NEW t \in Threads, Take(t),
         \/ pc[t] = "enter" /\ UNCHANGED empty_waiters
         \/ pc[t] = "resumed" /\ op[t] \in Blocking /\ empty_waiters' = empty_waiters - 1,
         op[t] \in PopOps
  PROVE  Placement' /\ Counts' /\ NoLostWakeup'
<1>0. /\ Placement /\ Counts /\ NoLostWakeup
      /\ pc \in [Threads -> Places] /\ not_full \subseteq Threads /\ not_empty \subseteq Threads
      /\ nelts \in Nat
  BY BoundsAssumption, SMTT(60) DEF IInv, TypeOK
<1>1. PICK W \in Signalled(full_waiters, not_full) :
          not_full' = not_full \ W /\ Move(t, "idle", W, "signal")
  BY DEF Take
<1>2. /\ nelts' = nelts - 1
      /\ UNCHANGED <<not_empty, full_waiters, op>>
  BY DEF Take
<1>3. W \subseteq not_full
  BY <1>1 DEF Signalled
<1>4. pc' = [x \in Threads |-> IF x = t THEN "idle" ELSE IF x \in W THEN "resumed" ELSE pc[x]]
  BY <1>1 DEF Move
<1>5. /\ t \notin W /\ t \notin not_full /\ t \notin not_empty
      /\ \A x \in W : x \in Threads /\ pc[x] = "waiting" /\ op[x] = "push"
  BY <1>0, <1>3 DEF Placement
<1>6. /\ FullWaiting' = FullWaiting /\ EmptyWaiting' = EmptyWaiting \ {t}
      /\ WokenPushes' = WokenPushes \cup W /\ WokenPops' = WokenPops \ {t}
  BY <1>0, <1>2, <1>4, <1>5
     DEF FullWaiting, EmptyWaiting, WokenPushes, WokenPops, WaitPlaces, Blocking, PopOps
<1>7. t \in EmptyWaiting <=> pc[t] = "resumed"
  BY DEF EmptyWaiting, WaitPlaces
<1>8. Placement'
  <2>1. \A x \in Threads \ {t} : x \notin W => pc'[x] = pc[x]
    BY <1>4
  <2>2. pc'[t] = "idle" /\ \A x \in W : pc'[x] = "resumed"
    BY <1>4, <1>5
  <2>3. \A x \in not_full' : pc'[x] = "waiting" /\ op'[x] = "push"
    BY <1>0, <1>1, <1>2, <1>5, <2>1 DEF Placement
  <2>4. \A x \in not_empty' : pc'[x] = "waiting" /\ op'[x] \in Blocking
    BY <1>0, <1>2, <1>5, <2>1 DEF Placement, Blocking
  <2>5. \A x \in Threads : pc'[x] \in {"timedup", "broadcast"} => pc'[x] = pc[x]
    BY <2>1, <2>2
  <2> QED BY <1>0, <1>2, <2>3, <2>4, <2>5 DEF Placement
<1>9. Counts'
  <2>1. Cardinality(EmptyWaiting \ {t}) =
            IF t \in EmptyWaiting THEN Cardinality(EmptyWaiting) - 1 ELSE Cardinality(EmptyWaiting)
    BY Finiteness, CardRemove
  <2> QED BY <1>0, <1>2, <1>6, <1>7, <2>1 DEF Counts
<1>10. not_full' # {} => Bounds - nelts' <= Cardinality(WokenPushes')
  <2> SUFFICES ASSUME not_full' # {} PROVE Bounds - nelts' <= Cardinality(WokenPushes')
    OBVIOUS
  <2>1. PICK y \in not_full : TRUE
    BY <1>1
  <2>2. y \in FullWaiting
    BY <1>0, <2>1 DEF FullWaiting, Placement, WaitPlaces
  <2>3. Cardinality(FullWaiting) # 0 /\ Cardinality(FullWaiting) \in Nat
    BY <2>2, Finiteness, CardNonEmpty, CardType
  <2>4. full_waiters > 0
    BY <1>0, <2>3, SMTT(60) DEF Counts
  <2>5. PICK w \in not_full : W = {w}
    BY <1>1, <2>1, <2>4 DEF Signalled
  <2>6. w \notin WokenPushes
    BY <1>0, <2>5 DEF WokenPushes, Placement
  <2>7. Cardinality(WokenPushes') = Cardinality(WokenPushes) + 1
    BY <1>6, <2>5, <2>6, Finiteness, CardAdd
  <2>8. Bounds - nelts <= Cardinality(WokenPushes) /\ Cardinality(WokenPushes) \in Nat
    BY <1>0, <2>1, Finiteness, CardType DEF NoLostWakeup
  <2> QED BY <1>0, <1>2, <2>7, <2>8, BoundsAssumption, SMTT(60)
<1>11. not_empty' # {} => nelts' <= Cardinality(WokenPops')
  <2>1. Cardinality(WokenPops) \in Nat
    BY Finiteness, CardType
  <2>2. Cardinality(WokenPops \ {t}) =
            IF t \in WokenPops THEN Cardinality(WokenPops) - 1 ELSE Cardinality(WokenPops)
    BY Finiteness, CardRemove
  <2> QED BY <1>0, <1>2, <1>6, <2>1, <2>2, SMTT(60) DEF NoLostWakeup
<1> QED BY <1>8, <1>9, <1>10, <1>11 DEF NoLostWakeup

\* A thread starts to wait on an empty (full) ring.
LEMMA WaitStep ==
  ASSUME IInv, NEW t \in Threads, pc[t] = "enter",
         \/ op[t] \in Blocking /\ nelts = 0 /\ WaitNotEmpty(t)
         \/ op[t] = "push" /\ nelts = Bounds /\ WaitNotFull(t)
  PROVE  Placement' /\ Counts' /\ NoLostWakeup'
<1>0. /\ Placement /\ Counts /\ NoLostWakeup
      /\ pc \in [Threads -> Places] /\ not_empty \subseteq Threads /\ not_full \subseteq Threads
  BY DEF IInv, TypeOK
<1>1. pc' = [pc EXCEPT ![t] = "waiting"] /\ UNCHANGED <<op, nelts>>
  BY DEF WaitNotEmpty, WaitNotFull, Goto, ringVars
<1>2. WokenPops' = WokenPops /\ WokenPushes' = WokenPushes
  BY <1>0, <1>1 DEF WokenPops, WokenPushes
<1>3. Placement'
  BY <1>0, <1>1 DEF Placement, WaitNotEmpty, WaitNotFull
<1>4. t \notin EmptyWaiting /\ t \notin FullWaiting
  BY DEF EmptyWaiting, FullWaiting, WaitPlaces
<1>5. Cardinality(EmptyWaiting \cup {t}) = Cardinality(EmptyWaiting) + 1
  BY <1>4, Finiteness, CardAdd
<1>6. Cardinality(FullWaiting \cup {t}) = Cardinality(FullWaiting) + 1
  BY <1>4, Finiteness, CardAdd
<1>7. Cardinality(WokenPops) \in Nat /\ Cardinality(WokenPushes) \in Nat
  BY Finiteness, CardType
<1>8. CASE op[t] \in Blocking /\ nelts = 0 /\ WaitNotEmpty(t)
  <2>1. EmptyWaiting' = EmptyWaiting \cup {t} /\ FullWaiting' = FullWaiting
    BY <1>0, <1>1, <1>8 DEF EmptyWaiting, FullWaiting, WaitPlaces, Blocking
  <2>2. Counts'
    BY <1>0, <1>5, <1>8, <2>1 DEF Counts, WaitNotEmpty
  <2>3. NoLostWakeup'
    BY <1>0, <1>1, <1>2, <1>7, <1>8, SMTT(60) DEF NoLostWakeup, WaitNotEmpty
  <2> QED BY <1>3, <2>2, <2>3
<1>9. CASE op[t] = "push" /\ nelts = Bounds /\ WaitNotFull(t)
  <2>1. FullWaiting' = FullWaiting \cup {t} /\ EmptyWaiting' = EmptyWaiting
    BY <1>0, <1>1, <1>9 DEF EmptyWaiting, FullWaiting, WaitPlaces, Blocking
  <2>2. Counts'
    BY <1>0, <1>6, <1>9, <2>1 DEF Counts, WaitNotFull
  <2>3. NoLostWakeup'
    <3>1. nelts' = Bounds /\ not_empty' = not_empty /\ Bounds \in Nat
      BY <1>1, <1>9, BoundsAssumption DEF WaitNotFull
    <3> QED BY <1>0, <1>2, <1>7, <1>9, <3>1, SMTT(60) DEF NoLostWakeup
  <2> QED BY <1>3, <2>2, <2>3
<1> QED BY <1>8, <1>9

\* A waiter leaves with nothing: its wait timed out, or it was woken and found
\* the ring still empty (full).
LEMMA LeaveStep ==
  ASSUME IInv, NEW t \in Threads, NEW p \in {"idle", "interrupted"},
         pc' = [pc EXCEPT ![t] = p], UNCHANGED <<op, nelts, not_empty, not_full>>,
         \/ /\ op[t] \in Blocking
            /\ pc[t] = "timedup" \/ (pc[t] = "resumed" /\ nelts = 0)
            /\ empty_waiters' = empty_waiters - 1 /\ UNCHANGED full_waiters
         \/ /\ op[t] = "push" /\ pc[t] = "resumed" /\ nelts = Bounds
            /\ full_waiters' = full_waiters - 1 /\ UNCHANGED empty_waiters
  PROVE  Placement' /\ Counts' /\ NoLostWakeup'
<1>0. /\ Placement /\ Counts /\ NoLostWakeup
      /\ pc \in [Threads -> Places] /\ not_empty \subseteq Threads /\ not_full \subseteq Threads
  BY DEF IInv, TypeOK
<1>1. Placement'
  BY <1>0 DEF Placement
<1>2. /\ EmptyWaiting' = EmptyWaiting \ {t} /\ FullWaiting' = FullWaiting \ {t}
      /\ WokenPops' = WokenPops \ {t} /\ WokenPushes' = WokenPushes \ {t}
  BY <1>0 DEF EmptyWaiting, FullWaiting, WokenPops, WokenPushes, WaitPlaces
<1>3. Counts'
  <2>1. Cardinality(EmptyWaiting \ {t}) =
            IF t \in EmptyWaiting THEN Cardinality(EmptyWaiting) - 1 ELSE Cardinality(EmptyWaiting)
    BY Finiteness, CardRemove
  <2>2. Cardinality(FullWaiting \ {t}) =
            IF t \in FullWaiting THEN Cardinality(FullWaiting) - 1 ELSE Cardinality(FullWaiting)
    BY Finiteness, CardRemove
  <2>3. /\ t \in EmptyWaiting <=> op[t] \in Blocking
        /\ t \in FullWaiting <=> op[t] = "push"
    BY DEF EmptyWaiting, FullWaiting, WaitPlaces
  <2>4. "push" \notin Blocking
    BY DEF Blocking
  <2> QED BY <1>0, <1>2, <2>1, <2>2, <2>3, <2>4 DEF Counts
<1>4. NoLostWakeup'
  <2>1. Cardinality(WokenPops) \in Nat /\ Cardinality(WokenPushes) \in Nat
    BY Finiteness, CardType
  <2>2. Cardinality(WokenPops \ {t}) =
            IF t \in WokenPops THEN Cardinality(WokenPops) - 1 ELSE Cardinality(WokenPops)
    BY Finiteness, CardRemove
  <2>3. Cardinality(WokenPushes \ {t}) =
            IF t \in WokenPushes THEN Cardinality(WokenPushes) - 1 ELSE Cardinality(WokenPushes)
    BY Finiteness, CardRemove
  <2>4. /\ t \in WokenPops => nelts = 0 /\ op[t] # "push"
        /\ t \in WokenPushes => nelts = Bounds
    BY DEF WokenPops, WokenPushes, Blocking
  <2>5. /\ t \in WokenPops => Cardinality(WokenPops) # 0
        /\ t \in WokenPushes => Cardinality(WokenPushes) # 0
    BY Finiteness, CardNonEmpty
  <2> QED BY <1>0, <1>2, <2>1, <2>2, <2>3, <2>4, <2>5, BoundsAssumption, SMTT(60) DEF NoLostWakeup
<1> QED BY <1>1, <1>3, <1>4

\* The condition variables release waiters: by timeout, spuriously or by a
\* broadcast.
LEMMA ReleaseStep ==
  ASSUME IInv, NEW t \in Threads, Timeout(t) \/ Spurious(t) \/ Broadcast(t)
  PROVE  Placement' /\ Counts' /\ NoLostWakeup'
<1>0. /\ Placement /\ Counts /\ NoLostWakeup
      /\ pc \in [Threads -> Places] /\ not_empty \subseteq Threads /\ not_full \subseteq Threads
      /\ nelts \in Nat
  BY BoundsAssumption, SMTT(60) DEF IInv, TypeOK
<1>1. CASE Timeout(t)
  <2>1. /\ pc' = [pc EXCEPT ![t] = "timedup"] /\ not_empty' = not_empty \ {t}
        /\ UNCHANGED <<op, nelts, not_full, empty_waiters, full_waiters>>
        /\ t \in not_empty /\ op[t] = "pop_timeout"
    BY <1>1 DEF Timeout, Goto, ringVars
  <2>2. /\ EmptyWaiting' = EmptyWaiting /\ FullWaiting' = FullWaiting
        /\ WokenPops' = WokenPops /\ WokenPushes' = WokenPushes
    BY <1>0, <2>1 DEF EmptyWaiting, FullWaiting, WokenPops, WokenPushes, WaitPlaces, Placement
  <2>3. Placement'
    BY <1>0, <2>1 DEF Placement
  <2>4. Counts' /\ NoLostWakeup'
    BY <1>0, <2>1, <2>2 DEF Counts, NoLostWakeup
  <2> QED BY <2>3, <2>4
<1>2. CASE Spurious(t)
  <2>1. /\ pc' = [pc EXCEPT ![t] = "resumed"]
        /\ not_empty' = not_empty \ {t} /\ not_full' = not_full \ {t}
        /\ UNCHANGED <<op, nelts, empty_waiters, full_waiters>>
        /\ t \in not_empty \/ t \in not_full
    BY <1>2 DEF Spurious, ringVars
  <2>2. EmptyWaiting' = EmptyWaiting /\ FullWaiting' = FullWaiting
    BY <1>0, <2>1 DEF EmptyWaiting, FullWaiting, WaitPlaces, Placement
  <2>3. Placement'
    BY <1>0, <2>1 DEF Placement
  <2>4. Counts'
    BY <1>0, <2>1, <2>2 DEF Counts
  <2>5. t \notin WokenPops /\ t \notin WokenPushes
    BY <1>0, <2>1 DEF WokenPops, WokenPushes, Placement
  <2>6. /\ Cardinality(WokenPops \cup {t}) = Cardinality(WokenPops) + 1
        /\ Cardinality(WokenPushes \cup {t}) = Cardinality(WokenPushes) + 1
    BY <2>5, Finiteness, CardAdd
  <2>7. Cardinality(WokenPops) \in Nat /\ Cardinality(WokenPushes) \in Nat
    BY Finiteness, CardType
  <2>8. WokenPops' \in {WokenPops, WokenPops \cup {t}}
    BY <1>0, <2>1 DEF WokenPops
  <2>9. WokenPushes' \in {WokenPushes, WokenPushes \cup {t}}
    BY <1>0, <2>1 DEF WokenPushes
  <2>10. Cardinality(WokenPops') \in {Cardinality(WokenPops), Cardinality(WokenPops) + 1}
    BY <2>6, <2>8
  <2>11. Cardinality(WokenPushes') \in {Cardinality(WokenPushes), Cardinality(WokenPushes) + 1}
    BY <2>6, <2>9
  <2>12. not_empty' # {} => nelts' <= Cardinality(WokenPops')
    BY <1>0, <2>1, <2>7, <2>10, SMTT(60) DEF NoLostWakeup
  <2>13. not_full' # {} => Bounds - nelts' <= Cardinality(WokenPushes')
    BY <1>0, <2>1, <2>7, <2>11, BoundsAssumption, SMTT(60) DEF NoLostWakeup
  <2> QED BY <2>3, <2>4, <2>12, <2>13 DEF NoLostWakeup
<1>3. CASE Broadcast(t)
  <2> DEFINE W == not_empty \cup not_full
  <2>1. /\ pc' = [x \in Threads |-> IF x = t THEN "idle" ELSE IF x \in W THEN "resumed" ELSE pc[x]]
        /\ not_empty' = {} /\ not_full' = {}
        /\ UNCHANGED <<op, empty_waiters, full_waiters>>
        /\ pc[t] = "broadcast"
    BY <1>3 DEF Broadcast, Move
  <2>2. \A x \in W : x \in Threads /\ pc[x] = "waiting"
    BY <1>0 DEF Placement
  <2>3. EmptyWaiting' = EmptyWaiting /\ FullWaiting' = FullWaiting
    BY <1>0, <2>1, <2>2 DEF EmptyWaiting, FullWaiting, WaitPlaces
  <2>4. \A x \in Threads : pc'[x] \in {"timedup", "broadcast"} => pc'[x] = pc[x]
    BY <2>1
  <2>5. Placement'
    BY <1>0, <2>1, <2>4 DEF Placement
  <2>6. Counts' /\ NoLostWakeup'
    BY <1>0, <2>1, <2>3 DEF Counts, NoLostWakeup
  <2> QED BY <2>5, <2>6
<1> QED BY <1>1, <1>2, <1>3

-----------------------------------------------------------------------------
(* Every step of the queue preserves the inductive invariant *)

\* Each kind of step keeps the wake-up bookkeeping.
LEMMA BookkeepingStep ==
  ASSUME IInv, [QueueNext]_queueVars
  PROVE  Placement' /\ Counts' /\ NoLostWakeup'
<1>0. /\ Placement /\ Counts /\ NoLostWakeup
      /\ pc \in [Threads -> Places] /\ op \in [Threads -> Ops]
  BY DEF IInv, TypeOK
<1>1. CASE UNCHANGED queueVars
  BY <1>0, <1>1 DEF queueVars, ringVars, waitVars, callVars, Placement, Counts, NoLostWakeup,
     EmptyWaiting, FullWaiting, WokenPops, WokenPushes
<1>2. ASSUME NEW t \in Threads, NEW o \in Ops, NEW v, Call(t, o, v)
      PROVE  Placement' /\ Counts' /\ NoLostWakeup'
  <2> DEFINE p == IF o = "interrupt_all" THEN "broadcast"
                  ELSE IF o = "term" THEN "enter" ELSE "called"
  <2>1. p \in Places \ WaitPlaces /\ pc[t] \notin WaitPlaces
    BY <1>2 DEF Places, WaitPlaces, Call
  <2>2. /\ pc' = [pc EXCEPT ![t] = p] /\ op' = [op EXCEPT ![t] = o]
        /\ UNCHANGED <<waitVars, nelts>>
    BY <1>2 DEF Call, ringVars
  <2>3. p = "broadcast" => op'[t] \in CtlOps
    BY <1>0, <2>2 DEF CtlOps
  <2>4. op' \in [Threads -> Ops] /\ \A x \in Threads \ {t} : op'[x] = op[x]
    BY <1>0, <2>2
  <2> HIDE DEF p
  <2> QED BY <2>1, <2>2, <2>3, <2>4, QuietStep
<1>3. ASSUME NEW t \in Threads, pc[t] \notin WaitPlaces, NEW p \in Places \ WaitPlaces,
             Goto(t, p), UNCHANGED <<waitVars, nelts, op>>,
             p = "broadcast" => op[t] \in CtlOps
      PROVE  Placement' /\ Counts' /\ NoLostWakeup'
  BY <1>0, <1>3, QuietStep DEF Goto
<1>4. ASSUME NEW t \in Threads, Check(t) \/ Interrupted(t) \/ SetTerminated(t)
      PROVE  Placement' /\ Counts' /\ NoLostWakeup'
  <2>1. PICK p \in {"idle", "enter", "called", "broadcast"} :
            Goto(t, p) /\ (p = "broadcast" => op[t] \in CtlOps)
    BY <1>4 DEF Check, Interrupted, SetTerminated, ReturnFailure, CtlOps
  <2>2. UNCHANGED <<waitVars, nelts, op>>
    BY <1>4 DEF Check, Interrupted, SetTerminated, ReturnFailure, ringVars
  <2>3. pc[t] \notin WaitPlaces
    BY <1>4 DEF Check, Interrupted, SetTerminated, WaitPlaces
  <2>4. p \in Places \ WaitPlaces
    BY <2>1 DEF Places, WaitPlaces
  <2> QED BY <1>3, <2>1, <2>2, <2>3, <2>4
<1>5. ASSUME NEW t \in Threads, Enter(t)
      PROVE  Placement' /\ Counts' /\ NoLostWakeup'
  <2>1. pc[t] = "enter"
    BY <1>5 DEF Enter
  <2>2. CASE op[t] \in PushOps /\ Put(t) /\ UNCHANGED full_waiters
    BY <2>1, <2>2, PutStep
  <2>3. CASE op[t] \in PopOps /\ Take(t) /\ UNCHANGED empty_waiters
    BY <2>1, <2>3, TakeStep
  <2>4. CASE \/ op[t] \in Blocking /\ nelts = 0 /\ WaitNotEmpty(t)
             \/ op[t] = "push" /\ nelts = Bounds /\ WaitNotFull(t)
    BY <2>1, <2>4, WaitStep
  <2>5. CASE GiveUp(t) /\ UNCHANGED waitVars
    BY <1>3, <2>1, <2>5 DEF GiveUp, ringVars, Places, WaitPlaces
  <2>6. CASE ReturnFailure(t, "EAGAIN") /\ UNCHANGED waitVars
    BY <1>3, <2>1, <2>6 DEF ReturnFailure, ringVars, Places, WaitPlaces
  <2> QED
    BY <1>5, <2>2, <2>3, <2>4, <2>5, <2>6
    DEF Enter, EnterPush, EnterTrypush, EnterPop, EnterTrypop, PushOps, PopOps, Blocking,
        apr_queue_full, apr_queue_empty
<1>6. ASSUME NEW t \in Threads, Resume(t)
      PROVE  Placement' /\ Counts' /\ NoLostWakeup'
  <2>1. pc[t] = "resumed"
    BY <1>6 DEF Resume
  <2>2. CASE op[t] = "push" /\ Put(t) /\ full_waiters' = full_waiters - 1
    BY <2>1, <2>2, PutStep DEF PushOps
  <2>3. CASE op[t] \in Blocking /\ Take(t) /\ empty_waiters' = empty_waiters - 1
    BY <2>1, <2>3, TakeStep DEF PopOps, Blocking
  <2>4. CASE /\ op[t] = "push" /\ nelts = Bounds /\ full_waiters' = full_waiters - 1
             /\ GiveUp(t) /\ UNCHANGED <<empty_waiters, not_empty, not_full>>
    BY <2>1, <2>4, LeaveStep DEF GiveUp, Goto, ringVars
  <2>5. CASE /\ op[t] \in Blocking /\ nelts = 0 /\ empty_waiters' = empty_waiters - 1
             /\ GiveUp(t) /\ UNCHANGED <<full_waiters, not_empty, not_full>>
    BY <2>1, <2>5, LeaveStep DEF GiveUp, Goto, ringVars
  <2> QED
    BY <1>6, <2>2, <2>3, <2>4, <2>5
    DEF Resume, ResumePush, ResumePop, Blocking, apr_queue_full, apr_queue_empty
<1>7. ASSUME NEW t \in Threads, TimedUp(t)
      PROVE  Placement' /\ Counts' /\ NoLostWakeup'
  <2>1. pc[t] = "timedup" /\ op[t] \in Blocking
    BY <1>0, <1>7 DEF TimedUp, Placement, Blocking
  <2>2. /\ pc' = [pc EXCEPT ![t] = "idle"] /\ UNCHANGED <<op, nelts, not_empty, not_full>>
        /\ empty_waiters' = empty_waiters - 1 /\ UNCHANGED full_waiters
    BY <1>7 DEF TimedUp, ReturnFailure, Goto, ringVars
  <2> DEFINE p == "idle"
  <2>3. p \in {"idle", "interrupted"} /\ pc' = [pc EXCEPT ![t] = p]
    BY <2>2
  <2> HIDE DEF p
  <2> QED BY <2>1, <2>2, <2>3, LeaveStep
<1>8. ASSUME NEW t \in Threads, Timeout(t) \/ Spurious(t) \/ Broadcast(t)
      PROVE  Placement' /\ Counts' /\ NoLostWakeup'
  BY <1>8, ReleaseStep
<1> QED BY <1>1, <1>2, <1>4, <1>5, <1>6, <1>7, <1>8 DEF QueueNext, Invoke, Proceed, Ops

\* Storing and fetching stay inside the ring.
LEMMA RingTypes ==
  ASSUME TypeOK, NEW t \in Threads,
         \/ Put(t) /\ nelts # Bounds
         \/ Take(t) /\ nelts # 0
  PROVE  /\ data' \in [Slots -> Values \cup {NULL}]
         /\ nelts' \in 0 .. Bounds /\ in' \in Slots /\ out' \in Slots
         /\ not_empty' \subseteq Threads /\ not_full' \subseteq Threads
         /\ pc' \in [Threads -> Places] /\ op' \in [Threads -> Ops]
         /\ item' \in [Threads -> Values \cup {NULL}]
         /\ rv' \in [Threads -> Statuses] /\ wokenBy' \in [Threads -> Wakers]
<1>0. in \in Nat /\ out \in Nat
  BY BoundsAssumption, SMTT(60) DEF TypeOK, Slots
<1>1. ASSUME NEW W, Move(t, "idle", W, "signal")
      PROVE  pc' \in [Threads -> Places] /\ wokenBy' \in [Threads -> Wakers]
  BY <1>1 DEF Move, TypeOK, Places, Wakers
<1>2. CASE Put(t) /\ nelts # Bounds
  <2>1. nelts' \in 0 .. Bounds /\ in' \in Slots /\ out' = out
    BY <1>0, <1>2, ModSlot, BoundsAssumption, SMTT(60) DEF Put, TypeOK
  <2>2. /\ data' \in [Slots -> Values \cup {NULL}] /\ item' \in [Threads -> Values \cup {NULL}]
        /\ rv' \in [Threads -> Statuses] /\ op' = op /\ not_full' = not_full
        /\ not_empty' \subseteq Threads
    BY <1>2 DEF Put, TypeOK, Statuses
  <2>3. pc' \in [Threads -> Places] /\ wokenBy' \in [Threads -> Wakers]
    BY <1>1, <1>2 DEF Put
  <2> QED BY <2>1, <2>2, <2>3 DEF TypeOK
<1>3. CASE Take(t) /\ nelts # 0
  <2>1. nelts' \in 0 .. Bounds /\ out' \in Slots /\ in' = in /\ data' = data
    BY <1>0, <1>3, ModSlot, BoundsAssumption, SMTT(60) DEF Take, TypeOK
  <2>2. /\ item' \in [Threads -> Values \cup {NULL}]
        /\ rv' \in [Threads -> Statuses] /\ op' = op /\ not_empty' = not_empty
        /\ not_full' \subseteq Threads
    BY <1>3 DEF Take, TypeOK, Statuses
  <2>3. pc' \in [Threads -> Places] /\ wokenBy' \in [Threads -> Wakers]
    BY <1>1, <1>3 DEF Take
  <2> QED BY <2>1, <2>2, <2>3 DEF TypeOK
<1> QED BY <1>2, <1>3

\* The waiter counts never go below zero: who decrements one is counted in it.
LEMMA CountTypes ==
  ASSUME IInv, NEW t \in Threads
  PROVE  /\ empty_waiters + 1 \in Nat /\ full_waiters + 1 \in Nat
         /\ t \in EmptyWaiting => empty_waiters - 1 \in Nat
         /\ t \in FullWaiting => full_waiters - 1 \in Nat
<1>1. empty_waiters \in Nat /\ full_waiters \in Nat
  BY DEF IInv, TypeOK
<1>2. t \in EmptyWaiting => empty_waiters # 0
  BY Finiteness, CardNonEmpty DEF IInv, Counts
<1>3. t \in FullWaiting => full_waiters # 0
  BY Finiteness, CardNonEmpty DEF IInv, Counts
<1> QED BY <1>1, <1>2, <1>3, SMTT(60)

\* A step that leaves the ring alone and only moves t keeps the types.
LEMMA GotoTypes ==
  ASSUME TypeOK, NEW t \in Threads, NEW p \in Places, Goto(t, p),
         UNCHANGED <<ringVars, op>>, terminated' \in BOOLEAN,
         \/ UNCHANGED <<item, rv>>
         \/ /\ item' = [item EXCEPT ![t] = NULL]
            /\ \E x \in Statuses : rv' = [rv EXCEPT ![t] = x],
         not_empty' \subseteq Threads, not_full' \subseteq Threads,
         empty_waiters' \in Nat, full_waiters' \in Nat
  PROVE  TypeOK'
<1>1. UNCHANGED <<data, nelts, in, out, op>>
  BY DEF ringVars
<1>2. pc' \in [Threads -> Places] /\ wokenBy' \in [Threads -> Wakers]
  BY DEF TypeOK, Goto
<1>3. item' \in [Threads -> Values \cup {NULL}] /\ rv' \in [Threads -> Statuses]
  BY DEF TypeOK
<1> QED BY <1>1, <1>2, <1>3 DEF TypeOK

\* Every call, resumption and release keeps indices and counters in range.
LEMMA TypeStep ==
  ASSUME IInv, [QueueNext]_queueVars
  PROVE  TypeOK'
<1>0. TypeOK /\ Placement
  BY DEF IInv
<1>1. CASE UNCHANGED queueVars
  BY <1>0, <1>1 DEF queueVars, ringVars, waitVars, callVars, TypeOK
<1>2. ASSUME NEW t \in Threads, NEW o \in Ops, NEW v \in Values \cup {NULL}, Call(t, o, v)
      PROVE  TypeOK'
  <2>1. UNCHANGED <<data, nelts, in, out, full_waiters, empty_waiters, not_empty, not_full, terminated>>
    BY <1>2 DEF Call, ringVars, waitVars
  <2>2. /\ pc' \in [Threads -> Places] /\ op' \in [Threads -> Ops]
        /\ item' \in [Threads -> Values \cup {NULL}]
        /\ rv' \in [Threads -> Statuses] /\ wokenBy' \in [Threads -> Wakers]
    BY <1>0, <1>2 DEF Call, TypeOK, Places, Statuses, Wakers
  <2> QED BY <1>0, <2>1, <2>2 DEF TypeOK
<1>3. ASSUME NEW t \in Threads, NEW p \in Places, Goto(t, p), UNCHANGED <<ringVars, op, item, rv>>,
             terminated' \in BOOLEAN, UNCHANGED waitVars
      PROVE  TypeOK'
  BY <1>0, <1>3, GotoTypes DEF waitVars, TypeOK
<1>4. ASSUME NEW t \in Threads, NEW x \in Statuses, ReturnFailure(t, x),
             UNCHANGED terminated, UNCHANGED waitVars
      PROVE  TypeOK'
  <2>1. /\ terminated' \in BOOLEAN /\ not_empty' \subseteq Threads /\ not_full' \subseteq Threads
        /\ empty_waiters' \in Nat /\ full_waiters' \in Nat
    BY <1>0, <1>4 DEF waitVars, TypeOK
  <2>2. /\ Goto(t, "idle") /\ UNCHANGED <<ringVars, op>> /\ item' = [item EXCEPT ![t] = NULL]
        /\ rv' = [rv EXCEPT ![t] = x]
    BY <1>4 DEF ReturnFailure
  <2>3. "idle" \in Places
    BY DEF Places
  <2> QED BY <1>0, <2>1, <2>2, <2>3, GotoTypes
<1>5. ASSUME NEW t \in Threads, Check(t) \/ Interrupted(t)
      PROVE  TypeOK'
  <2>1. terminated' = terminated /\ UNCHANGED waitVars /\ terminated' \in BOOLEAN
    BY <1>0, <1>5 DEF Check, Interrupted, TypeOK
  <2>2. CASE ReturnFailure(t, "EOF") \/ ReturnFailure(t, "EINTR")
    BY <1>4, <2>1, <2>2 DEF Statuses
  <2>3. CASE (Goto(t, "enter") \/ Goto(t, "called")) /\ UNCHANGED <<ringVars, op, item, rv>>
    BY <1>3, <2>1, <2>3 DEF Places
  <2> QED BY <1>5, <2>2, <2>3 DEF Check, Interrupted
<1>6. ASSUME NEW t \in Threads, SetTerminated(t)
      PROVE  TypeOK'
  BY <1>3, <1>6 DEF SetTerminated, Places
<1>7. ASSUME NEW t \in Threads,
             \/ Put(t) /\ nelts # Bounds /\ empty_waiters' \in Nat /\ full_waiters' \in Nat
             \/ Take(t) /\ nelts # 0 /\ empty_waiters' \in Nat /\ full_waiters' \in Nat,
             UNCHANGED terminated
      PROVE  TypeOK'
  BY <1>0, <1>7, RingTypes DEF TypeOK
<1>8. ASSUME NEW t \in Threads, Enter(t)
      PROVE  TypeOK'
  <2>1. UNCHANGED terminated /\ terminated' \in BOOLEAN
    BY <1>0, <1>8 DEF Enter, TypeOK
  <2>2. CASE Put(t) /\ nelts # Bounds /\ UNCHANGED full_waiters
    BY <1>0, <1>7, <2>1, <2>2 DEF Put, TypeOK
  <2>3. CASE Take(t) /\ nelts # 0 /\ UNCHANGED empty_waiters
    BY <1>0, <1>7, <2>1, <2>3 DEF Take, TypeOK
  <2>4. CASE WaitNotEmpty(t) \/ WaitNotFull(t)
    <3>1. /\ Goto(t, "waiting") /\ UNCHANGED <<ringVars, op, item, rv>>
          /\ not_empty' \subseteq Threads /\ not_full' \subseteq Threads
          /\ empty_waiters' \in Nat /\ full_waiters' \in Nat
      BY <1>0, <2>4, SMTT(60) DEF WaitNotEmpty, WaitNotFull, TypeOK
    <3>2. "waiting" \in Places
      BY DEF Places
    <3> QED BY <1>0, <2>1, <3>1, <3>2, GotoTypes
  <2>5. CASE GiveUp(t) /\ UNCHANGED waitVars
    BY <1>3, <2>1, <2>5 DEF GiveUp, Places
  <2>6. CASE ReturnFailure(t, "EAGAIN") /\ UNCHANGED waitVars
    BY <1>4, <2>1, <2>6 DEF Statuses
  <2> QED
    BY <1>8, <2>2, <2>3, <2>4, <2>5, <2>6
    DEF Enter, EnterPush, EnterTrypush, EnterPop, EnterTrypop, apr_queue_full, apr_queue_empty
<1>9. ASSUME NEW t \in Threads, Resume(t)
      PROVE  TypeOK'
  <2>1. UNCHANGED terminated /\ terminated' \in BOOLEAN
    BY <1>0, <1>9 DEF Resume, TypeOK
  <2>2. /\ op[t] = "push" => t \in FullWaiting
        /\ op[t] \in Blocking => t \in EmptyWaiting
    BY <1>9 DEF Resume, FullWaiting, EmptyWaiting, WaitPlaces
  <2>3. /\ op[t] = "push" => full_waiters - 1 \in Nat
        /\ op[t] \in Blocking => empty_waiters - 1 \in Nat
    BY <2>2, CountTypes
  <2>4. CASE op[t] = "push" /\ Put(t) /\ nelts # Bounds /\ full_waiters' = full_waiters - 1
    BY <1>0, <1>7, <2>1, <2>3, <2>4 DEF Put, TypeOK
  <2>5. CASE op[t] \in Blocking /\ Take(t) /\ nelts # 0 /\ empty_waiters' = empty_waiters - 1
    BY <1>0, <1>7, <2>1, <2>3, <2>5 DEF Take, TypeOK
  <2>6. CASE /\ \/ op[t] = "push" /\ full_waiters' = full_waiters - 1 /\ UNCHANGED empty_waiters
                \/ op[t] \in Blocking /\ empty_waiters' = empty_waiters - 1 /\ UNCHANGED full_waiters
             /\ GiveUp(t) /\ UNCHANGED <<not_empty, not_full>>
    <3>1. /\ Goto(t, "interrupted") /\ UNCHANGED <<ringVars, op, item, rv>>
          /\ not_empty' \subseteq Threads /\ not_full' \subseteq Threads
          /\ empty_waiters' \in Nat /\ full_waiters' \in Nat
      BY <1>0, <2>3, <2>6 DEF GiveUp, TypeOK
    <3>2. "interrupted" \in Places
      BY DEF Places
    <3> QED BY <1>0, <2>1, <3>1, <3>2, GotoTypes
  <2> QED
    BY <1>9, <2>4, <2>5, <2>6
    DEF Resume, ResumePush, ResumePop, Blocking, apr_queue_full, apr_queue_empty
<1>10. ASSUME NEW t \in Threads, TimedUp(t)
       PROVE  TypeOK'
  <2>1. t \in EmptyWaiting
    BY <1>0, <1>10 DEF TimedUp, Placement, EmptyWaiting, WaitPlaces, Blocking
  <2>2. empty_waiters - 1 \in Nat
    BY <2>1, CountTypes
  <2>3. /\ Goto(t, "idle") /\ UNCHANGED <<ringVars, op>> /\ item' = [item EXCEPT ![t] = NULL]
        /\ rv' = [rv EXCEPT ![t] = "TIMEUP"] /\ terminated' \in BOOLEAN
        /\ not_empty' \subseteq Threads /\ not_full' \subseteq Threads
        /\ empty_waiters' \in Nat /\ full_waiters' \in Nat
    BY <1>0, <1>10, <2>2 DEF TimedUp, ReturnFailure, TypeOK
  <2>4. "idle" \in Places /\ "TIMEUP" \in Statuses
    BY DEF Places, Statuses
  <2> QED BY <1>0, <2>3, <2>4, GotoTypes
<1>11. ASSUME NEW t \in Threads, Timeout(t)
       PROVE  TypeOK'
  <2>1. /\ Goto(t, "timedup") /\ UNCHANGED <<ringVars, op, item, rv>> /\ terminated' \in BOOLEAN
        /\ not_empty' \subseteq Threads /\ not_full' \subseteq Threads
        /\ empty_waiters' \in Nat /\ full_waiters' \in Nat
    BY <1>0, <1>11 DEF Timeout, TypeOK
  <2>2. "timedup" \in Places
    BY DEF Places
  <2> QED BY <1>0, <2>1, <2>2, GotoTypes
<1>12. ASSUME NEW t \in Threads, Spurious(t) \/ Broadcast(t)
       PROVE  TypeOK'
  <2>1. /\ UNCHANGED <<data, nelts, in, out, full_waiters, empty_waiters, terminated, op, item>>
        /\ not_empty' \subseteq Threads /\ not_full' \subseteq Threads
    BY <1>0, <1>12 DEF Spurious, Broadcast, ringVars, TypeOK
  <2>2. /\ pc' \in [Threads -> Places] /\ wokenBy' \in [Threads -> Wakers]
        /\ rv' \in [Threads -> Statuses]
    BY <1>0, <1>12 DEF Spurious, Broadcast, Move, TypeOK, Places, Wakers, Statuses
  <2> QED BY <1>0, <2>1, <2>2 DEF TypeOK
<1> QED
  BY <1>1, <1>2, <1>5, <1>6, <1>8, <1>9, <1>10, <1>11, <1>12 DEF QueueNext, Invoke, Proceed, Ops

\* No step makes a thread wait once term has set the flag and broadcast.
LEMMA TermStep ==
  ASSUME IInv, [QueueNext]_queueVars
  PROVE  TermReachesEveryone'
<1>0. TypeOK /\ Placement /\ TermReachesEveryone
  BY DEF IInv
<1>1. ASSUME UNCHANGED terminated, not_empty' \subseteq not_empty, not_full' \subseteq not_full,
             \A x \in Threads : pc[x] = "broadcast" => pc'[x] = "broadcast" /\ op'[x] = op[x]
      PROVE  TermReachesEveryone'
  BY <1>0, <1>1 DEF TermReachesEveryone
<1>2. CASE UNCHANGED queueVars
  BY <1>1, <1>2 DEF queueVars, waitVars, callVars
<1>3. ASSUME NEW t \in Threads, NEW p, Goto(t, p), pc[t] # "broadcast",
             UNCHANGED terminated, UNCHANGED op, not_empty' \subseteq not_empty, not_full' \subseteq not_full
      PROVE  TermReachesEveryone'
  <2>1. \A x \in Threads : pc[x] = "broadcast" => pc'[x] = "broadcast" /\ op'[x] = op[x]
    BY <1>0, <1>3 DEF Goto, TypeOK
  <2> QED BY <1>1, <1>3, <2>1
<1>4. ASSUME NEW t \in Threads, NEW o \in Ops, NEW v, Call(t, o, v)
      PROVE  TermReachesEveryone'
  <2>1. \A x \in Threads : pc[x] = "broadcast" => pc'[x] = "broadcast" /\ op'[x] = op[x]
    BY <1>0, <1>4 DEF Call, TypeOK
  <2> QED BY <1>1, <1>4, <2>1 DEF Call, waitVars
<1>5. ASSUME NEW t \in Threads, Check(t) \/ Interrupted(t) \/ TimedUp(t) \/ Timeout(t)
      PROVE  TermReachesEveryone'
  <2>1. PICK p \in Places : Goto(t, p)
    BY <1>5 DEF Check, Interrupted, TimedUp, Timeout, ReturnFailure, Places
  <2>2. /\ UNCHANGED <<terminated, op>> /\ not_empty' \subseteq not_empty /\ not_full' \subseteq not_full
        /\ pc[t] # "broadcast"
    BY <1>0, <1>5 DEF Check, Interrupted, TimedUp, Timeout, ReturnFailure, waitVars, Placement
  <2> QED BY <1>3, <2>1, <2>2
<1>6. ASSUME NEW t \in Threads, SetTerminated(t)
      PROVE  TermReachesEveryone'
  <2>1. pc'[t] = "broadcast" /\ op'[t] = "term"
    BY <1>0, <1>6 DEF SetTerminated, Goto, TypeOK
  <2> QED BY <2>1 DEF TermReachesEveryone
<1>7. ASSUME NEW t \in Threads, pc[t] # "broadcast", UNCHANGED terminated, Put(t) \/ Take(t)
      PROVE  TermReachesEveryone'
  <2>1. PICK W : /\ W \subseteq not_empty \cup not_full
                 /\ Move(t, "idle", W, "signal")
                 /\ not_empty' \subseteq not_empty /\ not_full' \subseteq not_full
    BY <1>7, SMTT(60) DEF Put, Take, Signalled
  <2>2. \A x \in W : pc[x] = "waiting"
    BY <1>0, <2>1 DEF Placement
  <2>3. op' = op
    BY <1>7 DEF Put, Take
  <2>4. \A x \in Threads : pc[x] = "broadcast" => pc'[x] = "broadcast" /\ op'[x] = op[x]
    BY <1>7, <2>1, <2>2, <2>3 DEF Move
  <2> QED BY <1>1, <1>7, <2>1, <2>4
<1>8. ASSUME NEW t \in Threads, Enter(t) \/ Resume(t)
      PROVE  TermReachesEveryone'
  <2>1. pc[t] # "broadcast" /\ UNCHANGED terminated
    BY <1>8 DEF Enter, Resume
  <2>2. CASE Put(t) \/ Take(t)
    BY <1>7, <2>1, <2>2
  <2>3. CASE GiveUp(t) /\ UNCHANGED <<not_empty, not_full>>
    BY <1>3, <2>1, <2>3 DEF GiveUp
  <2>4. CASE ReturnFailure(t, "EAGAIN") /\ UNCHANGED <<not_empty, not_full>>
    BY <1>3, <2>1, <2>4 DEF ReturnFailure
  <2>5. CASE ~terminated
    BY <2>1, <2>5 DEF TermReachesEveryone
  <2> QED
    BY <1>8, <2>2, <2>3, <2>4, <2>5
    DEF Enter, EnterPush, EnterTrypush, EnterPop, EnterTrypop, Resume, ResumePush, ResumePop, waitVars
<1>9. ASSUME NEW t \in Threads, Broadcast(t)
      PROVE  TermReachesEveryone'
  BY <1>9 DEF Broadcast, TermReachesEveryone
<1>10. ASSUME NEW t \in Threads, Spurious(t)
       PROVE  TermReachesEveryone'
  <2>1. \A x \in Threads : pc[x] = "broadcast" => pc'[x] = "broadcast" /\ op'[x] = op[x]
    BY <1>0, <1>10 DEF Spurious, TypeOK, Placement
  <2> QED BY <1>1, <1>10, <2>1 DEF Spurious
<1> QED
  BY <1>2, <1>4, <1>5, <1>6, <1>8, <1>9, <1>10 DEF QueueNext, Invoke, Proceed, Ops

\* The inductive invariant of switch_apr_queue.c: types, who waits where, the
\* waiter counts, no lost wake-up, and termination reaching every waiter.
THEOREM Inductive == QueueSpec => []IInv
<1>1. IInv /\ [QueueNext]_queueVars => IInv'
  BY BookkeepingStep, TypeStep, TermStep DEF IInv
<1> QED BY InitIInv, <1>1, PTL DEF QueueSpec

\* The ring indices and counters of the queue stay in range: nelts never
\* exceeds bounds, and no unsigned counter is decremented below zero.
THEOREM TypeCorrect == QueueSpec => []TypeOK
  BY Inductive, PTL DEF IInv

\* switch_apr_queue_push and pop never lose a wake-up, for any number of
\* threads, any capacity and with spurious wake-ups.
THEOREM NoWakeupIsLost == QueueSpec => []NoLostWakeup
  BY Inductive, PTL DEF IInv

\* After switch_apr_queue_term has broadcast nobody is blocked.
THEOREM TerminationIsSeen == QueueSpec => []TermReachesEveryone
  BY Inductive, PTL DEF IInv

-----------------------------------------------------------------------------
(* The queue implements BoundedFifo *)

\* Where the next element goes, and which calls get to the unlocked reads of
\* terminated.
RingInv == in = (out + nelts) % Bounds

CallInv ==
    \A t \in Threads :
        /\ pc[t] = "called" => op[t] \in PushOps \cup PopOps
        /\ pc[t] = "interrupted" => op[t] \in {"push"} \cup Blocking

Active == {t \in Threads : pc[t] # "idle"}

-----------------------------------------------------------------------------
(* The ring *)

\* An index of the ring is reduced at most once.
LEMMA ModOnce ==
  ASSUME NEW x \in Nat, x < 2 * Bounds
  PROVE  x % Bounds = IF x < Bounds THEN x ELSE x - Bounds
  BY BoundsAssumption, SMTT(60)

\* Two sequences of the same length with the same elements are the same.
LEMMA SameSequence ==
  ASSUME NEW S, NEW s \in Seq(S), NEW u \in Seq(S),
         Len(s) = Len(u), \A i \in 1 .. Len(s) : s[i] = u[i]
  PROVE  s = u
<1>1. s \in [1 .. Len(s) -> S] /\ u \in [1 .. Len(s) -> S]
  BY SMTT(60)
<1> QED BY <1>1, SMTT(60)

\* The number of elements is the length of the contents, and the element at
\* place i is in the slot the refinement mapping names.
LEMMA ContentsSeq ==
  ASSUME TypeOK
  PROVE  /\ Contents \in Seq(Values \cup {NULL})
         /\ Len(Contents) = nelts
         /\ \A i \in 1 .. nelts : Contents[i] = data[(out + i - 1) % Bounds]
<1>1. nelts \in Nat /\ out \in Nat /\ nelts <= Bounds /\ out < Bounds
  BY BoundsAssumption, SMTT(60) DEF TypeOK, Slots
<1>2. \A i \in 1 .. nelts : (out + i - 1) % Bounds \in Slots
  BY <1>1, BoundsAssumption, SMTT(60) DEF Slots
<1>3. \A i \in 1 .. nelts : data[(out + i - 1) % Bounds] \in Values \cup {NULL}
  BY <1>2 DEF TypeOK
<1>4. Contents \in [1 .. nelts -> Values \cup {NULL}]
  BY <1>3 DEF Contents
<1>5. Contents \in Seq(Values \cup {NULL}) /\ Len(Contents) = nelts
  BY <1>1, <1>4, SMTT(60)
<1> QED BY <1>5 DEF Contents

\* Storing an element at in appends it.
LEMMA PutAppends ==
  ASSUME TypeOK, TypeOK', RingInv, NEW v \in Values \cup {NULL}, nelts # Bounds,
         data' = [data EXCEPT ![in] = v], in' = (in + 1) % Bounds,
         nelts' = nelts + 1, out' = out
  PROVE  Contents' = Append(Contents, v) /\ RingInv'
<1>1. nelts \in Nat /\ out \in Nat /\ nelts < Bounds /\ out < Bounds /\ in \in Slots
  BY BoundsAssumption, SMTT(60) DEF TypeOK, Slots
<1>2. RingInv'
  <2>1. in = IF out + nelts < Bounds THEN out + nelts ELSE out + nelts - Bounds
    BY <1>1, ModOnce, BoundsAssumption, SMTT(60) DEF RingInv
  <2>2. in' = IF in + 1 < Bounds THEN in + 1 ELSE in + 1 - Bounds
    BY <1>1, ModOnce, BoundsAssumption, SMTT(60) DEF Slots
  <2>3. (out + nelts + 1) % Bounds
          = IF out + nelts + 1 < Bounds THEN out + nelts + 1 ELSE out + nelts + 1 - Bounds
    BY <1>1, ModOnce, BoundsAssumption, SMTT(60)
  <2>4. in' = (out + nelts + 1) % Bounds
    BY <1>1, <2>1, <2>2, <2>3, BoundsAssumption, SMTT(60)
  <2>5. out' + nelts' = out + nelts + 1
    BY <1>1, SMTT(60)
  <2> QED BY <2>4, <2>5 DEF RingInv
<1>3. /\ Contents \in Seq(Values \cup {NULL}) /\ Len(Contents) = nelts
      /\ \A i \in 1 .. nelts : Contents[i] = data[(out + i - 1) % Bounds]
  BY ContentsSeq
<1>4. Contents' = [i \in 1 .. nelts + 1 |-> data'[(out + i - 1) % Bounds]]
  BY SMTT(60) DEF Contents
<1>5. \A i \in 1 .. nelts : (out + i - 1) % Bounds # in /\ (out + i - 1) % Bounds \in Slots
  <2> SUFFICES ASSUME NEW i \in 1 .. nelts
               PROVE  (out + i - 1) % Bounds # in /\ (out + i - 1) % Bounds \in Slots
    OBVIOUS
  <2>1. (out + i - 1) % Bounds
          = IF out + i - 1 < Bounds THEN out + i - 1 ELSE out + i - 1 - Bounds
    BY <1>1, ModOnce, BoundsAssumption, SMTT(60)
  <2>2. in = IF out + nelts < Bounds THEN out + nelts ELSE out + nelts - Bounds
    BY <1>1, ModOnce, BoundsAssumption, SMTT(60) DEF RingInv
  <2> QED BY <1>1, <2>1, <2>2, BoundsAssumption, SMTT(60) DEF Slots
<1>6. \A i \in 1 .. nelts : data'[(out + i - 1) % Bounds] = Contents[i]
  BY <1>3, <1>5 DEF TypeOK
<1>7. data'[(out + nelts + 1 - 1) % Bounds] = v
  <2>1. out + nelts + 1 - 1 = out + nelts
    BY <1>1, SMTT(60)
  <2> QED BY <1>1, <2>1 DEF RingInv, TypeOK
<1> DEFINE longer == [i \in 1 .. nelts + 1 |-> IF i <= nelts THEN Contents[i] ELSE v]
<1>8. longer = Append(Contents, v)
  <2>1. Append(Contents, v) \in Seq(Values \cup {NULL}) /\ Len(Append(Contents, v)) = nelts + 1
    BY <1>1, <1>3, SMTT(60)
  <2>2. \A i \in 1 .. nelts + 1 :
          Append(Contents, v)[i] = IF i <= nelts THEN Contents[i] ELSE v
    BY <1>1, <1>3, SMTT(60)
  <2>3. \A i \in 1 .. nelts + 1 : (IF i <= nelts THEN Contents[i] ELSE v) \in Values \cup {NULL}
    BY <1>1, <1>3, SMTT(60)
  <2>4. longer \in Seq(Values \cup {NULL}) /\ Len(longer) = nelts + 1
    BY <1>1, <2>3, SMTT(60)
  <2> QED BY <2>1, <2>2, <2>4, SameSequence
<1>9. \A i \in 1 .. nelts + 1 :
        data'[(out + i - 1) % Bounds] = IF i <= nelts THEN Contents[i] ELSE v
  <2> SUFFICES ASSUME NEW i \in 1 .. nelts + 1
               PROVE  data'[(out + i - 1) % Bounds] = IF i <= nelts THEN Contents[i] ELSE v
    OBVIOUS
  <2>1. CASE i <= nelts
    BY <1>1, <1>6, <2>1, SMTT(60)
  <2>2. CASE i = nelts + 1
    BY <1>1, <1>7, <2>2, SMTT(60)
  <2> QED BY <1>1, <2>1, <2>2, SMTT(60)
<1>10. Contents' = longer
  BY <1>4, <1>9
<1> QED BY <1>2, <1>8, <1>10

\* Advancing out removes the oldest element, which is the one at out.
LEMMA TakeRemoves ==
  ASSUME TypeOK, RingInv, nelts # 0,
         nelts' = nelts - 1, out' = (out + 1) % Bounds, data' = data, in' = in
  PROVE  /\ Contents # << >> /\ Head(Contents) = data[out]
         /\ Contents' = Tail(Contents) /\ RingInv'
<1>1. nelts \in Nat /\ out \in Nat /\ 0 < nelts /\ nelts <= Bounds /\ out < Bounds
  BY BoundsAssumption, SMTT(60) DEF TypeOK, Slots
<1>2. /\ Contents \in Seq(Values \cup {NULL}) /\ Len(Contents) = nelts
      /\ \A i \in 1 .. nelts : Contents[i] = data[(out + i - 1) % Bounds]
  BY ContentsSeq
<1> DEFINE o == IF out + 1 < Bounds THEN out + 1 ELSE out + 1 - Bounds
<1>3. out' = o /\ o \in Nat /\ o < Bounds
  BY <1>1, ModOnce, BoundsAssumption, SMTT(60)
<1> HIDE DEF o
<1>4. \A i \in 0 .. nelts - 1 : (o + i) % Bounds = (out + 1 + i) % Bounds
  <2> SUFFICES ASSUME NEW i \in 0 .. nelts - 1
               PROVE  (o + i) % Bounds = (out + 1 + i) % Bounds
    OBVIOUS
  <2>1. (out + 1 + i) % Bounds
          = IF out + 1 + i < Bounds THEN out + 1 + i ELSE out + 1 + i - Bounds
    BY <1>1, ModOnce, BoundsAssumption, SMTT(60)
  <2>2. o + i \in Nat /\ o + i < 2 * Bounds
    BY <1>1, <1>3, BoundsAssumption, SMTT(60)
  <2>3. (o + i) % Bounds = IF o + i < Bounds THEN o + i ELSE o + i - Bounds
    BY <1>1, <1>3, <2>2, ModOnce, BoundsAssumption, SMTT(60)
  <2> QED BY <1>1, <2>1, <2>3, BoundsAssumption, SMTT(60) DEF o
<1>5. RingInv'
  <2>1. (o + (nelts - 1)) % Bounds = (out + 1 + (nelts - 1)) % Bounds
    BY <1>1, <1>4, SMTT(60)
  <2>2. out + 1 + (nelts - 1) = out + nelts
    BY <1>1, SMTT(60)
  <2> QED BY <1>3, <2>1, <2>2 DEF RingInv
<1>6. Contents # << >> /\ Head(Contents) = data[out]
  <2>1. (out + 1 - 1) % Bounds = out
    BY <1>1, ModOnce, BoundsAssumption, SMTT(60)
  <2> QED BY <1>1, <1>2, <2>1, SMTT(60)
<1>7. Contents' = [i \in 1 .. nelts - 1 |-> data[(o + i - 1) % Bounds]]
  BY <1>3 DEF Contents
<1>8. \A i \in 1 .. nelts - 1 : data[(o + i - 1) % Bounds] = Contents[i + 1]
  <2> SUFFICES ASSUME NEW i \in 1 .. nelts - 1
               PROVE  data[(o + i - 1) % Bounds] = Contents[i + 1]
    OBVIOUS
  <2>1. (o + (i - 1)) % Bounds = (out + 1 + (i - 1)) % Bounds
    BY <1>1, <1>4, SMTT(60)
  <2>2. o + (i - 1) = o + i - 1 /\ out + 1 + (i - 1) = out + (i + 1) - 1
    BY <1>1, <1>3, BoundsAssumption, SMTT(60)
  <2>3. i + 1 \in 1 .. nelts
    BY <1>1, SMTT(60)
  <2> QED BY <1>2, <2>1, <2>2, <2>3
<1> DEFINE shorter == [i \in 1 .. nelts - 1 |-> Contents[i + 1]]
<1>9. shorter = Tail(Contents)
  <2>1. /\ Tail(Contents) \in Seq(Values \cup {NULL}) /\ Len(Tail(Contents)) = nelts - 1
        /\ \A i \in 1 .. nelts - 1 : Tail(Contents)[i] = Contents[i + 1]
    BY <1>2, <1>6, SMTT(60)
  <2>2. \A i \in 1 .. nelts - 1 : Contents[i + 1] \in Values \cup {NULL}
    BY <1>1, <1>2, SMTT(60)
  <2>3. shorter \in Seq(Values \cup {NULL}) /\ Len(shorter) = nelts - 1
    BY <1>1, <2>2, SMTT(60)
  <2> QED BY <2>1, <2>3, SameSequence
<1>10. Contents' = shorter
  BY <1>7, <1>8
<1> QED BY <1>5, <1>6, <1>9, <1>10

-----------------------------------------------------------------------------
(* The calls *)

\* The ring and the places of the calls keep the two invariants.
LEMMA RefinementInvInit == QueueInit => RingInv /\ CallInv
<1>1. QueueInit => RingInv
  BY ModOnce, BoundsAssumption, SMTT(60) DEF QueueInit, RingInv
<1>2. QueueInit => CallInv
  BY DEF QueueInit, CallInv
<1> QED BY <1>1, <1>2

\* Each operation of the ring is one of the FIFO's, done for the caller t.
LEMMA PutInserts ==
  ASSUME IInv, TypeOK', RingInv, NEW t \in Threads, Put(t), nelts # Bounds,
         op[t] \in PushOps, pc[t] # "idle", UNCHANGED terminated
  PROVE  Fifo!Insert(t) /\ RingInv'
<1>0. TypeOK /\ Placement
  BY DEF IInv
<1>1. /\ data' = [data EXCEPT ![in] = item[t]] /\ in' = (in + 1) % Bounds
      /\ nelts' = nelts + 1 /\ out' = out
      /\ rv' = [rv EXCEPT ![t] = "SUCCESS"] /\ item' = [item EXCEPT ![t] = NULL] /\ op' = op
  BY DEF Put
<1>2. Contents' = Append(Contents, item[t]) /\ RingInv'
  BY <1>0, <1>1, PutAppends DEF TypeOK
<1>3. PICK W \in SUBSET not_empty : Move(t, "idle", W, "signal")
  BY DEF Put, Signalled
<1>4. Active' = Active \ {t}
  BY <1>0, <1>3 DEF Move, Active, Placement, TypeOK
<1>5. Len(Contents) < Bounds
  <2>1. nelts \in 0 .. Bounds
    BY <1>0 DEF TypeOK
  <2> QED BY <1>0, <2>1, ContentsSeq, BoundsAssumption, SMTT(60)
<1> QED
  BY <1>1, <1>2, <1>4, <1>5 DEF Fifo!Insert, Fifo!End, Fifo!PushOps, PushOps, Active

\* Likewise for the oldest element.
LEMMA TakeDeletes ==
  ASSUME IInv, RingInv, NEW t \in Threads, Take(t), nelts # 0,
         op[t] \in PopOps, pc[t] # "idle", UNCHANGED terminated
  PROVE  Fifo!Remove(t) /\ RingInv'
<1>0. TypeOK /\ Placement
  BY DEF IInv
<1>1. /\ item' = [item EXCEPT ![t] = data[out]] /\ nelts' = nelts - 1
      /\ out' = (out + 1) % Bounds /\ data' = data /\ in' = in
      /\ rv' = [rv EXCEPT ![t] = "SUCCESS"] /\ op' = op
  BY DEF Take
<1>2. /\ Contents # << >> /\ Head(Contents) = data[out]
      /\ Contents' = Tail(Contents) /\ RingInv'
  BY <1>0, <1>1, TakeRemoves
<1>3. PICK W \in SUBSET not_full : Move(t, "idle", W, "signal")
  BY DEF Take, Signalled
<1>4. Active' = Active \ {t}
  BY <1>0, <1>3 DEF Move, Active, Placement, TypeOK
<1> QED
  BY <1>1, <1>2, <1>4 DEF Fifo!Remove, Fifo!End, Fifo!PopOps, PopOps, Active

\* A call that ends without effect reports a status its state allows.
LEMMA FailureFails ==
  ASSUME IInv, RingInv, NEW t \in Threads, NEW s \in {"EOF", "EAGAIN", "EINTR", "TIMEUP"},
         ReturnFailure(t, s), Fifo!MayFail(t, s), pc[t] # "idle", UNCHANGED terminated
  PROVE  Fifo!Fail(t, s) /\ RingInv'
<1>1. /\ pc' = [pc EXCEPT ![t] = "idle"] /\ rv' = [rv EXCEPT ![t] = s]
      /\ item' = [item EXCEPT ![t] = NULL] /\ UNCHANGED <<data, nelts, in, out, op>>
  BY DEF ReturnFailure, Goto, ringVars
<1>2. Active' = Active \ {t}
  BY <1>1 DEF Active, IInv, TypeOK
<1>3. Contents' = Contents /\ RingInv'
  BY <1>1 DEF Contents, RingInv
<1> QED BY <1>1, <1>2, <1>3 DEF Fifo!Fail, Fifo!End, Active

\* Going on within a call changes nothing that the FIFO has.
LEMMA GotoStutters ==
  ASSUME IInv, RingInv, NEW t \in Threads, NEW p, p # "idle", pc[t] # "idle",
         pc' = [pc EXCEPT ![t] = p],
         UNCHANGED <<ringVars, terminated, op, item, rv>>
  PROVE  UNCHANGED Fifo!fifoVars /\ RingInv'
<1>1. UNCHANGED <<data, nelts, in, out>>
  BY DEF ringVars
<1>2. Active' = Active
  BY DEF Active, IInv, TypeOK
<1>3. Contents' = Contents /\ RingInv'
  BY <1>1 DEF Contents, RingInv
<1> QED BY <1>2, <1>3 DEF Fifo!fifoVars, Active

\* A call begins as the FIFO's does.
LEMMA CallBegins ==
  ASSUME IInv, RingInv, NEW t \in Threads, NEW o \in Ops, NEW v, Call(t, o, v)
  PROVE  Fifo!Begin(t, o, v) /\ RingInv'
<1>1. /\ pc[t] = "idle" /\ op' = [op EXCEPT ![t] = o] /\ item' = [item EXCEPT ![t] = v]
      /\ rv' = [rv EXCEPT ![t] = "none"] /\ UNCHANGED <<data, nelts, in, out, terminated>>
  BY DEF Call, ringVars
<1>2. \E p \in {"broadcast", "enter", "called"} : pc' = [pc EXCEPT ![t] = p]
  BY DEF Call
<1>3. t \notin Active /\ Active' = Active \cup {t}
  BY <1>1, <1>2 DEF Active, IInv, TypeOK
<1>4. Contents' = Contents /\ RingInv'
  BY <1>1 DEF Contents, RingInv
<1> QED BY <1>1, <1>3, <1>4 DEF Fifo!Begin, Active

\* What a caller does once it has the mutex, for the first time or again after
\* its wait.
LEMMA CriticalSteps ==
  ASSUME NEW t \in Threads, Enter(t) \/ Resume(t)
  PROVE  \/ Put(t) /\ nelts # Bounds /\ op[t] \in PushOps
         \/ Take(t) /\ nelts # 0 /\ op[t] \in PopOps
         \/ WaitNotFull(t) \/ WaitNotEmpty(t)
         \/ GiveUp(t) /\ op[t] \in {"push"} \cup Blocking
         \/ /\ ReturnFailure(t, "EAGAIN")
            /\ \/ op[t] = "trypush" /\ nelts = Bounds
               \/ op[t] = "trypop" /\ nelts = 0
<1>1. CASE EnterPush(t) \/ ResumePush(t)
  BY <1>1 DEF EnterPush, ResumePush, apr_queue_full, PushOps
<1>2. CASE EnterPop(t) \/ ResumePop(t)
  BY <1>2 DEF EnterPop, ResumePop, apr_queue_empty, PopOps, Blocking
<1>3. CASE EnterTrypush(t)
  BY <1>3 DEF EnterTrypush, apr_queue_full, PushOps
<1>4. CASE EnterTrypop(t)
  BY <1>4 DEF EnterTrypop, apr_queue_empty, PopOps
<1> QED BY <1>1, <1>2, <1>3, <1>4 DEF Enter, Resume

\* Such a step inserts, removes, fails because the ring is full or empty, or
\* does not concern the FIFO.
LEMMA CriticalRefines ==
  ASSUME IInv, TypeOK', RingInv, NEW t \in Threads, Enter(t) \/ Resume(t)
  PROVE  (Fifo!FifoNext \/ UNCHANGED Fifo!fifoVars) /\ RingInv'
<1>0. TypeOK
  BY DEF IInv
<1>1. pc[t] # "idle" /\ terminated' = terminated
  BY DEF Enter, Resume
<1>2. CASE Put(t) /\ nelts # Bounds /\ op[t] \in PushOps
  BY <1>1, <1>2, PutInserts DEF Fifo!FifoNext
<1>3. CASE Take(t) /\ nelts # 0 /\ op[t] \in PopOps
  BY <1>1, <1>3, TakeDeletes DEF Fifo!FifoNext
<1>4. CASE GiveUp(t) \/ WaitNotFull(t) \/ WaitNotEmpty(t)
  <2>1. /\ \E p \in {"interrupted", "waiting"} : pc' = [pc EXCEPT ![t] = p]
        /\ UNCHANGED <<ringVars, op, item, rv>>
    BY <1>4 DEF GiveUp, WaitNotFull, WaitNotEmpty, Goto
  <2> QED BY <1>1, <2>1, GotoStutters
<1>5. CASE /\ ReturnFailure(t, "EAGAIN")
           /\ \/ op[t] = "trypush" /\ nelts = Bounds
              \/ op[t] = "trypop" /\ nelts = 0
  <2>1. Len(Contents) = nelts /\ (nelts = 0 => Contents = << >>)
    <3>1. Contents \in Seq(Values \cup {NULL}) /\ Len(Contents) = nelts
      BY <1>0, ContentsSeq
    <3>2. << >> \in Seq(Values \cup {NULL}) /\ Len(<< >>) = 0
      BY SMTT(60)
    <3>3. nelts = 0 => Contents = << >>
      BY <3>1, <3>2, SameSequence, SMTT(60)
    <3> QED BY <3>1, <3>3
  <2>2. Fifo!MayFail(t, "EAGAIN")
    BY <1>5, <2>1 DEF Fifo!MayFail
  <2> QED BY <1>1, <1>5, <2>2, FailureFails DEF Fifo!FifoNext
<1> QED BY <1>2, <1>3, <1>4, <1>5, CriticalSteps

\* The steps outside of the mutex, of termination and of the conditions.
LEMMA OtherRefines ==
  ASSUME IInv, RingInv, CallInv, NEW t \in Threads,
         \/ Check(t) \/ Interrupted(t) \/ SetTerminated(t) \/ Broadcast(t) \/ TimedUp(t)
         \/ Timeout(t) \/ Spurious(t)
  PROVE  (Fifo!FifoNext \/ UNCHANGED Fifo!fifoVars) /\ RingInv'
<1>0. TypeOK /\ Placement
  BY DEF IInv
<1>1. CASE Check(t)
  <2>1. pc[t] # "idle" /\ terminated' = terminated /\ op[t] \in PushOps \cup PopOps
    BY <1>1 DEF Check, CallInv
  <2>2. CASE terminated /\ ReturnFailure(t, "EOF")
    <3>1. Fifo!MayFail(t, "EOF")
      BY <2>1, <2>2 DEF Fifo!MayFail, Fifo!PushOps, Fifo!PopOps, PushOps, PopOps
    <3> QED BY <2>1, <2>2, <3>1, FailureFails DEF Fifo!FifoNext
  <2>3. CASE Goto(t, "enter") /\ UNCHANGED <<ringVars, op, item, rv>>
    BY <2>1, <2>3, GotoStutters DEF Goto
  <2> QED BY <1>1, <2>2, <2>3 DEF Check
<1>2. CASE Interrupted(t)
  <2>1. pc[t] # "idle" /\ terminated' = terminated /\ op[t] \in {"push"} \cup Blocking
    BY <1>2 DEF Interrupted, CallInv
  <2>2. CASE terminated /\ ReturnFailure(t, "EOF")
    <3>1. Fifo!MayFail(t, "EOF")
      BY <2>1, <2>2 DEF Fifo!MayFail, Fifo!PushOps, Fifo!PopOps, Blocking
    <3> QED BY <2>1, <2>2, <3>1, FailureFails DEF Fifo!FifoNext
  <2>3. CASE op[t] \in PopOps /\ ReturnFailure(t, "EINTR")
    <3>1. Fifo!MayFail(t, "EINTR")
      BY <2>1, <2>3 DEF Fifo!MayFail, PopOps, Blocking
    <3> QED BY <2>1, <2>3, <3>1, FailureFails DEF Fifo!FifoNext
  <2>4. CASE Goto(t, "called") /\ UNCHANGED <<ringVars, op, item, rv>>
    BY <2>1, <2>4, GotoStutters DEF Goto
  <2> QED BY <1>2, <2>2, <2>3, <2>4 DEF Interrupted
<1>3. CASE SetTerminated(t)
  <2>1. /\ pc[t] = "enter" /\ op[t] = "term" /\ terminated' = TRUE
        /\ pc' = [pc EXCEPT ![t] = "broadcast"]
        /\ UNCHANGED <<data, nelts, in, out, op, item, rv>>
    BY <1>3 DEF SetTerminated, Goto, ringVars
  <2>2. t \in Active /\ Active' = Active
    BY <1>0, <2>1 DEF Active, TypeOK
  <2>3. Contents' = Contents /\ RingInv'
    BY <2>1 DEF Contents, RingInv
  <2>4. Fifo!Close(t)
    BY <2>1, <2>2, <2>3 DEF Fifo!Close, Active
  <2> QED BY <2>3, <2>4 DEF Fifo!FifoNext
<1>4. CASE Broadcast(t)
  <2>1. /\ pc[t] = "broadcast" /\ Move(t, "idle", not_empty \cup not_full, "broadcast")
        /\ rv' = [rv EXCEPT ![t] = "SUCCESS"]
        /\ UNCHANGED <<data, nelts, in, out, terminated, op, item>>
    BY <1>4 DEF Broadcast, ringVars
  <2>2. op[t] \in CtlOps /\ t \in Active /\ Active' = Active \ {t}
    BY <1>0, <2>1 DEF Move, Active, Placement, TypeOK
  <2>3. Contents' = Contents /\ RingInv'
    BY <2>1 DEF Contents, RingInv
  <2>4. Fifo!Control(t)
    BY <2>1, <2>2, <2>3 DEF Fifo!Control, Fifo!End, Fifo!CtlOps, CtlOps, Active
  <2> QED BY <2>3, <2>4 DEF Fifo!FifoNext
<1>5. CASE TimedUp(t)
  <2>1. /\ pc[t] = "timedup" /\ op[t] = "pop_timeout" /\ terminated' = terminated
        /\ ReturnFailure(t, "TIMEUP")
    BY <1>0, <1>5 DEF TimedUp, Placement
  <2>2. Fifo!MayFail(t, "TIMEUP")
    BY <2>1 DEF Fifo!MayFail
  <2> QED BY <2>1, <2>2, FailureFails DEF Fifo!FifoNext
<1>6. CASE Timeout(t) \/ Spurious(t)
  <2>1. /\ pc[t] = "waiting"
        /\ \E p \in {"timedup", "resumed"} : pc' = [pc EXCEPT ![t] = p]
        /\ UNCHANGED <<ringVars, terminated, op, item, rv>>
    BY <1>0, <1>6 DEF Timeout, Spurious, Goto, Placement
  <2> QED BY <2>1, GotoStutters
<1> QED BY <1>1, <1>2, <1>3, <1>4, <1>5, <1>6

\* Only pushes and pops get to the unlocked reads of terminated, and only those
\* that may wait to the second one.
LEMMA CallInvStep ==
  ASSUME IInv, CallInv, [QueueNext]_queueVars
  PROVE  CallInv'
<1>0. TypeOK /\ Placement
  BY DEF IInv
<1>1. ASSUME NEW t \in Threads,
             \A x \in Threads \ {t} : op'[x] = op[x] /\ pc'[x] \in {pc[x], "resumed"},
             pc'[t] = "called" => op'[t] \in PushOps \cup PopOps,
             pc'[t] = "interrupted" => op'[t] \in {"push"} \cup Blocking
      PROVE  CallInv'
  BY <1>1 DEF CallInv
<1>2. ASSUME NEW t \in Threads, NEW o \in Ops, NEW v, Call(t, o, v)
      PROVE  CallInv'
  BY <1>0, <1>1, <1>2 DEF Call, TypeOK, Ops, PushOps, PopOps, CtlOps
<1>3. ASSUME NEW t \in Threads, Check(t) \/ SetTerminated(t) \/ TimedUp(t) \/ Timeout(t)
      PROVE  CallInv'
  <2>1. /\ \E p \in {"idle", "enter", "broadcast", "timedup"} : pc' = [pc EXCEPT ![t] = p]
        /\ op' = op
    BY <1>3 DEF Check, SetTerminated, TimedUp, Timeout, ReturnFailure, Goto
  <2> QED BY <1>0, <1>1, <2>1 DEF TypeOK
<1>4. ASSUME NEW t \in Threads, Interrupted(t)
      PROVE  CallInv'
  <2>1. /\ op' = op
        /\ \/ pc' = [pc EXCEPT ![t] = "idle"]
           \/ pc' = [pc EXCEPT ![t] = "called"] /\ op[t] = "push"
    BY <1>4 DEF Interrupted, ReturnFailure, Goto
  <2> QED BY <1>0, <1>1, <2>1 DEF TypeOK, PushOps
<1>5. ASSUME NEW t \in Threads, Broadcast(t) \/ Put(t) \/ Take(t)
      PROVE  CallInv'
  <2>1. op' = op /\ \E W, how : Move(t, "idle", W, how)
    BY <1>5 DEF Broadcast, Put, Take
  <2> QED BY <1>0, <1>1, <2>1 DEF TypeOK, Move
<1>6. ASSUME NEW t \in Threads, Spurious(t)
      PROVE  CallInv'
  BY <1>0, <1>1, <1>6 DEF Spurious, TypeOK
<1>7. ASSUME NEW t \in Threads, Enter(t) \/ Resume(t)
      PROVE  CallInv'
  <2>1. CASE Put(t) \/ Take(t)
    BY <1>5, <2>1
  <2>2. CASE \/ WaitNotFull(t) \/ WaitNotEmpty(t) \/ ReturnFailure(t, "EAGAIN")
             \/ GiveUp(t) /\ op[t] \in {"push"} \cup Blocking
    <3>1. /\ op' = op
          /\ \/ \E p \in {"waiting", "idle"} : pc' = [pc EXCEPT ![t] = p]
             \/ pc' = [pc EXCEPT ![t] = "interrupted"] /\ op[t] \in {"push"} \cup Blocking
      BY <2>2 DEF WaitNotFull, WaitNotEmpty, GiveUp, ReturnFailure, Goto
    <3> QED BY <1>0, <1>1, <3>1 DEF TypeOK
  <2> QED BY <1>7, <2>1, <2>2, CriticalSteps
<1>8. CASE UNCHANGED queueVars
  BY <1>8 DEF queueVars, callVars, CallInv
<1> QED
  BY <1>2, <1>3, <1>4, <1>5, <1>6, <1>7, <1>8 DEF QueueNext, Invoke, Proceed, Ops

\* Every step of the queue is a step of the FIFO or none of its business.
LEMMA StepRefines ==
  ASSUME IInv, IInv', RingInv, CallInv, [QueueNext]_queueVars
  PROVE  [Fifo!FifoNext]_Fifo!fifoVars /\ RingInv'
<1>1. CASE \E t \in Threads : Invoke(t)
  <2>1. PICK t \in Threads : Invoke(t)
    BY <1>1
  <2>2. CASE \E o \in PushOps \cap Calls, v \in Values : Call(t, o, v)
    BY <2>2, CallBegins DEF Fifo!FifoNext, Fifo!PushOps, PushOps, Ops
  <2>3. CASE \E o \in (PopOps \cup CtlOps) \cap Calls : Call(t, o, NULL)
    BY <2>3, CallBegins
    DEF Fifo!FifoNext, Fifo!PopOps, Fifo!CtlOps, PopOps, CtlOps, Ops
  <2> QED BY <2>1, <2>2, <2>3 DEF Invoke
<1>2. CASE \E t \in Threads : Enter(t) \/ Resume(t)
  BY <1>2, CriticalRefines DEF IInv
<1>3. CASE \E t \in Threads :
             \/ Check(t) \/ Interrupted(t) \/ SetTerminated(t) \/ Broadcast(t) \/ TimedUp(t)
             \/ Timeout(t) \/ Spurious(t)
  BY <1>3, OtherRefines
<1>4. CASE UNCHANGED queueVars
  BY <1>4 DEF queueVars, ringVars, callVars, Fifo!fifoVars, Contents, RingInv
<1> QED BY <1>1, <1>2, <1>3, <1>4 DEF QueueNext, Proceed

\* switch_apr_queue.c implements the FIFO that its users rely on: a call that
\* reports success took effect once and in order, any other had no effect.
THEOREM QueueIsFifo == QueueSpec => ImplementsFifo
<1>1. QueueInit => Fifo!FifoInit
  <2> SUFFICES ASSUME QueueInit PROVE Fifo!FifoInit
    OBVIOUS
  <2>1. Contents = << >>
    BY SMTT(60) DEF QueueInit, Contents
  <2> QED BY <2>1 DEF QueueInit, Fifo!FifoInit
<1>2. IInv /\ IInv' /\ RingInv /\ CallInv /\ [QueueNext]_queueVars
        => RingInv' /\ CallInv' /\ [Fifo!FifoNext]_Fifo!fifoVars
  BY StepRefines, CallInvStep
<1> QED
  BY <1>1, <1>2, Inductive, RefinementInvInit, PTL DEF QueueSpec, ImplementsFifo, Fifo!FifoSpec

=============================================================================

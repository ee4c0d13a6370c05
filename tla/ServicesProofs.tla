--------------------------- MODULE ServicesProofs ---------------------------
(***************************************************************************)
(* TLAPS proofs about two services of the core that all calls share: the   *)
(* event system, for any number of events, bindings, firing threads and    *)
(* dispatch threads, whether or not callbacks fire events; and the cache of *)
(* database handles, for any number of threads, databases and handles, any  *)
(* limit and any nesting of requests.  EventSystem and DbCache have no name *)
(* in common: each theorem is about one of the two specifications.          *)
(***************************************************************************)
EXTENDS EventSystem, DbCache, FiniteSetTheorems, TLAPS

(* Zenon proves the leaves that do not name the SMT solver. *)
USE ZenonT(60)

-----------------------------------------------------------------------------
(* The event system *)

EventTypes ==
  /\ bound \subseteq Nodes
  /\ thread \in [Slots -> {"none", "new", "test", "pop", "wait", "walk", "leave", "ended"}]
  /\ at \in [Slots -> Nodes \cup {NULL}]

(* A dispatch thread in a callback has RWLOCK, and the node is bound. *)
WalkInv == \A i \in Slots : at[i] # NULL => thread[i] = "walk" /\ at[i] \in bound

EventInv == EventTypes /\ WalkInv

(* Nobody is in a callback when switch_event_init is done. *)
LEMMA EventInitHolds == EventInit => EventInv
BY DEF EventInit, EventInv, EventTypes, WalkInv

(* Each step of a dispatch thread keeps the invariant: only the owner of a    *)
(* slot enters a callback, and it lets go of RWLOCK after the last one.       *)
LEMMA DispatchHolds ==
  ASSUME EventInv, NEW i \in Slots, Dispatches(i) \/ PopFails(i)
  PROVE  EventInv'
<1>0. EventTypes /\ WalkInv
  BY DEF EventInv
<1>1. CASE Start(i)
  BY <1>0, <1>1 DEF Start, Goto, EventInv, EventTypes, WalkInv
<1>2. CASE Test(i)
  BY <1>0, <1>2 DEF Test, Goto, EventInv, EventTypes, WalkInv
<1>3. CASE Pop(i)
  <2>1. at[i] = NULL
    BY <1>0, <1>3 DEF Pop, EventTypes, WalkInv
  <2>2. \E p \in {"wait", "leave", "walk", "test"} : thread' = [thread EXCEPT ![i] = p]
    BY <1>3 DEF Pop, Goto, Destroy
  <2>3. bound' = bound /\ at' = at
    BY <1>3 DEF Pop
  <2> QED BY <1>0, <2>1, <2>2, <2>3 DEF EventInv, EventTypes, WalkInv
<1>4. CASE Delivered(i)
  BY <1>0, <1>4 DEF Delivered, Destroy, Goto, EventInv, EventTypes, WalkInv
<1>5. CASE Leave(i)
  BY <1>0, <1>5 DEF Leave, Goto, EventInv, EventTypes, WalkInv
<1>6. CASE \E n \in Nodes : Callback(i, n)
  <2>1. PICK n \in Nodes : Callback(i, n)
    BY <1>6
  <2>2. n \in bound
    BY <2>1 DEF Callback, Listeners
  <2>3. thread[i] = "walk" /\ at' = [at EXCEPT ![i] = n] /\ thread' = thread /\ bound' = bound
    BY <2>1 DEF Callback
  <2> QED BY <1>0, <2>2, <2>3 DEF EventInv, EventTypes, WalkInv
<1>7. CASE PopFails(i)
  BY <1>0, <1>7 DEF PopFails, Goto, EventInv, EventTypes, WalkInv
<1> QED BY <1>1, <1>2, <1>3, <1>4, <1>5, <1>6, <1>7 DEF Dispatches

(* Binding, unbinding and firing keep it: a writer of RWLOCK finds no reader, *)
(* and a new dispatch thread takes a slot that is free.                       *)
LEMMA OthersHold ==
  ASSUME EventInv,
         \/ \E n \in Nodes : Bind(n)
         \/ \E ns \in SUBSET bound \ {{}} : Unbind(ns)
         \/ \E a \in Actors : Fire(a) \/ Fires(a) \/ PushFails(a)
         \/ Stop \/ ShutsDown
  PROVE  EventInv'
<1>0. EventTypes /\ WalkInv
  BY DEF EventInv
<1>1. CASE \E n \in Nodes : Bind(n)
  BY <1>0, <1>1 DEF Bind, threadVars, EventInv, EventTypes, WalkInv
<1>2. CASE \E ns \in SUBSET bound \ {{}} : Unbind(ns)
  <2>1. Readers = {} /\ thread' = thread /\ at' = at /\ bound' \subseteq bound
    BY <1>2 DEF Unbind, threadVars
  <2>2. \A i \in Slots : at[i] = NULL
    BY <1>0, <2>1 DEF Readers, WalkInv
  <2> QED BY <1>0, <2>1, <2>2 DEF EventInv, EventTypes, WalkInv
<1>3. CASE \E a \in Actors : Fire(a) \/ Fires(a) \/ PushFails(a)
  <2>1. PICK a \in Actors : Fire(a) \/ Fires(a) \/ PushFails(a)
    BY <1>3
  <2>2. CASE Launch(a)
    <3>1. thread' = [thread EXCEPT ![SOFT_MAX_DISPATCH] = IF @ = "none" THEN "new" ELSE @]
          /\ at' = at /\ bound' = bound
      BY <2>2 DEF Launch
    <3>2. \A i \in Slots : thread[i] = "walk" => thread'[i] = "walk"
      BY <1>0, <3>1 DEF EventTypes
    <3> QED BY <1>0, <3>1, <3>2 DEF EventInv, EventTypes, WalkInv
  <2>3. CASE Fire(a) \/ Check(a) \/ Launched(a) \/ Push(a) \/ PushFails(a)
    BY <1>0, <2>3 DEF Fire, Check, Launched, Push, PushFails, threadVars, EventInv, EventTypes,
                      WalkInv
  <2> QED BY <2>1, <2>2, <2>3 DEF Fires
<1>4. CASE Stop \/ PushNull \/ Join \/ Drain
  BY <1>0, <1>4 DEF Stop, PushNull, Join, Drain, threadVars, EventInv, EventTypes, WalkInv
<1>5. CASE Interrupt
  BY <1>0, <1>5 DEF Interrupt, EventInv, EventTypes, WalkInv
<1> QED BY <1>1, <1>2, <1>3, <1>4, <1>5 DEF ShutsDown

(* The invariant holds in every state. *)
LEMMA EventInvariance == EventSpec => []EventInv
<1>1. EventInv /\ [EventNext]_eventVars => EventInv'
  <2> SUFFICES ASSUME EventInv, [EventNext]_eventVars PROVE EventInv'
    OBVIOUS
  <2>1. CASE EventNext
    BY <2>1, DispatchHolds, OthersHold DEF EventNext
  <2>2. CASE UNCHANGED eventVars
    BY <2>2 DEF eventVars, threadVars, EventInv, EventTypes, WalkInv
  <2> QED BY <2>1, <2>2
<1> QED BY <1>1, EventInitHolds, PTL DEF EventSpec

(* switch_event_unbind takes the lock that switch_event_deliver holds over    *)
(* the callbacks, so that no callback runs once its binding is gone.          *)
THEOREM UnbindIsSafe == EventSpec => []UnboundIsQuiet
<1>1. EventInv => UnboundIsQuiet
  BY DEF EventInv, WalkInv, UnboundIsQuiet
<1> QED BY <1>1, EventInvariance, PTL

-----------------------------------------------------------------------------
(* The cache of database handles *)

Types ==
  /\ handle_pool \subseteq Handles
  /\ dsn \in [Handles -> Dsns \cup {None}]
  /\ thread_hash \in [Handles -> Threads \cup {None}]
  /\ use_count \in [Handles -> Nat]
  /\ pc \in [Threads -> {"idle", "limit", "find", "connect", "released"}]
  /\ want \in [Threads -> Dsns \cup {None}]
  /\ holds \in [Threads -> [Handles -> Nat]]

(* A thread that has locked a handle is the one that thread_hash names. *)
HeldInv ==
  \A t \in Threads : \A h \in Handles :
    holds[t][h] > 0 => h \in handle_pool /\ thread_hash[h] = t /\ use_count[h] = holds[t][h]

(* A handle that nobody has locked is not counted as used. *)
FreeInv == \A h \in Handles : Unlocked(h) => use_count[h] = 0

(* A thread is named by at most one handle of a database, in use or not. *)
OneInv ==
  \A g, h \in handle_pool :
    thread_hash[g] # None /\ thread_hash[g] = thread_hash[h] /\ dsn[g] = dsn[h] => g = h

(* None names a thread that connects to the database: get_handle found none,  *)
(* and only the thread itself could change that.                              *)
ConnectInv ==
  \A t \in Threads : pc[t] = "connect" =>
    \A h \in handle_pool : ~(thread_hash[h] = t /\ dsn[h] = want[t])

IInv == Types /\ HeldInv /\ FreeInv /\ OneInv /\ ConnectInv

(* The core's handle has been released when the core is started. *)
LEMMA InitHolds == Init => IInv
BY DbCacheAssumption, SMTT(60) DEF Init, IInv, Types, HeldInv, FreeInv, OneInv, ConnectInv, Unlocked

(* A handle that names a thread can be locked by it: it is not in use by      *)
(* another one.  So the first loop of get_handle finds it.                    *)
LEMMA NamedIsLockable ==
  ASSUME IInv, NEW t \in Threads, NEW h \in Handles, thread_hash[h] = t
  PROVE  Lockable(t, h)
BY SMTT(60) DEF IInv, Types, HeldInv, Lockable

(* Taking a handle keeps the invariant, if the thread may lock it and no      *)
(* other handle of the database names the thread.                             *)
LEMMA UseHolds ==
  ASSUME IInv, NEW t \in Threads, NEW h \in Handles, Use(t, h),
         handle_pool' = handle_pool \cup {h},
         dsn' = [dsn EXCEPT ![h] = want[t]],
         Lockable(t, h),
         \A g \in handle_pool : thread_hash[g] = t /\ dsn[g] = want[t] => g = h
  PROVE  IInv'
<1>0. Types /\ HeldInv /\ FreeInv /\ OneInv /\ ConnectInv
  BY DEF IInv
<1>1. /\ use_count' = [use_count EXCEPT ![h] = @ + 1]
      /\ thread_hash' = [thread_hash EXCEPT ![h] = t]
      /\ holds' = [holds EXCEPT ![t][h] = @ + 1]
      /\ pc' = [pc EXCEPT ![t] = "idle"] /\ want' = [want EXCEPT ![t] = None]
  BY DEF Use, Return
<1>2. Types'
  BY <1>0, <1>1, SMTT(60) DEF Types
<1>3. \A u \in Threads, g \in Handles :
        holds'[u][g] = IF u = t /\ g = h THEN holds[u][g] + 1 ELSE holds[u][g]
  BY <1>0, <1>1 DEF Types
<1>4. use_count[h] = holds[t][h]
  <2>1. holds[t][h] \in Nat
    BY <1>0 DEF Types
  <2>2. CASE holds[t][h] > 0
    BY <1>0, <2>2 DEF HeldInv
  <2>3. CASE holds[t][h] = 0
    BY <1>0, <2>3 DEF FreeInv, Unlocked, Lockable
  <2> QED BY <2>1, <2>2, <2>3, SMTT(60)
<1>5. HeldInv'
  <2> SUFFICES ASSUME NEW u \in Threads, NEW g \in Handles, holds'[u][g] > 0
               PROVE  g \in handle_pool' /\ thread_hash'[g] = u /\ use_count'[g] = holds'[u][g]
    BY DEF HeldInv
  <2>1. CASE g # h
    BY <1>0, <1>1, <1>3, <2>1, SMTT(60) DEF Types, HeldInv
  <2>2. CASE g = h
    <3>1. u = t
      BY <1>3, <2>2, SMTT(60) DEF Lockable
    <3> QED BY <1>0, <1>1, <1>3, <1>4, <2>2, <3>1 DEF Types
  <2> QED BY <2>1, <2>2
<1>6. FreeInv'
  <2> SUFFICES ASSUME NEW g \in Handles, \A u \in Threads : holds'[u][g] = 0
               PROVE  use_count'[g] = 0
    BY DEF FreeInv, Unlocked
  <2>1. holds[t][h] \in Nat
    BY <1>0 DEF Types
  <2>2. g # h
    BY <1>3, <2>1, SMTT(60)
  <2>3. \A u \in Threads : holds[u][g] = 0
    BY <1>3, <2>2
  <2> QED BY <1>0, <1>1, <2>2, <2>3 DEF Types, FreeInv, Unlocked
<1>7. OneInv'
  BY <1>0, <1>1, SMTT(60) DEF Types, OneInv
<1>8. ConnectInv'
  BY <1>0, <1>1 DEF Types, ConnectInv
<1> QED BY <1>2, <1>5, <1>6, <1>7, <1>8 DEF IInv

(* What get_handle finds, or that it finds nothing, keeps the invariant. *)
LEMMA GetHandleHolds ==
  ASSUME IInv, NEW t \in Threads, GetHandle(t)
  PROVE  IInv'
<1>0. Types /\ HeldInv /\ FreeInv /\ OneInv /\ ConnectInv
  BY DEF IInv
<1>1. pc[t] = "find" /\ handle_pool' = handle_pool /\ dsn' = dsn
  BY DEF GetHandle
<1>2. \A g \in handle_pool : thread_hash[g] = t /\ dsn[g] = want[t] => g \in Own(t)
  BY <1>0, NamedIsLockable DEF Own, Types
<1>3. CASE \E h \in Own(t) : Use(t, h)
  <2>1. PICK h \in Own(t) : Use(t, h)
    BY <1>3
  <2>2. h \in handle_pool /\ thread_hash[h] = t /\ dsn[h] = want[t] /\ Lockable(t, h)
    BY <2>1 DEF Own
  <2>3. dsn' = [dsn EXCEPT ![h] = want[t]] /\ handle_pool' = handle_pool \cup {h}
    BY <1>0, <1>1, <2>2 DEF Types
  <2>4. \A g \in handle_pool : thread_hash[g] = t /\ dsn[g] = want[t] => g = h
    BY <1>0, <2>2, DbCacheAssumption DEF OneInv
  <2>5. h \in Handles
    BY <1>0, <2>2 DEF Types
  <2> QED BY <2>1, <2>2, <2>3, <2>4, <2>5, UseHolds
<1>4. CASE Own(t) = {} /\ \E h \in Idle(t) : Use(t, h)
  <2>1. PICK h \in Idle(t) : Use(t, h)
    BY <1>4
  <2>2. h \in handle_pool /\ dsn[h] = want[t] /\ Lockable(t, h)
    BY <2>1 DEF Idle
  <2>3. dsn' = [dsn EXCEPT ![h] = want[t]] /\ handle_pool' = handle_pool \cup {h}
    BY <1>0, <1>1, <2>2 DEF Types
  <2>4. \A g \in handle_pool : ~(thread_hash[g] = t /\ dsn[g] = want[t])
    BY <1>2, <1>4
  <2>5. h \in Handles
    BY <1>0, <2>2 DEF Types
  <2> QED BY <2>1, <2>2, <2>3, <2>4, <2>5, UseHolds
<1>5. CASE /\ Own(t) = {}
           /\ pc' = [pc EXCEPT ![t] = "connect"]
           /\ UNCHANGED <<thread_hash, use_count, want, holds>>
  <2>1. Types'
    BY <1>0, <1>1, <1>5 DEF Types
  <2>2. HeldInv' /\ FreeInv' /\ OneInv'
    BY <1>0, <1>1, <1>5 DEF HeldInv, FreeInv, OneInv, Unlocked
  <2>3. ConnectInv'
    BY <1>0, <1>1, <1>2, <1>5 DEF Types, ConnectInv
  <2> QED BY <2>1, <2>2, <2>3 DEF IInv
<1> QED BY <1>3, <1>4, <1>5 DEF GetHandle

(* add_handle keeps it: the thread still has no handle of the database. *)
LEMMA AddHandleHolds ==
  ASSUME IInv, NEW t \in Threads, NEW h \in Handles, AddHandle(t, h)
  PROVE  IInv'
<1>0. Types /\ HeldInv /\ ConnectInv
  BY DEF IInv
<1>1. /\ pc[t] = "connect" /\ h \notin handle_pool /\ Use(t, h)
      /\ handle_pool' = handle_pool \cup {h} /\ dsn' = [dsn EXCEPT ![h] = want[t]]
  BY DEF AddHandle
<1>2. Lockable(t, h)
  BY <1>0, <1>1, SMTT(60) DEF Types, HeldInv, Lockable
<1>3. \A g \in handle_pool : ~(thread_hash[g] = t /\ dsn[g] = want[t])
  BY <1>0, <1>1 DEF ConnectInv
<1> QED BY <1>1, <1>2, <1>3, UseHolds

(* A release keeps it: use_count falls with the number of locks. *)
LEMMA ReleaseHolds ==
  ASSUME IInv, NEW t \in Threads, NEW h \in Handles, Release(t, h)
  PROVE  IInv'
<1>0. Types /\ HeldInv /\ FreeInv /\ OneInv /\ ConnectInv
  BY DEF IInv
<1>1. /\ holds[t][h] > 0
      /\ use_count' = [use_count EXCEPT ![h] = IF @ > 0 THEN @ - 1 ELSE @]
      /\ holds' = [holds EXCEPT ![t][h] = @ - 1]
      /\ pc' = [pc EXCEPT ![t] = "released"]
      /\ UNCHANGED <<handle_pool, dsn, thread_hash, want>>
  BY DEF Release
<1>2. holds[t][h] \in Nat /\ use_count[h] = holds[t][h] /\ thread_hash[h] = t
  BY <1>0, <1>1 DEF Types, HeldInv
<1>3. /\ use_count'[h] = holds[t][h] - 1 /\ use_count'[h] \in Nat
      /\ \A g \in Handles \ {h} : use_count'[g] = use_count[g]
      /\ use_count' \in [Handles -> Nat]
  BY <1>0, <1>1, <1>2, SMTT(60) DEF Types
<1>4. Types'
  BY <1>0, <1>1, <1>3 DEF Types
<1>5. \A u \in Threads, g \in Handles :
        holds'[u][g] = IF u = t /\ g = h THEN holds[u][g] - 1 ELSE holds[u][g]
  BY <1>0, <1>1 DEF Types
<1>6. \A u \in Threads \ {t} : holds[u][h] = 0
  BY <1>0, <1>2, NamedIsLockable DEF Lockable
<1>7. HeldInv'
  BY <1>0, <1>1, <1>2, <1>3, <1>5, <1>6, SMTT(60) DEF Types, HeldInv
<1>8. FreeInv'
  <2> SUFFICES ASSUME NEW g \in Handles, \A u \in Threads : holds'[u][g] = 0
               PROVE  use_count'[g] = 0
    BY DEF FreeInv, Unlocked
  <2>1. CASE g = h
    BY <1>0, <1>2, <1>3, <1>5, <2>1 DEF Types
  <2>2. CASE g # h
    <3>1. \A u \in Threads : holds[u][g] = 0
      BY <1>5, <2>2
    <3> QED BY <1>0, <1>3, <2>2, <3>1 DEF Types, FreeInv, Unlocked
  <2> QED BY <2>1, <2>2
<1>9. OneInv' /\ ConnectInv'
  BY <1>0, <1>1 DEF Types, OneInv, ConnectInv
<1> QED BY <1>4, <1>7, <1>8, <1>9 DEF IInv

(* A sweep keeps it: what it closes nobody has locked. *)
LEMMA SweepHolds ==
  ASSUME IInv, NEW k \in Sweeps, Sweep(k)
  PROVE  IInv'
<1>0. Types /\ HeldInv /\ FreeInv /\ OneInv /\ ConnectInv
  BY DEF IInv
<1> DEFINE closed == Closable(k)
<1>1. /\ handle_pool' = handle_pool \ closed
      /\ dsn' = [h \in Handles |-> IF h \in closed THEN None ELSE dsn[h]]
      /\ thread_hash' = [h \in Handles |-> IF h \in closed THEN None ELSE thread_hash[h]]
      /\ use_count' = [h \in Handles |-> IF h \in closed THEN 0 ELSE use_count[h]]
      /\ UNCHANGED <<pc, want, holds>>
  BY DEF Sweep
<1>2. \A h \in closed : Unlocked(h)
  BY DEF Closable
<1> HIDE DEF closed
<1>3. Types'
  BY <1>0, <1>1 DEF Types
<1>4. HeldInv' /\ FreeInv'
  BY <1>0, <1>1, <1>2, SMTT(60) DEF Types, HeldInv, FreeInv, Unlocked
<1>5. OneInv' /\ ConnectInv'
  BY <1>0, <1>1 DEF Types, OneInv, ConnectInv
<1> QED BY <1>3, <1>4, <1>5 DEF IInv

(* The steps that touch neither handles nor locks keep it. *)
LEMMA PassiveHolds ==
  ASSUME IInv, NEW t \in Threads,
         \/ \E d \in Dsns : Ask(t, d)
         \/ PassLimit(t) \/ GiveUp(t) \/ ConnectFails(t) \/ CountRelease(t)
  PROVE  IInv'
<1>0. Types /\ HeldInv /\ FreeInv /\ OneInv /\ ConnectInv
  BY DEF IInv
<1>1. /\ \E p \in {"idle", "limit", "find"} : pc' = [pc EXCEPT ![t] = p]
      /\ \E w \in Dsns \cup {None} : want' = [want EXCEPT ![t] = w]
  BY <1>0, SMTT(60) DEF Ask, PassLimit, GiveUp, ConnectFails, CountRelease, Return, Types
<1>2. UNCHANGED <<handle_pool, dsn, thread_hash, use_count, holds>>
  BY DEF Ask, PassLimit, GiveUp, ConnectFails, CountRelease, handleVars
<1>3. Types'
  BY <1>0, <1>1, <1>2, SMTT(60) DEF Types
<1>4. HeldInv' /\ FreeInv' /\ OneInv'
  BY <1>0, <1>2 DEF HeldInv, FreeInv, OneInv, Unlocked
<1>5. ConnectInv'
  BY <1>0, <1>1, <1>2 DEF Types, ConnectInv
<1> QED BY <1>3, <1>4, <1>5 DEF IInv

(* The invariant holds in every state. *)
LEMMA Invariance == Spec => []IInv
<1>1. IInv /\ [Next]_vars => IInv'
  <2> SUFFICES ASSUME IInv, [Next]_vars PROVE IInv'
    OBVIOUS
  <2>1. CASE \E t \in Threads : \/ \E d \in Dsns : Ask(t, d)
                                \/ Gets(t)
                                \/ \E h \in Handles : Release(t, h)
                                \/ CountRelease(t)
    BY <2>1, PassiveHolds, GetHandleHolds, AddHandleHolds, ReleaseHolds DEF Gets
  <2>2. CASE \E k \in Sweeps : Sweep(k)
    BY <2>2, SweepHolds
  <2>3. CASE Age \/ UNCHANGED vars
    BY <2>3, SMTT(60) DEF Age, vars, handleVars, IInv, Types, HeldInv, FreeInv, OneInv, ConnectInv,
                Unlocked
  <2> QED BY <2>1, <2>2, <2>3 DEF Next
<1> QED BY <1>1, InitHolds, PTL DEF Spec

(* Between get_handle and the release a handle stays open and is the thread's *)
(* own, whatever is asked for, connected, swept and unloaded meanwhile.       *)
THEOREM HandlesStayOpen == Spec => []HeldIsOpen
<1>1. IInv => HeldIsOpen
  <2> SUFFICES ASSUME IInv, NEW t \in Threads, NEW h \in Handles, holds[t][h] > 0
               PROVE  h \in handle_pool /\ Lockable(t, h) /\ use_count[h] = holds[t][h]
    BY DEF HeldIsOpen
  <2>1. h \in handle_pool /\ thread_hash[h] = t /\ use_count[h] = holds[t][h]
    BY DEF IInv, HeldInv
  <2> QED BY <2>1, NamedIsLockable
<1> QED BY <1>1, Invariance, PTL

(* The first loop of get_handle gives a thread the handle it already uses, so *)
(* that it never has two of one database.                                     *)
THEOREM ReadsAndWritesShare == Spec => []SameHandle
<1>1. IInv => SameHandle
  BY DbCacheAssumption, SMTT(60) DEF IInv, HeldInv, OneInv, SameHandle
<1> QED BY <1>1, Invariance, PTL

-----------------------------------------------------------------------------
(* The counters.  No bound on threads or handles is needed: what is counted   *)
(* is finite because it grows by one element at a time.                       *)
CountInv ==
  /\ IsFiniteSet(handle_pool) /\ total_handles = Cardinality(handle_pool)
  /\ IsFiniteSet(Locks) /\ IsFiniteSet(Released)
  /\ total_used_handles = Cardinality(Locks) + Cardinality(Released)

(* A lock is numbered from 1 to the depth of the nested mutex. *)
LEMMA LocksOf ==
  ASSUME NEW hs, NEW y
  PROVE  y \in UNION {{<<t, h, n>> : n \in 1 .. hs[t][h]} : t \in Threads, h \in Handles}
           <=> \E t \in Threads, h \in Handles : \E n \in 1 .. hs[t][h] : y = <<t, h, n>>
<1> DEFINE At(t, h) == {<<t, h, n>> : n \in 1 .. hs[t][h]}
<1>1. \A t, h : y \in At(t, h) <=> \E n \in 1 .. hs[t][h] : y = <<t, h, n>>
  OBVIOUS
<1> DEFINE U == UNION {At(t, h) : t \in Threads, h \in Handles}
<1>2. y \in U <=> \E t \in Threads, h \in Handles : \E n \in 1 .. hs[t][h] : y = <<t, h, n>>
  <2> HIDE DEF At
  <2>1. y \in U <=> \E t \in Threads, h \in Handles : y \in At(t, h)
    BY SMTT(60)
  <2> HIDE DEF U
  <2> QED BY <1>1, <2>1
<1> QED BY <1>2, SMTT(60)

(* The same of the locks before and after a step. *)
LEMMA LocksAre ==
  ASSUME NEW y
  PROVE  /\ y \in Locks <=> \E t \in Threads, h \in Handles : \E n \in 1 .. holds[t][h] :
                               y = <<t, h, n>>
         /\ y \in Locks' <=> \E t \in Threads, h \in Handles : \E n \in 1 .. holds'[t][h] :
                               y = <<t, h, n>>
BY LocksOf, SMTT(60) DEF Locks

(* Counting stays right when nothing that is counted changes. *)
LEMMA SameCount ==
  ASSUME CountInv, UNCHANGED <<handle_pool, countVars, holds>>, Released' = Released
  PROVE  CountInv'
BY SMTT(60) DEF CountInv, countVars, Locks

(* Locking a handle once more adds the one lock with the next number. *)
LEMMA UseLocks ==
  ASSUME Types, NEW t \in Threads, NEW h \in Handles, holds' = [holds EXCEPT ![t][h] = @ + 1]
  PROVE  /\ Locks' = Locks \cup {<<t, h, holds[t][h] + 1>>}
         /\ <<t, h, holds[t][h] + 1>> \notin Locks
<1>1. holds[t][h] \in Nat
  BY DEF Types
<1>2. \A u \in Threads, g \in Handles :
        holds'[u][g] = IF u = t /\ g = h THEN holds[u][g] + 1 ELSE holds[u][g]
  BY DEF Types
<1>3. \A u \in Threads, g \in Handles : holds[u][g] \in Nat
  BY DEF Types
<1>5. ASSUME NEW y \in Locks'
      PROVE  y \in Locks \cup {<<t, h, holds[t][h] + 1>>}
  <2>1. PICK u \in Threads, g \in Handles, n \in Nat : n \in 1 .. holds'[u][g] /\ y = <<u, g, n>>
    BY <1>5, LocksAre, SMTT(60)
  <2>2. n \in 1 .. holds[u][g] \/ (u = t /\ g = h /\ n = holds[t][h] + 1)
    BY <1>1, <1>2, <2>1, SMTT(60)
  <2> QED BY <2>1, <2>2, LocksAre
<1>6. ASSUME NEW y \in Locks \cup {<<t, h, holds[t][h] + 1>>}
      PROVE  y \in Locks'
  <2>1. CASE y \in Locks
    <3>1. PICK u \in Threads, g \in Handles, n \in Nat : n \in 1 .. holds[u][g] /\ y = <<u, g, n>>
      BY <2>1, LocksAre, SMTT(60)
    <3>2. n \in 1 .. holds'[u][g]
      BY <1>2, <1>3, <3>1, SMTT(60)
    <3> QED BY <3>1, <3>2, LocksAre
  <2>2. CASE y = <<t, h, holds[t][h] + 1>>
    <3>1. holds[t][h] + 1 \in 1 .. holds'[t][h]
      BY <1>1, <1>2, SMTT(60)
    <3> QED BY <2>2, <3>1, LocksAre
  <2> QED BY <2>1, <2>2
<1>7. <<t, h, holds[t][h] + 1>> \notin Locks
  <2> SUFFICES ASSUME NEW u \in Threads, NEW g \in Handles, NEW n \in 1 .. holds[u][g],
                      <<t, h, holds[t][h] + 1>> = <<u, g, n>>
               PROVE  FALSE
    BY LocksAre
  <2> QED BY <1>1, SMTT(60)
<1> QED BY <1>5, <1>6, <1>7

(* get_handle and add_handle count the use of the handle they return. *)
LEMMA UseCounts ==
  ASSUME Types, CountInv, NEW t \in Threads, NEW h \in Handles, Use(t, h), pc[t] # "released"
  PROVE  /\ IsFiniteSet(Locks') /\ IsFiniteSet(Released')
         /\ total_used_handles' = Cardinality(Locks') + Cardinality(Released')
<1>1. /\ total_used_handles' = total_used_handles + 1
      /\ holds' = [holds EXCEPT ![t][h] = @ + 1] /\ pc' = [pc EXCEPT ![t] = "idle"]
  BY DEF Use, Return
<1>2. Released' = Released
  BY <1>1 DEF Released, Types
<1>3. IsFiniteSet(Locks') /\ Cardinality(Locks') = Cardinality(Locks) + 1
  <2> DEFINE next == <<t, h, holds[t][h] + 1>>
  <2>1. Locks' = Locks \cup {next} /\ next \notin Locks
    BY <1>1, UseLocks
  <2> HIDE DEF next
  <2> QED BY <2>1, FS_AddElement DEF CountInv
<1>4. Cardinality(Locks) \in Nat /\ Cardinality(Released) \in Nat
  BY FS_CardinalityType DEF CountInv
<1> QED BY <1>1, <1>2, <1>3, <1>4, SMTT(60) DEF CountInv

(* Unlocking takes the highest number away; the release is then to be counted. *)
LEMMA ReleaseCounts ==
  ASSUME Types, CountInv, NEW t \in Threads, NEW h \in Handles, Release(t, h)
  PROVE  CountInv'
<1>1. /\ pc[t] = "idle" /\ holds[t][h] > 0 /\ holds' = [holds EXCEPT ![t][h] = @ - 1]
      /\ pc' = [pc EXCEPT ![t] = "released"]
      /\ UNCHANGED <<handle_pool, total_handles, total_used_handles>>
  BY DEF Release, countVars
<1>2. holds[t][h] \in Nat
  BY DEF Types
<1> DEFINE last == <<t, h, holds[t][h]>>
<1>3. \A u \in Threads, g \in Handles :
        holds'[u][g] = IF u = t /\ g = h THEN holds[u][g] - 1 ELSE holds[u][g]
  BY <1>1 DEF Types
<1>5. last \in Locks
  BY <1>1, <1>2, LocksAre, SMTT(60)
<1>6. ASSUME NEW y \in Locks'
      PROVE  y \in Locks \ {last}
  <2>1. PICK u \in Threads, g \in Handles, n \in Nat : n \in 1 .. holds'[u][g] /\ y = <<u, g, n>>
    BY <1>6, LocksAre, SMTT(60)
  <2>2. n \in 1 .. holds[u][g] /\ ~(u = t /\ g = h /\ n = holds[t][h])
    BY <1>1, <1>2, <1>3, <2>1, SMTT(60)
  <2> QED BY <2>1, <2>2, LocksAre
<1>7. ASSUME NEW y \in Locks \ {last}
      PROVE  y \in Locks'
  <2>1. PICK u \in Threads, g \in Handles, n \in Nat : n \in 1 .. holds[u][g] /\ y = <<u, g, n>>
    BY <1>7, LocksAre, SMTT(60)
  <2>2. n \in 1 .. holds'[u][g]
    BY <1>1, <1>2, <1>3, <1>7, <2>1, SMTT(60)
  <2> QED BY <2>1, <2>2, LocksAre
<1>8. Locks' = Locks \ {last}
  BY <1>6, <1>7
<1> HIDE DEF last
<1>9. IsFiniteSet(Locks') /\ Cardinality(Locks') = Cardinality(Locks) - 1
  BY <1>5, <1>8, FS_RemoveElement DEF CountInv
<1>10. Released' = Released \cup {t} /\ t \notin Released
  BY <1>1 DEF Released, Types
<1>11. IsFiniteSet(Released') /\ Cardinality(Released') = Cardinality(Released) + 1
  BY <1>10, FS_AddElement DEF CountInv
<1>12. Cardinality(Locks) \in Nat /\ Cardinality(Released) \in Nat
  BY FS_CardinalityType DEF CountInv
<1> QED BY <1>1, <1>9, <1>11, <1>12, SMTT(60) DEF CountInv

(* The count follows the unlock. *)
LEMMA CountReleaseCounts ==
  ASSUME Types, CountInv, NEW t \in Threads, CountRelease(t)
  PROVE  CountInv'
<1>1. /\ pc[t] = "released" /\ pc' = [pc EXCEPT ![t] = "idle"]
      /\ total_used_handles' = total_used_handles - 1
      /\ UNCHANGED <<handle_pool, total_handles, holds>>
  BY DEF CountRelease
<1>2. Released' = Released \ {t} /\ t \in Released
  BY <1>1 DEF Released, Types
<1>3. IsFiniteSet(Released') /\ Cardinality(Released') = Cardinality(Released) - 1
  BY <1>2, FS_RemoveElement DEF CountInv
<1>4. Cardinality(Locks) \in Nat /\ Cardinality(Released) \in Nat /\ Locks' = Locks
  BY <1>1, FS_CardinalityType, SMTT(60) DEF CountInv, Locks
<1> QED BY <1>1, <1>3, <1>4, SMTT(60) DEF CountInv

(* A sweep counts down what it has taken off the list. *)
LEMMA SweepCounts ==
  ASSUME CountInv, NEW k \in Sweeps, Sweep(k)
  PROVE  CountInv'
<1>1. /\ handle_pool' = handle_pool \ Closable(k)
      /\ total_handles' = total_handles - Cardinality(Closable(k))
      /\ UNCHANGED <<total_used_handles, pc, holds>>
  BY DEF Sweep
<1>2. Closable(k) \subseteq handle_pool
  BY DEF Closable
<1>3. IsFiniteSet(Closable(k)) /\ handle_pool \cap Closable(k) = Closable(k)
  BY <1>2, FS_Subset DEF CountInv
<1>4. /\ IsFiniteSet(handle_pool')
      /\ Cardinality(handle_pool') = Cardinality(handle_pool) - Cardinality(Closable(k))
  <2> DEFINE gone == Closable(k)
  <2>1. handle_pool' = handle_pool \ gone /\ handle_pool \cap gone = gone
    BY <1>1, <1>3
  <2> HIDE DEF gone
  <2>2. IsFiniteSet(handle_pool)
    BY DEF CountInv
  <2>3. /\ IsFiniteSet(handle_pool \ gone)
        /\ Cardinality(handle_pool \ gone)
             = Cardinality(handle_pool) - Cardinality(handle_pool \cap gone)
    BY <2>2, FS_Difference
  <2> QED BY <2>1, <2>3 DEF gone
<1>5. Locks' = Locks /\ Released' = Released
  BY <1>1, SMTT(60) DEF Locks, Released
<1> QED BY <1>1, <1>4, <1>5 DEF CountInv

(* The two counters that the limit is tested with are exact, up to the        *)
(* releases that have unlocked their handle and not yet counted it.           *)
THEOREM LimitCountsRight == Spec => []CountersAreExact
<1>1. Init => CountInv
  <2> SUFFICES ASSUME Init PROVE CountInv
    OBVIOUS
  <2>1. Locks = {} /\ Released = {}
    BY LocksAre, SMTT(60) DEF Init, Released
  <2>2. IsFiniteSet(handle_pool) /\ Cardinality(handle_pool) = 1
    BY FS_Singleton DEF Init
  <2> QED BY <2>1, <2>2, FS_EmptySet, SMTT(60) DEF Init, CountInv
<1>2. IInv /\ CountInv /\ [Next]_vars => CountInv'
  <2> SUFFICES ASSUME IInv, CountInv, [Next]_vars PROVE CountInv'
    OBVIOUS
  <2>0. Types
    BY DEF IInv
  <2>1. ASSUME NEW t \in Threads,
               \/ \E d \in Dsns : Ask(t, d)
               \/ PassLimit(t) \/ GiveUp(t) \/ ConnectFails(t)
        PROVE  CountInv'
    <3>1. UNCHANGED <<handle_pool, countVars, holds>>
      BY <2>1 DEF Ask, PassLimit, GiveUp, ConnectFails
    <3>2. Released' = Released
      BY <2>0, <2>1 DEF Ask, PassLimit, GiveUp, ConnectFails, Return, Released, Types
    <3> QED BY <3>1, <3>2, SameCount
  <2>2. ASSUME NEW t \in Threads, GetHandle(t)
        PROVE  CountInv'
    <3>1. pc[t] = "find" /\ UNCHANGED <<handle_pool, total_handles>>
      BY <2>2 DEF GetHandle
    <3>2. CASE \E h \in Own(t) \cup Idle(t) : Use(t, h)
      <4>1. PICK h \in Handles : Use(t, h)
        BY <2>0, <3>2 DEF Own, Idle, Types
      <4> QED BY <2>0, <3>1, <4>1, UseCounts DEF CountInv
    <3>3. CASE pc' = [pc EXCEPT ![t] = "connect"] /\ UNCHANGED <<total_used_handles, holds>>
      <4>1. Released' = Released
        BY <2>0, <3>1, <3>3 DEF Released, Types
      <4> QED BY <3>1, <3>3, <4>1, SameCount DEF countVars
    <3> QED BY <2>2, <3>2, <3>3 DEF GetHandle
  <2>3. ASSUME NEW t \in Threads, NEW h \in Handles, AddHandle(t, h)
        PROVE  CountInv'
    <3>1. /\ pc[t] = "connect" /\ h \notin handle_pool /\ Use(t, h)
          /\ handle_pool' = handle_pool \cup {h} /\ total_handles' = total_handles + 1
      BY <2>3 DEF AddHandle
    <3>2. IsFiniteSet(handle_pool') /\ Cardinality(handle_pool') = Cardinality(handle_pool) + 1
      BY <3>1, FS_AddElement DEF CountInv
    <3> QED BY <2>0, <3>1, <3>2, UseCounts DEF CountInv
  <2>4. CASE Age \/ UNCHANGED vars
    BY <2>4, SameCount DEF Age, vars, Released
  <2> QED
    BY <2>0, <2>1, <2>2, <2>3, <2>4, ReleaseCounts, CountReleaseCounts, SweepCounts
    DEF Next, Gets
<1>3. CountInv => CountersAreExact
  BY DEF CountInv, CountersAreExact
<1> QED BY <1>1, <1>2, <1>3, Invariance, PTL DEF Spec
=============================================================================

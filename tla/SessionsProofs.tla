--------------------------- MODULE SessionsProofs ---------------------------
(* The session table and the lock that keeps a located session alive, for any *)
(* number of threads, sessions and names.                                      *)
EXTENDS Sessions, FiniteSetTheorems, TLAPS

(* Zenon proves the leaves that do not name the SMT solver. *)
USE ZenonT(60)

Types ==
    /\ table \in [Keys -> Sess \cup {NULL}]
    /\ session_count \in Nat
    /\ hash_owner \in Threads \cup {NULL}
    /\ phase \in [Sess -> Phases]
    /\ uuid \in [Sess -> Uuids \cup {NULL}]
    /\ external_id \in [Sess -> ExternalIds \cup {NULL}]
    /\ down \in [Sess -> BOOLEAN]
    /\ destroyed \in [Sess -> BOOLEAN]
    /\ readers \in [Sess -> SUBSET Threads]
    /\ pc \in [Threads -> {"idle", "request", "found", "force", "held"}]
    /\ target \in [Threads -> Sess \cup {NULL}]
    /\ \A t \in Threads : pc[t] # "idle" => target[t] \in Sess

\* A session being requested belongs to one thread; a session has a uuid until it
\* is freed.
RequestInv ==
    /\ \A t \in Threads : pc[t] = "request" => phase[target[t]] = "requested"
    /\ \A t, x \in Threads : pc[t] = "request" /\ pc[x] = "request" /\ target[t] = target[x]
                                => t = x
    /\ \A s \in Sess : phase[s] \notin {"none", "freed"} => uuid[s] \in Uuids

StaleInv ==
    \A k \in Keys : table[k] # NULL =>
        /\ Hashed(table[k])
        /\ k = uuid[table[k]] \/ k = external_id[table[k]]

FoundInv ==
    \A t \in Threads : pc[t] \in {"found", "force"} =>
        Hashed(target[t]) /\ hash_owner = t

CountInv == session_count = Cardinality({s \in Sess : Hashed(s)})

\* What the lock adds, where nobody forces a locate and no session is destroyed
\* without its thread.
LockInv ==
    /\ \A t \in Threads : pc[t] # "force"
    /\ \A t \in Threads : pc[t] \in {"found", "held"} => t \in readers[target[t]]
    /\ \A s \in Sess : WriteLocked(s) => readers[s] = {}
    /\ \A s \in Sess : phase[s] \in {"flagged", "dying"} => destroyed[s]
    /\ \A s \in Sess : destroyed[s] => phase[s] \in {"flagged", "dying", "unhashed"}
    /\ \A t \in Threads : pc[t] = "held" => phase[target[t]] \in {"new", "run", "ended"}

-----------------------------------------------------------------------------
\* The steps that touch neither table nor locks nor the places of threads.
Quiet ==
    /\ down' \in [Sess -> BOOLEAN]
    /\ UNCHANGED <<tableVars, phase, destroyed, readers, pc, target>>

\* Next, with the quiet steps put together.
LEMMA NextSteps ==
  ASSUME Types, Next
  PROVE  \/ \E t \in Threads :
               \/ \E s \in Sess, u \in Uuids : Request(t, s, u)
               \/ \E k \in Keys : ForceFind(t, k) \/ \E m : LocateFind(t, k, m)
               \/ Insert(t) \/ LocateCheck(t) \/ ForceTry(t) \/ Rwunlock(t)
         \/ \E s \in Sess :
               \/ \E u \in Uuids : SetUuid(s, u)
               \/ \E x \in ExternalIds : SetExternalId(s, x)
               \/ Launch(s) \/ RunEnds(s) \/ WriteLock(s) \/ WriteUnlock(s) \/ DirectDestroy(s)
               \/ SetDestroyed(s) \/ Unhash(s) \/ Free(s)
         \/ Quiet
<1>1. ASSUME NEW t \in Threads, Hangup(t)
      PROVE  Quiet
  BY <1>1 DEF Hangup, Quiet, Types, userVars
<1>2. ASSUME NEW s \in Sess, HangsUp(s)
      PROVE  Quiet
  BY <1>2 DEF HangsUp, Quiet, Types, userVars
<1>3. ASSUME NEW t \in Threads, NEW k \in Keys, HupGone(t, k)
      PROVE  Quiet
  BY <1>3 DEF HupGone, Quiet, Types, sessVars
<1>4. ASSUME NEW t \in Threads, RequestDenied(t) \/ HupCollect(t)
      PROVE  Quiet
  BY <1>4 DEF RequestDenied, HupCollect, Quiet, Types, sessVars, userVars
<1>5. Second => Quiet
  BY DEF Second, Quiet, Types, sessVars, userVars
<1> QED
  BY <1>1, <1>2, <1>3, <1>4, <1>5, SessionsAssumption
  DEF Next, UserStep, UserStart, SessionStep, SessionStart

\* Every step keeps the types.
LEMMA TypesStep ==
  ASSUME Types, RequestInv, StaleInv, Next
  PROVE  Types'
<1> USE SessionsAssumption DEF Keys, Phase, Go, tableVars, sessVars, userVars
<1>1. ASSUME NEW t \in Threads, NEW s \in Sess, NEW u \in Uuids, Request(t, s, u)
      PROVE  Types'
  BY <1>1 DEF Request, Types, Phases
<1>2. ASSUME NEW t \in Threads, Insert(t)
      PROVE  Types'
  BY <1>2, SMTT(60) DEF Insert, Types, RequestInv, Phases
<1>3. ASSUME NEW t \in Threads, NEW k \in Keys, NEW m, LocateFind(t, k, m)
      PROVE  Types'
  BY <1>3, SMTT(60) DEF LocateFind, Tryrdlock, Types
<1>4. ASSUME NEW t \in Threads, LocateCheck(t)
      PROVE  Types'
  BY <1>4, SMTT(60) DEF LocateCheck, LeaveWith, Rdunlock, Unsafe, Types
<1>5. ASSUME NEW t \in Threads, NEW k \in Keys, ForceFind(t, k)
      PROVE  Types'
  BY <1>5 DEF ForceFind, Types
<1>6. ASSUME NEW t \in Threads, ForceTry(t)
      PROVE  Types'
  BY <1>6, SMTT(60) DEF ForceTry, LeaveWith, Tryrdlock, Types
<1>7. ASSUME NEW t \in Threads, Rwunlock(t)
      PROVE  Types'
  BY <1>7 DEF Rwunlock, Rdunlock, Types
<1>8. ASSUME NEW s \in Sess, NEW u \in Uuids, SetUuid(s, u)
      PROVE  Types'
  BY <1>8 DEF SetUuid, Types
<1>9. ASSUME NEW s \in Sess, NEW x \in ExternalIds, SetExternalId(s, x)
      PROVE  Types'
  BY <1>9 DEF SetExternalId, Types
<1>10. ASSUME NEW s \in Sess,
             \/ Launch(s) \/ RunEnds(s) \/ WriteLock(s)
             \/ WriteUnlock(s) \/ DirectDestroy(s)
      PROVE  Types'
  BY <1>10 DEF Launch, RunEnds, WriteLock, WriteUnlock, DirectDestroy, Types, Phases
<1>11. ASSUME NEW s \in Sess, SetDestroyed(s)
      PROVE  Types'
  BY <1>11 DEF SetDestroyed, Types, Phases
<1>12. ASSUME NEW s \in Sess, Unhash(s)
      PROVE  Types'
  BY <1>12, SMTT(60) DEF Unhash, Types, Phases
<1>13. ASSUME NEW s \in Sess, Free(s)
      PROVE  Types'
  BY <1>13 DEF Free, Types, Phases
<1>14. ASSUME Quiet
      PROVE  Types'
  BY <1>14 DEF Quiet, Types
<1> QED
  BY <1>1, <1>2, <1>3, <1>4, <1>5, <1>6, <1>7, <1>8, <1>9, <1>10, <1>11, <1>12, <1>13, <1>14, NextSteps

\* A session is requested by one thread only, since its object is new.
LEMMA RequestStep ==
  ASSUME Types, RequestInv, Next
  PROVE  RequestInv'
<1> USE SessionsAssumption DEF Keys, Phase, Go, tableVars, sessVars, userVars
<1>1. ASSUME NEW t \in Threads, NEW s \in Sess, NEW u \in Uuids, Request(t, s, u)
      PROVE  RequestInv'
  BY <1>1, SMTT(60) DEF Request, Types, RequestInv
<1>2. ASSUME NEW t \in Threads, Insert(t)
      PROVE  RequestInv'
  BY <1>2 DEF Insert, Types, RequestInv
<1>3. ASSUME NEW t \in Threads, NEW k \in Keys, NEW m, LocateFind(t, k, m)
      PROVE  RequestInv'
  BY <1>3, SMTT(60) DEF LocateFind, Tryrdlock, Types, RequestInv
<1>4. ASSUME NEW t \in Threads, LocateCheck(t)
      PROVE  RequestInv'
  BY <1>4, SMTT(60) DEF LocateCheck, LeaveWith, Rdunlock, Unsafe, Types, RequestInv
<1>5. ASSUME NEW t \in Threads, NEW k \in Keys, ForceFind(t, k)
      PROVE  RequestInv'
  BY <1>5 DEF ForceFind, Types, RequestInv
<1>6. ASSUME NEW t \in Threads, ForceTry(t)
      PROVE  RequestInv'
  BY <1>6, SMTT(60) DEF ForceTry, LeaveWith, Tryrdlock, Types, RequestInv
<1>7. ASSUME NEW t \in Threads, Rwunlock(t)
      PROVE  RequestInv'
  BY <1>7 DEF Rwunlock, Rdunlock, Types, RequestInv
<1>8. ASSUME NEW s \in Sess, NEW u \in Uuids, SetUuid(s, u)
      PROVE  RequestInv'
  BY <1>8 DEF SetUuid, Types, RequestInv
<1>9. ASSUME NEW s \in Sess, NEW x \in ExternalIds, SetExternalId(s, x)
      PROVE  RequestInv'
  BY <1>9 DEF SetExternalId, Types, RequestInv
<1>10. ASSUME NEW s \in Sess,
             \/ Launch(s) \/ RunEnds(s) \/ WriteLock(s)
             \/ WriteUnlock(s) \/ DirectDestroy(s)
      PROVE  RequestInv'
  BY <1>10, SMTT(60) DEF Launch, RunEnds, WriteLock, WriteUnlock, DirectDestroy, Types, RequestInv
<1>11. ASSUME NEW s \in Sess, SetDestroyed(s)
      PROVE  RequestInv'
  BY <1>11 DEF SetDestroyed, Types, RequestInv
<1>12. ASSUME NEW s \in Sess, Unhash(s)
      PROVE  RequestInv'
  BY <1>12 DEF Unhash, Types, RequestInv
<1>13. ASSUME NEW s \in Sess, Free(s)
      PROVE  RequestInv'
  BY <1>13 DEF Free, Types, RequestInv
<1>14. ASSUME Quiet
      PROVE  RequestInv'
  BY <1>14 DEF Quiet, Types, RequestInv
<1> QED
  BY <1>1, <1>2, <1>3, <1>4, <1>5, <1>6, <1>7, <1>8, <1>9, <1>10, <1>11, <1>12, <1>13, <1>14, NextSteps

\* Every change of a name changes the table with it.
LEMMA StaleStep ==
  ASSUME Types, RequestInv, StaleInv, Next
  PROVE  StaleInv'
<1> USE SessionsAssumption DEF Keys, Phase, Go, tableVars, sessVars, userVars
<1>1. ASSUME NEW t \in Threads, NEW s \in Sess, NEW u \in Uuids, Request(t, s, u)
      PROVE  StaleInv'
  BY <1>1, SMTT(60) DEF Request, Types, Hashed, RequestInv, StaleInv
<1>2. ASSUME NEW t \in Threads, Insert(t)
      PROVE  StaleInv'
  BY <1>2, SMTT(60) DEF Insert, Types, Hashed, RequestInv, StaleInv
<1>3. ASSUME NEW t \in Threads, NEW k \in Keys, NEW m, LocateFind(t, k, m)
      PROVE  StaleInv'
  BY <1>3 DEF LocateFind, Tryrdlock, Types, Hashed, RequestInv, StaleInv
<1>4. ASSUME NEW t \in Threads, LocateCheck(t)
      PROVE  StaleInv'
  BY <1>4 DEF LocateCheck, LeaveWith, Rdunlock, Unsafe, Types, Hashed, RequestInv,
      StaleInv
<1>5. ASSUME NEW t \in Threads, NEW k \in Keys, ForceFind(t, k)
      PROVE  StaleInv'
  BY <1>5 DEF ForceFind, Types, Hashed, RequestInv, StaleInv
<1>6. ASSUME NEW t \in Threads, ForceTry(t)
      PROVE  StaleInv'
  BY <1>6 DEF ForceTry, LeaveWith, Tryrdlock, Types, Hashed, RequestInv, StaleInv
<1>7. ASSUME NEW t \in Threads, Rwunlock(t)
      PROVE  StaleInv'
  BY <1>7 DEF Rwunlock, Rdunlock, Types, Hashed, RequestInv, StaleInv
<1>8. ASSUME NEW s \in Sess, NEW u \in Uuids, SetUuid(s, u)
      PROVE  StaleInv'
  BY <1>8, SMTT(60) DEF SetUuid, Types, Hashed, RequestInv, StaleInv
<1>9. ASSUME NEW s \in Sess, NEW x \in ExternalIds, SetExternalId(s, x)
      PROVE  StaleInv'
  BY <1>9, SMTT(60) DEF SetExternalId, Types, Hashed, RequestInv, StaleInv
<1>10. ASSUME NEW s \in Sess,
             \/ Launch(s) \/ RunEnds(s) \/ WriteLock(s)
             \/ WriteUnlock(s) \/ DirectDestroy(s)
      PROVE  StaleInv'
  BY <1>10, SMTT(60) DEF Launch, RunEnds, WriteLock, WriteUnlock, DirectDestroy, Types, Hashed,
      RequestInv, StaleInv
<1>11. ASSUME NEW s \in Sess, SetDestroyed(s)
      PROVE  StaleInv'
  BY <1>11, SMTT(60) DEF SetDestroyed, Types, Hashed, RequestInv, StaleInv
<1>12. ASSUME NEW s \in Sess, Unhash(s)
      PROVE  StaleInv'
  BY <1>12, SMTT(60) DEF Unhash, Types, Hashed, RequestInv, StaleInv
<1>13. ASSUME NEW s \in Sess, Free(s)
      PROVE  StaleInv'
  BY <1>13, SMTT(60) DEF Free, Types, Hashed, RequestInv, StaleInv
<1>14. ASSUME Quiet
      PROVE  StaleInv'
  BY <1>14 DEF Quiet, Types, Hashed, RequestInv, StaleInv
<1> QED
  BY <1>1, <1>2, <1>3, <1>4, <1>5, <1>6, <1>7, <1>8, <1>9, <1>10, <1>11, <1>12, <1>13, <1>14, NextSteps

\* Nobody unhashes a session under a locator, who has the mutex.
LEMMA FoundStep ==
  ASSUME Types, RequestInv, StaleInv, FoundInv, Next
  PROVE  FoundInv'
<1> USE SessionsAssumption DEF Keys, Phase, Go, tableVars, sessVars, userVars
<1>1. ASSUME NEW t \in Threads, NEW s \in Sess, NEW u \in Uuids, Request(t, s, u)
      PROVE  FoundInv'
  BY <1>1 DEF Request, Types, Hashed, FoundInv
<1>2. ASSUME NEW t \in Threads, Insert(t)
      PROVE  FoundInv'
  BY <1>2 DEF Insert, Types, Hashed, FoundInv
<1>3. ASSUME NEW t \in Threads, NEW k \in Keys, NEW m, LocateFind(t, k, m)
      PROVE  FoundInv'
  BY <1>3, SMTT(60) DEF LocateFind, Tryrdlock, Types, Hashed, FoundInv, StaleInv
<1>4. ASSUME NEW t \in Threads, LocateCheck(t)
      PROVE  FoundInv'
  BY <1>4, SMTT(60) DEF LocateCheck, LeaveWith, Rdunlock, Unsafe, Types, Hashed, FoundInv
<1>5. ASSUME NEW t \in Threads, NEW k \in Keys, ForceFind(t, k)
      PROVE  FoundInv'
  BY <1>5 DEF ForceFind, Types, Hashed, FoundInv, StaleInv
<1>6. ASSUME NEW t \in Threads, ForceTry(t)
      PROVE  FoundInv'
  BY <1>6, SMTT(60) DEF ForceTry, LeaveWith, Tryrdlock, Types, Hashed, FoundInv
<1>7. ASSUME NEW t \in Threads, Rwunlock(t)
      PROVE  FoundInv'
  BY <1>7 DEF Rwunlock, Rdunlock, Types, Hashed, FoundInv
<1>8. ASSUME NEW s \in Sess, NEW u \in Uuids, SetUuid(s, u)
      PROVE  FoundInv'
  BY <1>8 DEF SetUuid, Types, Hashed, FoundInv
<1>9. ASSUME NEW s \in Sess, NEW x \in ExternalIds, SetExternalId(s, x)
      PROVE  FoundInv'
  BY <1>9 DEF SetExternalId, Types, Hashed, FoundInv
<1>10. ASSUME NEW s \in Sess,
             \/ Launch(s) \/ RunEnds(s) \/ WriteLock(s)
             \/ WriteUnlock(s) \/ DirectDestroy(s)
      PROVE  FoundInv'
  BY <1>10, SMTT(60) DEF Launch, RunEnds, WriteLock, WriteUnlock, DirectDestroy, Types, Hashed,
      FoundInv
<1>11. ASSUME NEW s \in Sess, SetDestroyed(s)
      PROVE  FoundInv'
  BY <1>11 DEF SetDestroyed, Types, Hashed, FoundInv
<1>12. ASSUME NEW s \in Sess, Unhash(s)
      PROVE  FoundInv'
  BY <1>12 DEF Unhash, Types, Hashed, FoundInv
<1>13. ASSUME NEW s \in Sess, Free(s)
      PROVE  FoundInv'
  BY <1>13 DEF Free, Types, Hashed, FoundInv
<1>14. ASSUME Quiet
      PROVE  FoundInv'
  BY <1>14 DEF Quiet, Types, Hashed, FoundInv
<1> QED
  BY <1>1, <1>2, <1>3, <1>4, <1>5, <1>6, <1>7, <1>8, <1>9, <1>10, <1>11, <1>12, <1>13, <1>14, NextSteps

\* The write lock excludes the locators, and the flag those that come later.
LEMMA LockStep ==
  ASSUME ~ForcedLocates, ~DirectDestroys, Types, RequestInv, StaleInv, FoundInv, LockInv, Next
  PROVE  LockInv'
<1> USE SessionsAssumption DEF Keys, Phase, Go, tableVars, sessVars, userVars
<1>1. ASSUME NEW t \in Threads, NEW s \in Sess, NEW u \in Uuids, Request(t, s, u)
      PROVE  LockInv'
  BY <1>1, SMTT(60) DEF Request, Types, Hashed, WriteLocked, LockInv
<1>2. ASSUME NEW t \in Threads, Insert(t)
      PROVE  LockInv'
  BY <1>2, SMTT(60) DEF Insert, Types, Hashed, WriteLocked, LockInv, RequestInv
<1>3. ASSUME NEW t \in Threads, NEW k \in Keys, NEW m, LocateFind(t, k, m)
      PROVE  LockInv'
  BY <1>3, SMTT(60) DEF LocateFind, Tryrdlock, Types, Hashed, WriteLocked, LockInv, StaleInv
<1>4. ASSUME NEW t \in Threads, LocateCheck(t)
      PROVE  LockInv'
  <2>1. /\ pc \in [Threads -> {"idle", "request", "found", "force", "held"}]
        /\ target \in [Threads -> Sess \cup {NULL}] /\ target[t] \in Sess
        /\ readers \in [Sess -> SUBSET Threads]
    BY <1>4 DEF Types, LocateCheck
  <2>2. /\ UNCHANGED <<phase, destroyed>>
        /\ \A x \in Threads \ {t} : pc'[x] = pc[x] /\ target'[x] = target[x]
    BY <1>4, <2>1 DEF LocateCheck, LeaveWith
  <2>3. \/ pc'[t] = "idle"
        \/ pc'[t] = "held" /\ target'[t] = target[t] /\ readers' = readers /\ ~Unsafe(target[t])
    BY <1>4, <2>1 DEF LocateCheck, LeaveWith
  <2>4. /\ \A s \in Sess : readers'[s] \subseteq readers[s]
        /\ \A s \in Sess : \A x \in readers[s] : x # t => x \in readers'[s]
    BY <1>4, <2>1, SMTT(60) DEF LocateCheck, Rdunlock
  <2>5. target[t] \in Sess /\ Hashed(target[t]) /\ t \in readers[target[t]]
    BY <1>4, <2>1 DEF FoundInv, LockInv, LocateCheck
  <2> QED BY <2>1, <2>2, <2>3, <2>4, <2>5, SMTT(60)
      DEF LockInv, Types, Hashed, WriteLocked, Unsafe
<1>5. ASSUME NEW t \in Threads, NEW k \in Keys, ForceFind(t, k)
      PROVE  LockInv'
  BY <1>5 DEF ForceFind, Types, Hashed, WriteLocked, LockInv
<1>6. ASSUME NEW t \in Threads, ForceTry(t)
      PROVE  LockInv'
  BY <1>6 DEF ForceTry, LeaveWith, Tryrdlock, Types, Hashed, WriteLocked, LockInv
<1>7. ASSUME NEW t \in Threads, Rwunlock(t)
      PROVE  LockInv'
  BY <1>7, SMTT(60) DEF Rwunlock, Rdunlock, Types, Hashed, WriteLocked, LockInv
<1>8. ASSUME NEW s \in Sess, NEW u \in Uuids, SetUuid(s, u)
      PROVE  LockInv'
  BY <1>8 DEF SetUuid, Types, Hashed, WriteLocked, LockInv
<1>9. ASSUME NEW s \in Sess, NEW x \in ExternalIds, SetExternalId(s, x)
      PROVE  LockInv'
  BY <1>9 DEF SetExternalId, Types, Hashed, WriteLocked, LockInv
<1>10. ASSUME NEW s \in Sess,
             \/ Launch(s) \/ RunEnds(s) \/ WriteLock(s)
             \/ WriteUnlock(s) \/ DirectDestroy(s)
      PROVE  LockInv'
  BY <1>10, SMTT(60) DEF Launch, RunEnds, WriteLock, WriteUnlock, DirectDestroy, Types, Hashed,
      WriteLocked, LockInv
<1>11. ASSUME NEW s \in Sess, SetDestroyed(s)
      PROVE  LockInv'
  BY <1>11, SMTT(60) DEF SetDestroyed, Types, Hashed, WriteLocked, LockInv
<1>12. ASSUME NEW s \in Sess, Unhash(s)
      PROVE  LockInv'
  BY <1>12, SMTT(60) DEF Unhash, Types, Hashed, WriteLocked, LockInv
<1>13. ASSUME NEW s \in Sess, Free(s)
      PROVE  LockInv'
  BY <1>13, SMTT(60) DEF Free, Types, Hashed, WriteLocked, LockInv
<1>14. ASSUME Quiet
      PROVE  LockInv'
  BY <1>14 DEF Quiet, Types, Hashed, WriteLocked, LockInv
<1> QED
  BY <1>1, <1>2, <1>3, <1>4, <1>5, <1>6, <1>7, <1>8, <1>9, <1>10, <1>11, <1>12, <1>13, <1>14, NextSteps

\* Insertion and unhashing are the only steps that change which sessions are in
\* the table's keeping, by one each, and they change the count.
LEMMA CountStep ==
  ASSUME Types, RequestInv, CountInv, Next
  PROVE  CountInv'
<1> DEFINE In == {s \in Sess : Hashed(s)}
<1> USE SessionsAssumption DEF Keys, Phase, Go, tableVars, sessVars, userVars
<1>0. IsFiniteSet(In) /\ Cardinality(In) \in Nat
  BY FS_Subset, FS_CardinalityType
<1>1. ASSUME In' = In, session_count' = session_count
      PROVE  CountInv'
  BY <1>1 DEF CountInv
<1>2. ASSUME NEW t \in Threads, Insert(t)
      PROVE  CountInv'
  <2>1. target[t] \in Sess /\ target[t] \notin In /\ In' = In \cup {target[t]}
    BY <1>2, SMTT(60) DEF Insert, Types, RequestInv, Hashed
  <2>2. Cardinality(In') = Cardinality(In) + 1
    BY <1>0, <2>1, FS_AddElement
  <2> QED BY <1>2, <2>2 DEF Insert, CountInv
<1>3. ASSUME NEW s \in Sess, Unhash(s)
      PROVE  CountInv'
  <2>1. s \in In /\ In' = In \ {s}
    BY <1>3 DEF Unhash, Types, Hashed
  <2>2. Cardinality(In') = Cardinality(In) - 1
    <3> HIDE DEF In
    <3> QED BY <1>0, <2>1, FS_RemoveElement
  <2>3. Cardinality(In) # 0
    BY <1>0, <2>1, FS_EmptySet
  <2> QED BY <1>0, <1>3, <2>2, <2>3, SMTT(60) DEF Unhash, CountInv
<1>4. ASSUME NEW t \in Threads, NEW s \in Sess, NEW u \in Uuids, Request(t, s, u)
      PROVE  CountInv'
  BY <1>1, <1>4 DEF Request, Types, Hashed
<1>5. ASSUME NEW t \in Threads, NEW k \in Keys, NEW m, ForceFind(t, k) \/ LocateFind(t, k, m)
      PROVE  CountInv'
  BY <1>1, <1>5 DEF ForceFind, LocateFind, Hashed
<1>6. ASSUME NEW t \in Threads, LocateCheck(t) \/ ForceTry(t) \/ Rwunlock(t)
      PROVE  CountInv'
  BY <1>1, <1>6 DEF LocateCheck, ForceTry, Rwunlock, LeaveWith, Hashed
<1>7. ASSUME NEW s \in Sess, NEW k, SetUuid(s, k) \/ SetExternalId(s, k)
      PROVE  CountInv'
  BY <1>1, <1>7 DEF SetUuid, SetExternalId, Hashed
<1>8. ASSUME NEW s \in Sess,
             \/ Launch(s) \/ RunEnds(s) \/ WriteLock(s) \/ WriteUnlock(s) \/ DirectDestroy(s)
             \/ SetDestroyed(s) \/ Free(s)
      PROVE  CountInv'
  <2>1. In' = In
    BY <1>8, SMTT(60) DEF Launch, RunEnds, WriteLock, WriteUnlock, DirectDestroy, SetDestroyed, Free,
                Types, Hashed
  <2> QED
    BY <1>1, <1>8, <2>1
    DEF Launch, RunEnds, WriteLock, WriteUnlock, DirectDestroy, SetDestroyed, Free
<1>9. CASE Quiet
  BY <1>1, <1>9 DEF Quiet, Hashed
<1> QED
  BY <1>2, <1>3, <1>4, <1>5, <1>6, <1>7, <1>8, <1>9, NextSteps

-----------------------------------------------------------------------------
TableInv == Types /\ RequestInv /\ StaleInv /\ FoundInv /\ CountInv

\* The table's invariant holds at the start and is kept.
LEMMA TableInvariant == Spec => []TableInv
<1>1. Init => TableInv
  <2> SUFFICES ASSUME Init PROVE TableInv
    OBVIOUS
  <2>1. Types /\ RequestInv /\ StaleInv /\ FoundInv
    BY SessionsAssumption DEF Init, Types, RequestInv, StaleInv, FoundInv, Phases
  <2>2. {s \in Sess : Hashed(s)} = {}
    BY DEF Init, Hashed
  <2>3. CountInv
    BY <2>2, FS_EmptySet DEF Init, CountInv
  <2> QED BY <2>1, <2>3 DEF TableInv
<1>2. TableInv /\ [Next]_vars => TableInv'
  <2> SUFFICES ASSUME TableInv, [Next]_vars PROVE TableInv'
    OBVIOUS
  <2>1. CASE Next
    BY <2>1, TypesStep, RequestStep, StaleStep, FoundStep, CountStep DEF TableInv
  <2>2. CASE UNCHANGED vars
    BY <2>2 DEF vars, tableVars, sessVars, userVars, TableInv, Types, RequestInv, StaleInv,
                FoundInv, CountInv, Hashed
  <2> QED BY <2>1, <2>2
<1> QED BY <1>1, <1>2, PTL DEF Spec

\* The table leads to live sessions under their current names, and the count is
\* exact, whatever is renamed, requested twice or destroyed without a thread.
THEOREM NothingIsStale == Spec => []NoStaleKey
<1>1. TableInv => NoStaleKey
  BY DEF TableInv, StaleInv, CountInv, NoStaleKey
<1> QED BY <1>1, TableInvariant, PTL

\* A locator inside session_hash_mutex looks at a session that exists, even if it
\* forces its way and however the session came to be destroyed.
THEOREM FindersFind == Spec => []FoundIsThere
<1>1. TableInv => FoundIsThere
  BY DEF TableInv, FoundInv, FoundIsThere
<1> QED BY <1>1, TableInvariant, PTL

\* What switch_core_session_locate returned stays alive until rwunlock, provided
\* that nobody uses force_locate and no endpoint destroys a session directly.
THEOREM LocatedStays ==
  ASSUME ~ForcedLocates, ~DirectDestroys
  PROVE  Spec => []LocatedIsSafe
<1>1. Init => LockInv
  BY DEF Init, LockInv, WriteLocked
<1>2. TableInv /\ LockInv /\ [Next]_vars => LockInv'
  <2> SUFFICES ASSUME TableInv, LockInv, [Next]_vars PROVE LockInv'
    OBVIOUS
  <2>1. CASE Next
    BY <2>1, LockStep DEF TableInv
  <2>2. CASE UNCHANGED vars
    BY <2>2 DEF vars, sessVars, userVars, LockInv, WriteLocked
  <2> QED BY <2>1, <2>2
<1>3. TableInv /\ LockInv => LocatedIsSafe
  BY DEF TableInv, Types, LockInv, LocatedIsSafe
<1> QED BY <1>1, <1>2, <1>3, TableInvariant, PTL DEF Spec
=============================================================================

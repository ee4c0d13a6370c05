------------------------------ MODULE Sessions ------------------------------
(***************************************************************************)
(* The life of a session as other threads see it: admission, the session   *)
(* table, the read/write lock that keeps a located session alive, and      *)
(* destruction (src/src/switch_core_session.c, switch_core_rwlock.c).      *)
(*                                                                         *)
(* The table is guarded by runtime.session_hash_mutex (hash_owner), which  *)
(* a locator keeps over two steps so that a session's own thread, which    *)
(* does not take it before perform_destroy, can come in between.           *)
(***************************************************************************)
EXTENDS Integers, FiniteSets

CONSTANTS Threads,          \* threads that request, locate and hang up sessions
          Sess,             \* identities for session objects
          Uuids,            \* keys of the table that name a session
          ExternalIds,      \* what set_external_id may be asked for
          NULL,
          Requestable(_),   \* the use_uuid values a session may be requested with
          NewUuids,         \* what set_uuid may be asked for
          session_limit, sps_total,
          UnlimitedCalls,   \* whether some requests carry SOF_NO_LIMITS
          ForcedLocates,    \* whether switch_core_session_force_locate is called
          DirectDestroys    \* whether endpoints destroy a session never started

Keys == Uuids \cup ExternalIds

ASSUME SessionsAssumption ==
    /\ IsFiniteSet(Threads) /\ IsFiniteSet(Sess)
    /\ NULL \notin Threads \cup Sess \cup Keys
    /\ \A s \in Sess : Requestable(s) \subseteq Uuids
    /\ NewUuids \subseteq Uuids
    /\ session_limit \in Nat /\ sps_total \in Nat
    /\ {UnlimitedCalls, ForcedLocates, DirectDestroys} \subseteq BOOLEAN

VARIABLES table, session_count, sps,
          hash_owner,       \* holder of session_hash_mutex across steps
          phase,            \* where each session is in its life
          uuid, external_id,
          down,             \* the channel's state is CS_HANGUP or later
          destroyed,        \* SSF_DESTROYED
          readers,          \* the threads with a read lock on each session
          pc, target,       \* what each thread does, and with which session
          mode,             \* what it will do with the session it locates
          todo              \* the uuids hupall has still to visit

tableVars == <<table, session_count, hash_owner, uuid, external_id>>
sessVars  == <<phase, down, destroyed, readers>>
userVars  == <<pc, target, mode, todo>>
vars      == <<tableVars, sessVars, userVars, sps>>

Phases == {"none", "requested", "new", "run", "ended", "wrlocked", "flagged",
           "dying", "unhashed", "freed"}

\* The phases in which a session is in the table.
Hashed(s) == phase[s] \in {"new", "run", "ended", "wrlocked", "flagged", "dying"}

WriteLocked(s) == phase[s] \in {"wrlocked", "flagged"}

Init ==
    /\ table = [k \in Keys |-> NULL]
    /\ session_count = 0
    /\ sps = sps_total
    /\ hash_owner = NULL
    /\ phase = [s \in Sess |-> "none"]
    /\ uuid = [s \in Sess |-> NULL]
    /\ external_id = [s \in Sess |-> NULL]
    /\ down = [s \in Sess |-> FALSE]
    /\ destroyed = [s \in Sess |-> FALSE]
    /\ readers = [s \in Sess |-> {}]
    /\ pc = [t \in Threads |-> "idle"]
    /\ target = [t \in Threads |-> NULL]
    /\ mode = [t \in Threads |-> "keep"]
    /\ todo = [t \in Threads |-> {}]

Phase(s, p) == phase' = [phase EXCEPT ![s] = p]

Go(t, p, s, m) ==
    /\ pc' = [pc EXCEPT ![t] = p]
    /\ target' = [target EXCEPT ![t] = s]
    /\ mode' = [mode EXCEPT ![t] = m]
-----------------------------------------------------------------------------
(* switch_core_session_request_uuid *)

\* Over the limit, by the count read under throttle_mutex.
OverLimit == session_count + 1 > session_limit

\* sps = --runtime.sps is positive.
WithinRate == sps - 1 > 0

\* The checks, up to the point where the new session is a private object of the
\* requesting thread.  The duplicate test reads the table without its mutex, and
\* nothing reserves the place in session_count that the limit test saw.
Request(t, s, u) ==
    /\ pc[t] = "idle" /\ todo[t] = {}
    /\ phase[s] = "none"
    /\ u \in Requestable(s) /\ table[u] = NULL
    /\ \/ /\ UnlimitedCalls
          /\ UNCHANGED sps
       \/ /\ WithinRate /\ ~OverLimit
          /\ sps' = sps - 1
    /\ Phase(s, "requested")
    /\ uuid' = [uuid EXCEPT ![s] = u]
    /\ Go(t, "request", s, "keep")
    /\ UNCHANGED <<table, session_count, hash_owner, external_id,
                   down, destroyed, readers, todo>>

\* Throttled or over the limit: the request has used up its share of the
\* second's budget all the same.  The decrement is bounded at zero here; below
\* it only repeats the same answer.
RequestDenied(t) ==
    /\ pc[t] = "idle" /\ todo[t] = {}
    /\ ~WithinRate \/ OverLimit
    /\ sps > 0
    /\ sps' = sps - 1
    /\ UNCHANGED <<tableVars, sessVars, userVars>>

\* The insertion; an entry under the same key is replaced.
Insert(t) ==
    /\ pc[t] = "request" /\ hash_owner = NULL
    /\ table' = [table EXCEPT ![uuid[target[t]]] = target[t]]
    /\ session_count' = session_count + 1
    /\ Phase(target[t], "new")
    /\ Go(t, "idle", NULL, "keep")
    /\ UNCHANGED <<hash_owner, uuid, external_id, down, destroyed, readers,
                   todo, sps>>

\* The timer thread's once-a-second reset, under throttle_mutex.
Second ==
    /\ sps' = sps_total
    /\ UNCHANGED <<tableVars, sessVars, userVars>>
-----------------------------------------------------------------------------
(* Names: by the creator of a new session or by its own thread *)

\* Mutant of SetUuid: the entry under the old name stays.
SetUuidKeepsOld(s, u) ==
    /\ phase[s] \in {"new", "run"} /\ hash_owner = NULL
    /\ u # uuid[s] /\ table[u] = NULL
    /\ table' = [table EXCEPT ![u] = s]
    /\ uuid' = [uuid EXCEPT ![s] = u]
    /\ UNCHANGED <<session_count, hash_owner, external_id, sessVars, userVars, sps>>

SetUuid(s, u) ==
    /\ phase[s] \in {"new", "run"} /\ hash_owner = NULL
    /\ u # uuid[s] /\ table[u] = NULL
    /\ table' = [table EXCEPT ![uuid[s]] = NULL, ![u] = s]
    /\ uuid' = [uuid EXCEPT ![s] = u]
    /\ UNCHANGED <<session_count, hash_owner, external_id, sessVars, userVars, sps>>

SetExternalId(s, x) ==
    /\ phase[s] \in {"new", "run"} /\ hash_owner = NULL
    /\ x # external_id[s]
    /\ x # uuid[s] => table[x] = NULL
    /\ table' = [k \in Keys |-> IF k = x /\ x # uuid[s] THEN s
                                ELSE IF k = external_id[s] /\ k # uuid[s] THEN NULL
                                ELSE table[k]]
    /\ external_id' = [external_id EXCEPT ![s] = x]
    /\ UNCHANGED <<session_count, hash_owner, uuid, sessVars, userVars, sps>>
-----------------------------------------------------------------------------
(* Finding a session *)

\* Leave session_hash_mutex with session s, or with nothing.
LeaveWith(t, p, s) ==
    /\ hash_owner' = NULL
    /\ Go(t, p, s, IF p = "idle" THEN "keep" ELSE mode[t])
    /\ UNCHANGED <<table, session_count, uuid, external_id>>

\* switch_thread_rwlock_tryrdlock succeeds unless a writer has the lock.
Tryrdlock(t, s) ==
    /\ ~WriteLocked(s)
    /\ readers' = [readers EXCEPT ![s] = @ \cup {t}]

Rdunlock(t, s) == readers' = [readers EXCEPT ![s] = @ \ {t}]

\* switch_core_session_locate, message_send and event_send: the table lookup and
\* the first half of switch_core_session_read_lock.
LocateFind(t, u, m) ==
    /\ pc[t] = "idle" /\ hash_owner = NULL
    /\ table[u] # NULL
    /\ IF todo[t] = {} THEN m \in {"keep", "send"} ELSE m = "hup" /\ u \in todo[t]
    /\ todo' = [todo EXCEPT ![t] = @ \ {u}]
    /\ \/ /\ Tryrdlock(t, table[u])
          /\ hash_owner' = t
          /\ Go(t, "found", table[u], m)
          /\ UNCHANGED <<table, session_count, uuid, external_id>>
       \/ /\ WriteLocked(table[u])
          /\ UNCHANGED <<tableVars, readers, pc, target, mode>>
    /\ UNCHANGED <<phase, down, destroyed, sps>>

\* Mutant of Unsafe: having the lock is taken to be enough.
UnsafeNever(s) == FALSE

\* What switch_core_session_read_lock looks at once it has the lock.
Unsafe(s) == destroyed[s] \/ down[s]

\* Mutant of LocateCheck: backing out forgets the lock.
LocateCheckLeaks(t) ==
    /\ pc[t] = "found"
    /\ \/ /\ Unsafe(target[t]) \/ mode[t] = "send"
          /\ LeaveWith(t, "idle", NULL)
       \/ /\ ~Unsafe(target[t]) /\ mode[t] # "send"
          /\ LeaveWith(t, "held", target[t])
    /\ UNCHANGED <<readers, phase, down, destroyed, todo, sps>>

\* The second half: back out, or leave the mutex with the lock (a sender makes
\* its delivery under the mutex and is done).
LocateCheck(t) ==
    /\ pc[t] = "found"
    /\ \/ /\ Unsafe(target[t]) \/ mode[t] = "send"
          /\ Rdunlock(t, target[t])
          /\ LeaveWith(t, "idle", NULL)
       \/ /\ ~Unsafe(target[t]) /\ mode[t] # "send"
          /\ LeaveWith(t, "held", target[t])
          /\ UNCHANGED readers
    /\ UNCHANGED <<phase, down, destroyed, todo, sps>>

\* switch_core_session_force_locate looks at the flag first ...
ForceFind(t, u) ==
    /\ ForcedLocates
    /\ pc[t] = "idle" /\ todo[t] = {} /\ hash_owner = NULL
    /\ table[u] # NULL /\ ~destroyed[table[u]]
    /\ hash_owner' = t
    /\ Go(t, "force", table[u], "keep")
    /\ UNCHANGED <<table, session_count, uuid, external_id, sessVars, todo, sps>>

\* ... and takes the lock afterwards.
ForceTry(t) ==
    /\ pc[t] = "force"
    /\ \/ /\ Tryrdlock(t, target[t])
          /\ LeaveWith(t, "held", target[t])
       \/ /\ WriteLocked(target[t])
          /\ LeaveWith(t, "idle", NULL)
          /\ UNCHANGED readers
    /\ UNCHANGED <<phase, down, destroyed, todo, sps>>

\* Mutant of Rwunlock: hupall need not have hung up.
RwunlockAnyway(t) ==
    /\ pc[t] = "held"
    /\ Rdunlock(t, target[t])
    /\ Go(t, "idle", NULL, "keep")
    /\ UNCHANGED <<tableVars, phase, down, destroyed, todo, sps>>

\* switch_core_session_rwunlock by the one who located it; hupall hangs up first.
Rwunlock(t) ==
    /\ pc[t] = "held"
    /\ mode[t] = "hup" => down[target[t]]
    /\ Rdunlock(t, target[t])
    /\ Go(t, "idle", NULL, "keep")
    /\ UNCHANGED <<tableVars, phase, down, destroyed, todo, sps>>

\* switch_channel_hangup by a holder.
Hangup(t) ==
    /\ pc[t] = "held" /\ ~down[target[t]]
    /\ down' = [down EXCEPT ![target[t]] = TRUE]
    /\ UNCHANGED <<tableVars, phase, destroyed, readers, userVars, sps>>

\* switch_core_session_hupall, first half: the uuids of all sessions that can be
\* read-locked, collected under the mutex.
HupCollect(t) ==
    /\ pc[t] = "idle" /\ todo[t] = {} /\ hash_owner = NULL
    /\ todo' = [todo EXCEPT ![t] =
                    {uuid[s] : s \in {x \in Sess : /\ \E k \in Keys : table[k] = x
                                                   /\ ~WriteLocked(x) /\ ~Unsafe(x)}}]
    /\ UNCHANGED <<tableVars, sessVars, pc, target, mode, sps>>

\* A uuid that is no longer in the table.
HupGone(t, u) ==
    /\ pc[t] = "idle" /\ hash_owner = NULL
    /\ u \in todo[t] /\ table[u] = NULL
    /\ todo' = [todo EXCEPT ![t] = @ \ {u}]
    /\ UNCHANGED <<tableVars, sessVars, pc, target, mode, sps>>
-----------------------------------------------------------------------------
(* switch_core_session_thread and switch_core_session_perform_destroy *)

Launch(s) ==
    /\ phase[s] = "new"
    /\ Phase(s, "run")
    /\ UNCHANGED <<tableVars, down, destroyed, readers, userVars, sps>>

\* The session hangs itself up, at the latest when its state machine ends.
HangsUp(s) ==
    /\ phase[s] = "run" /\ ~down[s]
    /\ down' = [down EXCEPT ![s] = TRUE]
    /\ UNCHANGED <<tableVars, phase, destroyed, readers, userVars, sps>>

\* switch_core_session_run returns; the soft-lock wait is bounded and decides
\* nothing.
RunEnds(s) ==
    /\ phase[s] = "run" /\ down[s]
    /\ Phase(s, "ended")
    /\ UNCHANGED <<tableVars, down, destroyed, readers, userVars, sps>>

WriteLock(s) ==
    /\ phase[s] = "ended" /\ readers[s] = {}
    /\ Phase(s, "wrlocked")
    /\ UNCHANGED <<tableVars, down, destroyed, readers, userVars, sps>>

SetDestroyed(s) ==
    /\ phase[s] = "wrlocked"
    /\ destroyed' = [destroyed EXCEPT ![s] = TRUE]
    /\ Phase(s, "flagged")
    /\ UNCHANGED <<tableVars, down, readers, userVars, sps>>

WriteUnlock(s) ==
    /\ phase[s] = "flagged"
    /\ Phase(s, "dying")
    /\ UNCHANGED <<tableVars, down, destroyed, readers, userVars, sps>>

\* An endpoint gives up on a session it requested: switch_core_session_destroy
\* without a thread, a write lock or a flag.
DirectDestroy(s) ==
    /\ DirectDestroys
    /\ phase[s] = "new"
    /\ Phase(s, "dying")
    /\ UNCHANGED <<tableVars, down, destroyed, readers, userVars, sps>>

\* Mutant of Unhash: without the mutex.
UnhashUnlocked(s) ==
    /\ phase[s] = "dying"
    /\ table' = [k \in Keys |-> IF k \in {uuid[s], external_id[s]} THEN NULL ELSE table[k]]
    /\ session_count' = IF session_count > 0 THEN session_count - 1 ELSE 0
    /\ Phase(s, "unhashed")
    /\ UNCHANGED <<hash_owner, uuid, external_id, down, destroyed, readers, userVars, sps>>

\* perform_destroy under session_hash_mutex.
Unhash(s) ==
    /\ phase[s] = "dying" /\ hash_owner = NULL
    /\ table' = [k \in Keys |-> IF k \in {uuid[s], external_id[s]} THEN NULL ELSE table[k]]
    /\ session_count' = IF session_count > 0 THEN session_count - 1 ELSE 0
    /\ Phase(s, "unhashed")
    /\ UNCHANGED <<hash_owner, uuid, external_id, down, destroyed, readers, userVars, sps>>

\* The rest of perform_destroy, to the end of the session's memory pool: what the
\* object held means nothing any more.
Free(s) ==
    /\ phase[s] = "unhashed"
    /\ Phase(s, "freed")
    /\ uuid' = [uuid EXCEPT ![s] = NULL]
    /\ external_id' = [external_id EXCEPT ![s] = NULL]
    /\ down' = [down EXCEPT ![s] = FALSE]
    /\ destroyed' = [destroyed EXCEPT ![s] = FALSE]
    /\ UNCHANGED <<table, session_count, hash_owner, readers, userVars, sps>>
-----------------------------------------------------------------------------
UserStep(t) ==
    \/ Insert(t) \/ LocateCheck(t) \/ ForceTry(t) \/ Rwunlock(t)
    \/ \E u \in Keys : HupGone(t, u) \/ (todo[t] # {} /\ LocateFind(t, u, "hup"))
    \/ mode[t] = "hup" /\ Hangup(t)

UserStart(t) ==
    \/ \E s \in Sess, u \in Uuids : Request(t, s, u)
    \/ RequestDenied(t)
    \/ \E u \in Keys, m \in {"keep", "send"} : LocateFind(t, u, m)
    \/ \E u \in Keys : ForceFind(t, u)
    \/ mode[t] # "hup" /\ Hangup(t)
    \/ HupCollect(t)

SessionStep(s) ==
    \/ RunEnds(s) \/ WriteLock(s) \/ SetDestroyed(s) \/ WriteUnlock(s)
    \/ Unhash(s) \/ Free(s)

SessionStart(s) ==
    \/ \E u \in NewUuids : SetUuid(s, u)
    \/ \E x \in ExternalIds : SetExternalId(s, x)
    \/ Launch(s) \/ HangsUp(s) \/ DirectDestroy(s)

Next ==
    \/ \E t \in Threads : UserStep(t) \/ UserStart(t)
    \/ \E s \in Sess : SessionStep(s) \/ SessionStart(s)
    \/ Second

Spec == Init /\ [][Next]_vars

\* A thread that has begun something gets on with it, and a mutex or write lock
\* that is free again and again is got in the end.  Nothing says that a session
\* is ever launched or hung up.
FairSpec ==
    /\ Spec
    /\ \A t \in Threads : SF_vars(UserStep(t))
    /\ \A s \in Sess : SF_vars(SessionStep(s))
-----------------------------------------------------------------------------
(* Properties *)

TypeOK ==
    /\ table \in [Keys -> Sess \cup {NULL}]
    /\ session_count \in Nat
    /\ sps \in 0 .. sps_total
    /\ hash_owner \in Threads \cup {NULL}
    /\ phase \in [Sess -> Phases]
    /\ uuid \in [Sess -> Uuids \cup {NULL}]
    /\ external_id \in [Sess -> ExternalIds \cup {NULL}]
    /\ down \in [Sess -> BOOLEAN]
    /\ destroyed \in [Sess -> BOOLEAN]
    /\ readers \in [Sess -> SUBSET Threads]
    /\ pc \in [Threads -> {"idle", "request", "found", "force", "held"}]
    /\ target \in [Threads -> Sess \cup {NULL}]
    /\ mode \in [Threads -> {"keep", "send", "hup"}]
    /\ todo \in [Threads -> SUBSET Uuids]

\* A located session stays: between a successful locate and the rwunlock the
\* session is neither flagged as destroyed nor taken apart, whatever its own
\* thread does meanwhile ("success if it is safe to read from the session",
\* switch_core.h).
LocatedIsSafe ==
    \A t \in Threads : pc[t] = "held" =>
        /\ phase[target[t]] \in {"new", "run", "ended"}
        /\ ~destroyed[target[t]]

\* A locator inside session_hash_mutex never touches freed memory, whichever way
\* the session came to be destroyed.
FoundIsThere ==
    \A t \in Threads : pc[t] \in {"found", "force"} => Hashed(target[t])

\* The table has no stale entry: every key leads to a session that is in it under
\* that name.  This survives renaming, external ids and requests that race on one
\* use_uuid.  And session_count is the number of sessions in the table's keeping.
NoStaleKey ==
    /\ \A k \in Keys : table[k] # NULL =>
        /\ Hashed(table[k])
        /\ k \in {uuid[table[k]], external_id[table[k]]}
    /\ session_count = Cardinality({s \in Sess : Hashed(s)})

\* hupall works from names collected earlier: a session it collected is hung up
\* or gone in the end, unless it was renamed in between.
HupAllHangsUp ==
    \A t \in Threads, s \in Sess, u \in Uuids :
        (u \in todo[t] /\ uuid[s] = u /\ Hashed(s)) ~>
            (down[s] \/ ~Hashed(s) \/ uuid[s] # u)

\* A session that has been hung up is freed in the end, though locators keep
\* taking and backing out of its read lock.
DownIsFreed ==
    \A s \in Sess : (phase[s] = "run" /\ down[s]) ~> phase[s] = "freed"

\* switch.conf.xml on max-sessions: "Max number of sessions to allow at any given
\* time."
MaxSessions == session_count <= session_limit
=============================================================================

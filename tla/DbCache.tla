------------------------------ MODULE DbCache ------------------------------
(***************************************************************************)
(* The cache of database handles (switch_core_sqldb.c).  A thread asks for *)
(* a handle of a database and gets one it already uses, an idle one or a   *)
(* new connection; the mutex of a handle is held for as long as the handle *)
(* is used.  A sweeper closes handles: the idle ones every 30 seconds, all *)
(* idle ones on request, those of a database module that is unloaded, and  *)
(* all of them at shutdown.                                                *)
(*                                                                         *)
(* handle_pool is a linked list; which of several idle handles is found    *)
(* first is left open.  A sweep keeps dbh_mutex to its end, and its thread *)
(* uses no handle; what others can do meanwhile (read the counters, unlock *)
(* a handle) could as well be done before or after it.  CDF_PRUNE is set   *)
(* nowhere and left out.                                                   *)
(*                                                                         *)
(* get_handle compares hash values of db_str and of the thread's number,   *)
(* never the strings: Dsns and Threads stand for what these hashes tell    *)
(* apart.  Two databases whose strings have one hash, as those that differ *)
(* only in case do, are one element of Dsns.                               *)
(* The number is hashed to the length of db_str only, so that a name of a  *)
(* database of a few letters leaves the last digits out.                   *)
(***************************************************************************)
EXTENDS Naturals, FiniteSets, FiniteSetsExt

CONSTANTS Threads,
          Dsns,             \* what the hash of db_str tells apart: name, type, user, password
          Handles,          \* the memory of switch_cache_db_handle_t
          None,             \* no database, no thread
          max_db_handles,   \* 0: no limit
          Interfaces,       \* the databases of a loadable module
          CoreDsn, Core,    \* the core's database and the handle it was started with
          InMemory,         \* whether that database is in memory
          MaxNest           \* bound: handles one thread uses at a time

ASSUME DbCacheAssumption ==
    /\ None \notin Dsns /\ None \notin Threads
    /\ Interfaces \subseteq Dsns /\ CoreDsn \in Dsns \ Interfaces
    /\ Core \in Handles /\ InMemory \in BOOLEAN
    /\ max_db_handles \in Nat /\ MaxNest \in Nat

VARIABLES handle_pool, total_handles, total_used_handles,
          dsn, thread_hash, use_count,  \* fields of a handle
          old,              \* the handles last used more than SQL_CACHE_TIMEOUT ago
          db_thread_running,
          pc, want,         \* a thread: its place, and the database it asks for
          holds             \* how often it has locked the mutex of each handle

handleVars == <<dsn, thread_hash, use_count, old>>
countVars  == <<total_handles, total_used_handles>>
vars == <<handle_pool, countVars, handleVars, pc, want, holds, db_thread_running>>

Nonexpiring == IF InMemory THEN {Core} ELSE {}

\* After switch_core_sqldb_start, which has released its handle.
Init ==
    /\ handle_pool = {Core}
    /\ total_handles = 1 /\ total_used_handles = 0
    /\ dsn = [h \in Handles |-> IF h = Core THEN CoreDsn ELSE None]
    /\ thread_hash = [h \in Handles |-> None]
    /\ use_count = [h \in Handles |-> 0]
    /\ old = {} /\ db_thread_running = TRUE
    /\ pc = [t \in Threads |-> "idle"] /\ want = [t \in Threads |-> None]
    /\ holds = [t \in Threads |-> [h \in Handles |-> 0]]

\* switch_mutex_trylock on the (nested) mutex of a handle.
Lockable(t, h) == \A u \in Threads \ {t} : holds[u][h] = 0
Unlocked(h)    == \A t \in Threads : holds[t][h] = 0

-----------------------------------------------------------------------------
(* _switch_cache_db_get_db_handle *)

Ask(t, d) ==
    /\ pc[t] = "idle"
    /\ SumFunctionOnSet(holds[t], Handles) < MaxNest
    /\ want' = [want EXCEPT ![t] = d]
    /\ pc' = [pc EXCEPT ![t] = "limit"]
    /\ UNCHANGED <<handle_pool, countVars, handleVars, holds, db_thread_running>>

Return(t) ==
    /\ pc' = [pc EXCEPT ![t] = "idle"]
    /\ want' = [want EXCEPT ![t] = None]

\* The counters are read without the mutex.
Exhausted ==
    /\ max_db_handles > 0
    /\ total_handles >= max_db_handles
    /\ total_used_handles >= total_handles

PassLimit(t) ==
    /\ pc[t] = "limit" /\ ~Exhausted
    /\ pc' = [pc EXCEPT ![t] = "find"]
    /\ UNCHANGED <<handle_pool, countVars, handleVars, want, holds, db_thread_running>>

\* db_handle_timeout has passed.
GiveUp(t) ==
    /\ pc[t] = "limit" /\ Exhausted
    /\ Return(t)
    /\ UNCHANGED <<handle_pool, countVars, handleVars, holds, db_thread_running>>

\* What get_handle and add_handle do to the handle that the thread will use.
Use(t, h) ==
    /\ use_count' = [use_count EXCEPT ![h] = @ + 1]
    /\ total_used_handles' = total_used_handles + 1
    /\ thread_hash' = [thread_hash EXCEPT ![h] = t]
    /\ holds' = [holds EXCEPT ![t][h] = @ + 1]
    /\ old' = old \ {h}
    /\ Return(t)
    /\ UNCHANGED db_thread_running

\* Mutant of Own: the first loop is left out.
OwnNone(t) == {}

\* The handles that the first and the second loop of get_handle accept.
Own(t)  == {h \in handle_pool : thread_hash[h] = t /\ dsn[h] = want[t] /\ Lockable(t, h)}
Idle(t) == {h \in handle_pool : dsn[h] = want[t] /\ use_count[h] = 0 /\ Lockable(t, h)}

GetHandle(t) ==
    /\ pc[t] = "find"
    /\ \/ \E h \in Own(t) : Use(t, h)
       \/ /\ Own(t) = {}
          /\ \E h \in Idle(t) : Use(t, h)
       \/ /\ Own(t) = {} /\ Idle(t) = {}
          /\ pc' = [pc EXCEPT ![t] = "connect"]
          /\ UNCHANGED <<total_used_handles, thread_hash, use_count, old, want, holds,
                         db_thread_running>>
    /\ UNCHANGED <<handle_pool, total_handles, dsn>>

ConnectFails(t) ==
    /\ pc[t] = "connect"
    /\ Return(t)
    /\ UNCHANGED <<handle_pool, countVars, handleVars, holds, db_thread_running>>

\* Connected, outside of the mutex; then add_handle.  (The memory of the core's handle
\* is not used for another one, so that Nonexpiring is a constant.)
AddHandle(t, h) ==
    /\ pc[t] = "connect"
    /\ h \notin handle_pool \cup {Core}
    /\ handle_pool' = handle_pool \cup {h}
    /\ total_handles' = total_handles + 1
    /\ dsn' = [dsn EXCEPT ![h] = want[t]]
    /\ Use(t, h)

-----------------------------------------------------------------------------
(* switch_cache_db_release_db_handle *)

Release(t, h) ==
    /\ pc[t] = "idle" /\ holds[t][h] > 0
    /\ old' = old \ {h}
    /\ use_count' = [use_count EXCEPT ![h] = IF @ > 0 THEN @ - 1 ELSE @]
    /\ holds' = [holds EXCEPT ![t][h] = @ - 1]
    /\ pc' = [pc EXCEPT ![t] = "released"]
    /\ UNCHANGED <<handle_pool, countVars, dsn, thread_hash, want, db_thread_running>>

\* Mutant of CountRelease: a handle the thread still uses is not counted down.
CountReleaseOfLast(t) ==
    /\ pc[t] = "released"
    /\ total_used_handles' = IF \E h \in Handles : holds[t][h] > 0 THEN total_used_handles
                                                                  ELSE total_used_handles - 1
    /\ pc' = [pc EXCEPT ![t] = "idle"]
    /\ UNCHANGED <<handle_pool, total_handles, handleVars, want, holds, db_thread_running>>

CountRelease(t) ==
    /\ pc[t] = "released"
    /\ total_used_handles' = total_used_handles - 1
    /\ pc' = [pc EXCEPT ![t] = "idle"]
    /\ UNCHANGED <<handle_pool, total_handles, handleVars, want, holds, db_thread_running>>

-----------------------------------------------------------------------------
(* sql_close, switch_cache_db_flush_handles,                                  *)
(* switch_cache_db_database_interface_flush_handles                           *)

Sweeps == {"old", "flush", "module", "all"}

\* Mutant of Wanted: the comparison with SQL_CACHE_TIMEOUT is the wrong way round.
WantedFresh(k, h) ==
    \/ k = "old" /\ use_count[h] = 0 /\ h \notin Nonexpiring /\ h \notin old
    \/ k = "flush" /\ use_count[h] = 0 /\ h \notin Nonexpiring
    \/ k = "module" /\ dsn[h] \in Interfaces
    \/ k = "all"

\* The handles a sweep does not pass over, before it tries their mutex.
Wanted(k, h) ==
    \/ k = "old" /\ use_count[h] = 0 /\ h \notin Nonexpiring /\ h \in old
    \/ k = "flush" /\ use_count[h] = 0 /\ h \notin Nonexpiring
    \/ k = "module" /\ dsn[h] \in Interfaces
    \/ k = "all"

\* Mutant of Closable: the mutex of the handle is not tried.
ClosableLocked(k) == {h \in handle_pool : Wanted(k, h)}

Closable(k) == {h \in handle_pool : Wanted(k, h) /\ Unlocked(h)}

\* The connections are closed, the handles taken off the list and freed.  The old ones
\* are the db thread's to close, which ends before switch_core_sqldb_stop closes all.
Sweep(k) ==
    LET closed == Closable(k) IN
    /\ k = "old" => db_thread_running
    /\ db_thread_running' = (db_thread_running /\ k # "all")
    /\ handle_pool' = handle_pool \ closed
    /\ total_handles' = total_handles - Cardinality(closed)
    /\ old' = old \ closed
    /\ dsn' = [h \in Handles |-> IF h \in closed THEN None ELSE dsn[h]]
    /\ thread_hash' = [h \in Handles |-> IF h \in closed THEN None ELSE thread_hash[h]]
    /\ use_count' = [h \in Handles |-> IF h \in closed THEN 0 ELSE use_count[h]]
    /\ UNCHANGED <<total_used_handles, pc, want, holds>>

\* 30 seconds pass.  (A release sets last_used.)
Age ==
    /\ old' = {h \in handle_pool : use_count[h] = 0}
    /\ UNCHANGED <<handle_pool, countVars, dsn, thread_hash, use_count, pc, want, holds,
                   db_thread_running>>

-----------------------------------------------------------------------------
Gets(t) ==
    \/ PassLimit(t)
    \/ GiveUp(t)
    \/ GetHandle(t)
    \/ ConnectFails(t)
    \/ \E h \in Handles : AddHandle(t, h)

Next ==
    \/ \E t \in Threads : \/ \E d \in Dsns : Ask(t, d)
                          \/ Gets(t)
                          \/ \E h \in Handles : Release(t, h)
                          \/ CountRelease(t)
    \/ \E k \in Sweeps : Sweep(k)
    \/ Age

Spec == Init /\ [][Next]_vars

\* Time passes, and the thread of switch_core_sql_db_thread sweeps again and again.
Fairness == WF_vars(Age) /\ SF_vars(Sweep("old"))

FairSpec == Spec /\ Fairness

-----------------------------------------------------------------------------
(* Properties *)

TypeOK ==
    /\ handle_pool \subseteq Handles /\ old \subseteq handle_pool
    /\ db_thread_running \in BOOLEAN
    /\ total_handles \in Nat /\ total_used_handles \in Nat
    /\ dsn \in [Handles -> Dsns \cup {None}]
    /\ thread_hash \in [Handles -> Threads \cup {None}]
    /\ use_count \in [Handles -> Nat]
    /\ pc \in [Threads -> {"idle", "limit", "find", "connect", "released"}]
    /\ want \in [Threads -> Dsns \cup {None}]
    /\ holds \in [Threads -> [Handles -> Nat]]

\* A handle that a thread got and has not released is open, belongs to that
\* thread alone and is counted as used as often as it was got: neither another
\* thread nor a sweep gets between (get_handle, sql_close).
HeldIsOpen ==
    \A t \in Threads : \A h \in Handles :
        holds[t][h] > 0 => /\ h \in handle_pool
                           /\ Lockable(t, h)
                           /\ use_count[h] = holds[t][h]

\* "giving the same handle for both operations" (the comment in get_handle): a
\* thread that uses a database more than once at a time has one handle of it.
SameHandle ==
    \A t \in Threads : \A g, h \in Handles :
        holds[t][g] > 0 /\ holds[t][h] > 0 /\ dsn[g] = dsn[h] => g = h

\* The locks that threads have on handles, each with its number, and the threads that
\* have unlocked a handle and not yet counted it.
Locks    == UNION {{<<t, h, n>> : n \in 1 .. holds[t][h]} : t \in Threads, h \in Handles}
Released == {t \in Threads : pc[t] = "released"}

\* The two counters that the limit is tested with are exact, up to the releases
\* that have unlocked their handle and not yet counted it.
CountersAreExact ==
    /\ total_handles = Cardinality(handle_pool)
    /\ total_used_handles = Cardinality(Locks) + Cardinality(Released)

\* A handle that nobody takes up again is closed, as long as the core's db thread runs.
IdleIsClosed ==
    \A h \in Handles : h \in handle_pool \ Nonexpiring ~>
        h \notin handle_pool \/ use_count[h] > 0 \/ ~db_thread_running

\* conf/vanilla/autoload_configs/switch.conf.xml, max-db-handles: "Maximum number
\* of simultaneous DB handles open".
MaxHandles == max_db_handles > 0 => Cardinality(handle_pool) <= max_db_handles
=============================================================================

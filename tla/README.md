# Verification of AiSwitch

AiSwitch is a FreeSWITCH tree (a telephony server in C) with Lua scripts for a prison
telephone service (`src/aisScript`).  This directory holds TLA+ models of the part of
its core that every call goes through and of the call scripts, TLC configurations that
check them on small instances, and TLAPS proofs.  Every definition is translated from
the source lines that `PROJECT.json` ("map") names.  Marked external there is only what has
no source in this tree: clocks, people and the network, the operating system's sockets.

## The parts of the system

A call is a *session*: a record in a table, a channel with a state, a thread that runs
the state machine, a media engine per stream.  Signalling threads, other calls, API
commands and scheduled tasks reach it through the table, through its locks and through
queues.  The scripts run on session threads and share a hash table.

| part | source (under `src/`) | here |
|---|---|---|
| bounded queue, under every queue of the core | `src/switch_apr_queue.c` | `BoundedFifo`, `AprQueue`, `AprQueueProofs` |
| pool of session threads | `src/switch_core_session.c` | `ThreadPool` (extends `AprQueue`), `ThreadPoolSteps`, `ThreadPoolProofs` |
| admission, session table, locking, destruction | `src/switch_core_session.c`, `switch_core_rwlock.c` | `Sessions`, `SessionsProofs` |
| channel state machine | `src/switch_core_state_machine.c`, `switch_channel.c` | `ChannelState`, `CallProofs` |
| scheduler | `src/switch_scheduler.c` | `Scheduler`, `SchedulerProofs` |
| RTP ports | `src/switch_core_port_allocator.c`, parts of `switch_rtp.c`, `switch_core_media.c` | `PortAllocator`, `CallProofs` |
| events: firing, dispatch, binding, shutdown | `src/switch_event.c` | `EventSystem`, `ServicesProofs` |
| cache of database handles | `src/switch_core_sqldb.c` | `DbCache`, `ServicesProofs` |
| caller's script | `aisScript/prison_app.lua` | `PrisonApp`, `PrisonProofs` |
| conference, limit, hangup hook | `aisScript/prison_app.lua`, `timestamp.lua`, `asr.lua`, `prison_hangup.lua`, parts of `src/mod/applications/mod_conference` and `mod_commands` | `PrisonConference`, `PrisonProofs` |
| recording and officer scripts | `aisScript/record*.lua`, `police_*.lua`, `pre_for_police.lua` | not modelled, see below |
| media, IVR, SQL queues, modules, limits, memory, timers, logging | the other files of `src/` | planned in part, see below |
| the other modules `mod_*`, libraries, configuration, tests, build | `src/mod`, `libs`, `conf`, ... | not modelled |

The complete list with reasons is `PROJECT.json`, "components"; what can go wrong where
is "hazards".

## Modules and how they correspond to the code

A step of a model is a critical section, or the longest piece of code whose
intermediate states no other thread can see.  A mutex that is never held across two
steps has no variable.

**AprQueue** has the fields of `fspr_queue_t` under their names and, for each thread,
where it is in a call.  A condition variable is the set of threads blocked on it; a
woken thread leaves the set and must get the mutex back before it goes on, so another
thread may come first.  `terminated` is read outside the mutex, in a step of its own,
where the code does so.  **BoundedFifo** is what the queue promises: a sequence of at
most `Bounds` elements, taken out in order.

**ThreadPool** interleaves launchers (`switch_core_session_thread_launch`: push, then
`check_queue`), workers (pop with a timeout, run, count down, leave) and
`switch_core_session_uninit` with the steps of the queue.  `running` and `busy` are the
counters of `session_manager`.

**Sessions** has the table from keys (uuids and external ids) to sessions, each
session's place in its life, its read locks, and threads that request, rename, locate,
message and hang up.  `hash_owner` is `session_hash_mutex`, kept over the lookup and
the attempt at the read lock, because the session's own thread does not take it before
`switch_core_session_destroy`.

**ChannelState** is one session thread in `switch_core_session_run` and any number of
threads that call `set_state`, `hangup` and `queue_message`.  The thread's place
determines whether `session->mutex` and `thread_mutex` are held; `state_mutex` has a
variable.  The bounded retries of the code (100 in `careful_set`, 10 in
`wake_session_thread`) may run out whenever both locks are taken.  They are not only a
nuisance: a setter keeps `state_mutex` while it tries, the session thread may wait for
`state_mutex` with both other locks held, and only giving up gets them out of this.
`Patient = TRUE` says that retries run out only there, while the session thread handles
messages or private events.  Before it sleeps the thread first empties the message queue and then the
queues of private events (`ParseMessages`, `ParseEvents`: `switch_ivr_parse_all_events`), with
both locks taken all the while.  `CF_BLOCK_STATE`, which originate sets on a leg it delays,
keeps the thread from looking at the state (`Blocked`); a hangup clears it.

**Scheduler** is the task thread (walk of the list, execution with `task_mutex`
released, reaping), threads of tasks with `SSHF_OWN_THREAD`, and users who read the
clock and add or delete.  `Prompt = TRUE`: a user gets through in the second in which
it read the clock.  `switch_thread_create` may fail and its result is not looked at: the task
then has `in_thread` set and no thread (`ScanOwnFails`).

**PortAllocator** is the table of slots, one step per round and per slot of
`request_port`, and the engines that choose a port, open an RTP session, fail to, and
are taken down.  Where an engine is destroyed its identity is used for a new call.
The loop variables are set to 0 outside of a round.  A call recovered after a crash takes the
port of its old life without asking the allocator (`Recover`); with `SPF_ROBUST_TCP` a port
is tested with a TCP socket too.  `loose` remembers that an engine has had a port whose slot it
does not hold, from such a recovery or from a failed `switch_rtp_new`.

**EventSystem** is the queue of events (taken as the abstract bounded queue that
`AprQueue` implements), firing threads, the slots of dispatch threads, the bindings and
`switch_event_shutdown`.  A dispatch thread keeps `RWLOCK` for reading from the pop to
the last callback, callback by callback; whoever binds or unbinds needs it for writing,
in one step.  A firing thread that finds the queue crowded launches a further dispatch
thread before it pushes.  A push that waits for a place may be interrupted, and then the
event is gone (`PushFails`).  `Prompt = TRUE`: a dispatch thread that has found the system
running gets into its pop before the shutdown interrupts the queue; `CallbackFires`:
callbacks fire events themselves.

**DbCache** is the list of handles with their fields, the two counters of the limit, and
threads that get, nest and release handles.  `holds` is how often each thread has locked
each handle's nested mutex.  Reading the counters, finding a handle, connecting (outside
of the mutex), adding and counting down are steps of their own.  The four sweeps are one
action with different tests.  The sweep for age is the database thread's and stops with
it.  `get_handle` compares hash values of the connection string and of the thread's number,
not these themselves: `Dsns` and `Threads` stand for what the hashes tell apart.  The hash
ignores case, and takes as many characters of the thread's number as the connection string
is long.

**PrisonApp** is one run of the script.  `futureProcess` calls itself instead of
looping, and code after the inner call still runs; `stack` keeps what is left to do.
The web service, the digits and the result of dialling are arbitrary, and the caller
may hang up at any point, after which the script goes on with empty answers.

**PrisonConference** is the conference of one extension over successive calls.  Processes are
the script of each call with the hangup hook after it, `timestamp.lua`, `asr.lua`, the thread
that dials, the legs and the conference's own thread.  A step is one operation on the shared
table or one API command, with these exceptions, where nobody reads the entry in between or
the two commands are of the same kind: `recordTime` and `policeId` are deleted with
`actiontime` and `recordTime` is stored with `maxdur`; the two reads of `dest` in the hook, and
its two `uuid_exists`, are one step.  `KillPolice` kills what `policeUuid` names, which is the
relative.

Of `mod_conference` there is what these set off.  `hup all` tells members to leave, and each
leaves on its own thread.  The officer is a ghost with `endconf`: when they have left, the
conference's thread ends the conference.  The relative brings `mintwo` along: once there have
been two members, less than two destroy the conference.  `join-only` keeps a late relative
from opening a conference of their own.  A conference that is being destroyed is not found by
its name (`Found`); who would then open another of that name waits here until it is gone.

Four constants bound or choose what happens.  `Quick`: may a relative answer within the few
table operations after the dialling?  `DialsInTime`: does the dialling thread make its
channel, or give up, before the hook that slept a second looks again?  `Reached`: the calls
whose officer can be reached.  `TalkTimes`: the limits the service may give.  `Settled` says
when a new call gets to its conference: the hook of the call before has reported, members who
were told to leave have left, and neither `asr.lua` nor a round of the loop is half done (the
prompts before the conference take far longer than these).

`MC*` modules only name model values and symmetry sets.  A definition introduced by
"Mutant of" is not part of a specification: it is a plausible mistake in the definition
that follows, which the property named in `PROJECT.json` detects.

## Runs

Run `tlc -config <cfg> <module>` with the pairs of `PROJECT.json`.

| run | shows |
|---|---|
| `queue` | no wake-up is lost, with spurious wake-ups and any mix of calls; `AprQueue` implements `BoundedFifo`; termination leaves nobody blocked and releases every caller |
| `pool` | `running` and `busy` are exact, though creating a thread may fail; a session gets one thread; accepted jobs run when calls end; workers leave at shutdown |
| `sess_locate` | a located session stays alive until `rwunlock`; `hupall` reaches all it collected; a session that is down is freed although locators keep trying its lock |
| `sess_table` | with duplicate uuids, renaming, external ids, forced locates and direct destruction the table never leads to a freed session, no key is stale, the count is exact |
| `chan` | no sleep with work pending, unless a waker gave up while private events were handled; handlers once, no way back from hangup; every hangup ends the session, a state that lasts is run |
| `sched` | a task in use stays listed, a deleted one runs at most once more, an interval keeps its distance; due tasks run, destroyed tasks are freed, unless their thread could not be created; the scheduler may be stopped at any time |
| `port_safety` | no port leaks, ports lie in the range and have the parity asked for; one holder, until some engine has a port whose slot it does not hold (a session that failed to open, a recovered call) |
| `port_live` | every request for a port returns, unless one goes round for ever because every port that its table has free is bound already |
| `app` | one call at most, only to a relative the caller may dial; the script ends, unless the caller stays in the conference for ever |
| `conf` | where the dialling is in time and the relative not too quick: a call leaves neither a leg nor an entry of the table behind; it is cut only when its time is over; a conference whose relative is gone or whose time is over ends |
| `dbcache` | a handle in use stays open and its thread's own; one handle per thread and database; the counters of the limit are exact; idle handles are closed |
| `event` | no callback runs once it is unbound; what was queued before the shutdown is freed; the shutdown returns |

## What the code does not keep

Several constants exist because a property needs them: with the other value TLC finds a
counterexample, which was followed back to the source.  Properties without a run are
kept in their modules so that these experiments can be repeated.

| property | constants that differ from the run | what happens, and where |
|---|---|---|
| `EintrMeansInterrupted` (`AprQueue`) | three threads, no spurious wake-ups | a popper whose element somebody else took reports `APR_EINTR`; the comment at `switch_apr_queue.c:268` takes it for interrupted |
| `LaunchedHasWorker` (`ThreadPool`) | one launcher, four sessions, no failures | that worker leaves although a new session was counted on it (`switch_core_session.c:1808`); the session waits for another call to end |
| `StartsWithoutWaiting` (`ThreadPool`) | `FairSpec` in place of `EndingSpec` | a launch succeeds although no thread could be created (`switch_core_session.c:1934`); `switch_core.h:850` says "if the thread was launched" |
| `LocatedIsSafe` (`Sessions`) | `ForcedLocates = TRUE` | `force_locate` tests `SSF_DESTROYED` before it has the lock (`switch_core_session.c:162`, `:169`); the session may be marked in between, and after the write unlock the read lock `switch_core.h:938` promises no longer keeps it |
| `LocatedIsSafe` (`Sessions`) | `DirectDestroys = TRUE` | a session without a thread is destroyed without the write lock (`switch_core_session.c:1528`) |
| `MaxSessions` (`Sessions`) | none | concurrent requests pass `max-sessions` (`switch_core_session.c:2411`, `:2496`) |
| `HupAllHangsUp` (`Sessions`) | `NewUuids = {u2}` | a session is renamed to the uuid that a session under construction has been given; the insertion does not look (`switch_core_session.c:2494`), two sessions have one name, and `hupall` reaches one of them |
| `MessagesAreSeen` (`ChannelState`) | none | a message queued while private events are handled, with both locks taken, is slept over when its waker's ten tries are used up (`switch_core_session.c`, `switch_core_session_wake_session_thread`); the next wake-up of any kind finds it |
| `CauseIsGiven` (`ChannelState`) | none | `CS_HANGUP` is visible before the cause (`switch_channel.c:3403`, `:3406`) |
| `DeletedDoesNotRun` (`Scheduler`) | none | a task deleted between the end of `execute` and the relock runs once more (`switch_scheduler.c:299`) |
| `DueRuns` (`Scheduler`) | `Prompt = FALSE` | a task for a second that has just passed is put off by fifty years (`switch_scheduler.c:237`; `switch_core.c:1986` passes the current time) |
| `DeletedIsFreed` (`Scheduler`) | none | the result of `switch_thread_create` is ignored (`switch_scheduler.c:128`): a task whose thread could not be created keeps `in_thread`, is never run again and never freed |
| `StoppedIsQuiet` (`Scheduler`) | none | the scheduler's pool and mutex are destroyed while a task runs in its own thread (`switch_scheduler.c:386`) |
| `PortsAreExclusive` (`PortAllocator`) | no `SPF_ROBUST_UDP` | after a failed `switch_rtp_new` a port is released twice (`switch_rtp.c:4494`, `switch_core_media.c:8343`) and ends up with two calls |
| `PortsAreAsked` (`PortAllocator`) | `Flags = {"SPF_ODD"}` | an allocator for odd ports hands out even ones (`switch_core_port_allocator.c:177`); nothing in the tree asks for odd ones |
| `RequestReturns` (`PortAllocator`) | none | a request loops for ever under `port_lock` when the ports that are free in the table are bound already, by another program or by a recovered call (`switch_core_port_allocator.c:153`) |
| `AcceptedIsQueued` (`EventSystem`) | none | a push that waits for a place is interrupted; its result is not looked at (`switch_event.c:392`) and the event is neither queued nor destroyed |
| `ShutdownReturns` (`EventSystem`) | `Prompt = FALSE` | a dispatch thread past its test of `SYSTEM_RUNNING` and not yet in the pop is missed by the interrupt, and by the NULLs if the queue was full or others took them; the join waits for it (`switch_event.c:575`, `:584`) |
| `FireReturns`, `ShutdownReturns` (`EventSystem`) | `CallbackFires = TRUE` | callbacks that fire into a full queue wait for the dispatch threads, which they are |
| `MaxHandles` (`DbCache`) | none | a thread is let through while some handle is idle, of whatever database, and two may pass before either connects (`switch_core_sqldb.c:525`); `conf/vanilla/autoload_configs/switch.conf.xml:43` calls it the maximum number open |
| `NewPwdIsStored` (`PrisonApp`) | none | the text of the request is kept as the password (`prison_app.lua:341`); nothing reads it again |
| `NothingIsLeft` (`PrisonConference`) | `DialsInTime = FALSE` | the hook kills the relative's channel and looks again once, a second later (`prison_hangup.lua:57`, `:70`); a dialling thread that makes the channel after that leaves it ringing |
| `CutOnlyWhenOver` (`PrisonConference`) | `DialsInTime = FALSE` | the relative left over that way answers during the next call, and `asr.lua` stores that answer's times as the new call's (`asr.lua:19`) |
| `CutOnlyWhenOver` (`PrisonConference`) | a call with a limit, then one without | a call without a limit is cut by the `endtime` of an earlier call (`timestamp.lua:118`, `asr.lua:19`) |
| `CutOnlyWhenOver` (`PrisonConference`) | `Quick = TRUE`, `Horizon = 6`, a limit of one minute, then one of two | a relative who answers before the limit is in the table is timed by the limit of the call before (`prison_app.lua:543`, `asr.lua:19`) |
| `ConferenceEnds` (`PrisonConference`) | `Quick = TRUE` | a relative who answers before the limit is in the table gets none (`prison_app.lua:543`) |
| `PoliceIsReported` (`PrisonConference`) | none | the finish message names the relative's channel as the officer's (`prison_hangup.lua:34`) |

## Bounds

- Queue: two threads, two slots and two elements: the ring wraps, and a thread that has
  just pushed can pop again before the waiter it woke.  What three or more threads do is
  left to the proofs, which hold for any number.
- Pool: two workers, two launchers, one session and one plain job, so that both
  launchers meet at the session and a worker can be stolen from.  The queue is never
  full (the real one has 100000 slots).
- Sessions: two sessions, two threads, two keys: a locator, a second user, and the
  sessions' own threads.  Renaming, external ids, forced locates and calls without limits
  are in `sess_table`, fairness in `sess_locate`.
- Channel: two other threads, two rounds in `CS_NEW` for 500, room for two messages,
  three wanted states that differ in what the run loop does with them.  A leg may be blocked
  and released at any time.
- Scheduler: a task of each kind, one user, three seconds: a task that is a second late
  can be run again.  The clock stops at `Horizon`.
- Ports: three engines and two slots, so that the table is full at times, with one port a
  recovered call may bring along; for liveness two engines, one of the ports bound by another
  program and the other one recoverable, so that both ways to get stuck occur.
- Events: one firing thread, four events of two kinds, one binding to one of them, and
  room for three slots of which one thread is started at first: the queue gets crowded, a
  second dispatch thread comes and the queue fills up.
- Database handles: two threads, two databases (the core's, in memory, and one of a
  loadable module), three handles with a limit of two, two requests nested.
- Scripts: `FutureLimit` 6 for 30, `LuaStack` 3 for about 200 C levels or memory, two or
  three accounts; two successive calls of which the second has a limit, of a minute, which is
  one unit of time, with four units in all and the wait for the gateway over at once.  The
  officer can be reached in the first call, which may leave them in the conference.

Deadlock is checked, except where everything may rightly be over: a terminated queue
with all callers gone, a stopped scheduler, sessions all used up, a script at its end,
an event system that is shut down.

## Fairness

Threads that can run do run: weak fairness of every thread's steps inside a call.  It is
strong where a step needs a mutex that others keep taking (`Sessions`, `ChannelState`,
tasks and users of `Scheduler`, `port_lock`): the mutexes are not held for ever and a
waiter is not passed over for ever.  Timeouts of timed waits happen.  Clocks tick.
Handles age, and the database thread's sweep gets to them (strongly fair: handles in use
may keep it from doing anything for a while).  Callbacks of events return.
In the conference every thread but the loop of `timestamp.lua` takes finitely many steps (the
clock up to `Horizon`), so that one condition for all of these together says that each gets
on; the loop has one of its own.  That a caller or relative told to leave does leave, and that the
conference application returns to a script whose caller is gone, are steps of their threads.
Nothing is assumed of people, of callers, of the web service, or of how often operations
are called: a caller may stay in a conference without a limit for ever, and `ScriptEnds` says
so.  That calls end is assumed only in `EndingSpec` of `ThreadPool`.  `TLC` checks liveness
without symmetry.

## Proofs

`tlapm <module>` checks them.  Each module makes Zenon its prover; a leaf that needs
arithmetic, records or sequences names the SMT solver (`SMTT`).  Both get a minute, a
few seconds of which are used, so that a busy machine does not decide what is proved.
The constants are arbitrary within the named assumptions of each module.

- **AprQueueProofs**: `TypeOK`, `NoLostWakeup` and `TermReachesEveryone` for any number
  of threads and any capacity.  The invariant adds `Placement` (a blocked thread is in a
  call that blocks) and `Counts` (`full_waiters` and `empty_waiters` are the sizes of the
  sets of waiters and of those on their way back).  `Counts` is what makes the test
  `if (empty_waiters)` before a signal safe.
  `AprQueue` also implements `BoundedFifo` (`QueueIsFifo`), for any threads, elements and
  capacity.  To the invariant this adds that `in` is `out + nelts` around the ring
  (`RingInv`) and which calls get to the unlocked reads of `terminated` (`CallInv`).  Two
  lemmas on the ring show that a store appends to the contents and a fetch takes their
  head; then each step is an insertion, a removal, a failure that the FIFO allows, or a
  stutter.
- **ThreadPoolProofs**, with the invariant and the launchers' steps in
  **ThreadPoolSteps**: `CountsAreExact` and `OneThreadPerSession` for any launchers,
  workers and jobs, any capacity, and threads that cannot be created; and every behaviour
  of the pool is one of its queue (`PoolKeepsQueueSpec`), so that the theorems about the
  queue hold inside the pool.  `UseInv` says who is inside which call of the queue; with
  the refinement lemmas of `AprQueueProofs` every step of the queue then takes a
  launcher's job, hands the oldest job to a worker, or changes nothing (`QueueServes`).
  The counts alone are not inductive: that a finished or refused push is counted once
  needs `JobInv`, which gives every job one place (a launcher, the queue, a worker) that
  agrees with its state.
- **SessionsProofs**: `NoStaleKey` and `FoundIsThere` for any threads, sessions, names and
  switches, and `LocatedIsSafe` where nobody forces a locate and no session is destroyed
  without its thread.  `StaleInv` follows the table, `FoundInv` says that a locator has
  `session_hash_mutex`, `RequestInv` that a session under construction is one thread's.
  `LockInv` has the argument for the lock: a locator is a reader, a write-locked session
  has none, and from the write unlock on `SSF_DESTROYED` is set, so that a late reader
  backs out.
- **CallProofs**: of the channel, `TypeOK`, `NoSilentSleep`, `HandledOnce` and `NoRevival`
  for any number of threads and any queue length.  `SleepInv` follows the session thread from
  its last look at the messages, and then at the state, to its sleep: whatever comes in after
  the look has a waker under way, or one that gave up later than the look.  Of a state this
  leaves no time to speak of: where retries outlast a busy thread (`Patient`) no state is
  slept over without a waker (`StatesAreNotSleptOver`).  `HangupInv` says who owns `OCF_HANGUP` and that
  `state_mutex` keeps the state still for a setter, which is why a late setter cannot
  revive a channel.  `HandledInv` ties the flags to the number of runs of the handlers.
  Of the ports, `PortTypeOK`, `UsedIsCounted`, `NoPortLeak`, `HeldIsExclusive` and
  `PortsAreAsked` for any range, any number of engines, any foreign sockets and any ports
  of recovered calls, with the flags the program uses.  Two lemmas of arithmetic show that slot and port determine
  each other and that the table is exactly as long as the range.  `LeakInv` strengthens
  `NoPortLeak`: the holder is not in the middle of replacing its port, else the port it is
  about to forget would count.
- **SchedulerProofs**: `InUseIsListed`, `DeletedRunsOnceMore` and the action property
  `SpacedOut` for any tasks and users and any delays and intervals.  `PlaceInv` and `OwnInv` say
  what keeps a task in the list while it runs: the task thread stands at it, or
  `in_thread` is set (also where no thread could be created).  `UserInv` keeps a container its caller's own until it is listed.
  `DelInv` ties `destroyed` and `destroy_requested` to the runs begun since the deletion,
  `SpaceInv` ties `runtime` to the last beginning; both are unsettled only inside
  `execute` (`InFunc`).
- **PrisonProofs**: of the script, `TypeOK`, `OneCall` and `DialledIsAllowed` for any
  accounts, passwords and depth of recursion.  `DialledInv` says that a relative has been
  dialled only if the script is in the conference or the caller's channel has been hung
  up since: whatever outer calls of `futureProcess` still do, nobody presses keys any
  more.  `PwdInv` says that the menu and all behind it are reached by the right password
  only.  Of the conference, for any number of calls, any limits and any officers:
  `TableIsFree` (`TableIsFreed`), whatever the dialling thread does; `NothingIsLeft`, which
  adds the relatives' legs, on the hypothesis `DialsInTime`, without which it is false.
  `ConfInv` says that calls follow each other (`InOrder`); in which part of a call its leg
  may be in which state (`LegOf`); that the entry `dest`, or what the hook has read from it,
  names the leg (`DestOf`), which is why the hook kills the right one; and that an entry of
  the table belongs to a call that the hook has not yet cleared (`EntriesOf`, `ActionInv`).
  `CutOnlyWhenOver` has two hypotheses more, each of which it is false without: the relative
  does not answer before `initConfTime` has stored the limit (`Quick = FALSE`), and no
  call without a limit follows one with a limit (`LimitsStay`), since `initConfTime`
  leaves the earlier `maxdur` in the table when the service gives none.  `CutInv` says
  that the limits in the table come from calls that have begun (`MaxdurInv`, `LimitInv`), that
  what `asr.lua` does belongs to the call going on (`AsrInv`), and that the times the loop of
  `timestamp.lua` has read are that call's (`Readings`, `TimerInv`).  All steps are first
  brought into a few forms (`StepForms`), what each form leaves alone is shown once, and the
  conjuncts follow from the forms.
- **ServicesProofs**: of the database cache, `HeldIsOpen`, `SameHandle` and
  `CountersAreExact` for any threads, databases and handles, any limit and any nesting.
  `HeldInv` ties the nested mutex to `thread_hash` and `use_count`; `FreeInv` says that an
  unlocked handle is unused, which is why a sweep that gets the mutex may close it.
  `OneInv` (no two handles of a database name one thread) needs `ConnectInv`: while a
  thread connects, none names it.  The counters count finite sets because these grow by
  one element at a time (`CountInv`); no bound on threads or handles is assumed.
  Of the event system, `UnboundIsQuiet` for any number of events, bindings and threads.
  `WalkInv`: whoever is in a callback has `RWLOCK`, and the node is bound.

The `TypeOK` of the modules above for which it is named, and `UsedIsCounted`, are proved
and have no run of their own.  Every invariant and action property that a run checks is
proved, with the hypotheses named above.  Left to TLC: the liveness properties, which hold
under fairness and are beyond the prover.  No module has recursive operators.

## Not modelled

Packets, codecs, SDP, SQL and XML text, logging, sound and speech: data whose handling
is sequential.  Third-party libraries.  The state handlers of endpoints and
applications, which `ChannelState` replaces by an arbitrary effect on the channel.
Memory of a destroyed pool that is used again.  The limit of 250000 entries of the
scheduler's event queue.  Two threads that work on one media engine at a time.

Of the event system: event channels, the table of reserved subclasses, subclasses that
begin with `file:` or `func:`, headers, and a dispatch thread that cannot be created.
Of the database core: the SQL queue manager and the execution of statements.  Three things
seen there while modelling: a `db-handle-timeout` of 0 waits for ever at the limit; a
thread at the limit is refused even a handle it already uses; a handle in use survives the
sweep of the module that is being unloaded.

The recording and officer scripts.  Each is a straight line on one session thread: file
names made of the call's time, a few requests to the web service.  The one entry of the
table of their own, `police_num`, is read and deleted by `police_logout.lua` and written by
no script of this tree, so what the models would say of it depends on another program.

The models cover a small share of the lines of the tree, most of which is modules and
bundled libraries: they are the shared state that every call depends on, and the scripts
that make this tree different from others.

## Plan

1. More of the system: private events and the bridge over `ChannelState`; jitter buffer,
   packetizer and ring buffer as algorithms checked against a reference; media bugs; log
   and SQL queues; event channels; recycling of memory pools; `switch_limit` with
   `mod_hash`.
2. Composition: `Sessions` with `ThreadPool` and `ChannelState`, from request to free;
   `EventSystem` over `AprQueue` in place of the abstract queue.  An abstract session
   registry that `Sessions` implements, and an abstract one-shot and repeating timer that
   `Scheduler` implements.
3. Modules with queues of callers: `mod_fifo`, `mod_valet_parking`, `mod_callcenter`.
4. Proofs: the refinements of item 2; an invariant of `Sessions` from which
   `HupAllHangsUp` follows once fairness is given.

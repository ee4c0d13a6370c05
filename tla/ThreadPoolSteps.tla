-------------------------- MODULE ThreadPoolSteps --------------------------
(***************************************************************************)
(* The inductive invariant of ThreadPool, and lemmas on its steps for      *)
(* ThreadPoolProofs: what a step of the queue does to the pool if the      *)
(* queue serves it as a FIFO would, what the step of one thread does to    *)
(* the counts and to the jobs, and the steps of a launcher up to           *)
(* check_queue.                                                            *)
(***************************************************************************)
EXTENDS ThreadPool, AprQueueProofs

(* Zenon proves the leaves that do not name the SMT solver. *)
USE ZenonT(60)

JobStates == {"new", "launched", "rejected", "running", "done"}

PoolTypes ==
    /\ stage \in [Threads -> WorkerStages \cup LauncherStages \cup MainStages]
    /\ \A w \in Workers : stage[w] \in WorkerStages
    /\ \A l \in Launchers : stage[l] \in LauncherStages
    /\ job \in [Threads -> Jobs \cup {NULL}]
    /\ jstate \in [Jobs -> JobStates]
    /\ running \in Int /\ busy \in Int

\* Who is inside a call of the queue, and which: launchers push the job they
\* launch, workers pop, and Main terminates the queue.
UseInv ==
    /\ \A l \in Launchers : stage[l] # "idle" => job[l] \in Jobs
    /\ \A l \in Launchers : pc[l] # "idle" => stage[l] = "push" /\ op[l] = "push" /\ item[l] = job[l]
    /\ \A w \in Workers : pc[w] # "idle" => stage[w] = "pop" /\ op[w] = "pop_timeout"
    /\ pc[Main] # "idle" => op[Main] = "term"

\* session_manager.running counts the workers and those about to be created.
Creating == {l \in Launchers : stage[l] = "create"}
RunInv   == running = Cardinality(Live) + Cardinality(Creating)

BusyInv ==
    /\ IsFiniteSet(Rejected)
    /\ busy + Cardinality(Uncounted) = nelts + Cardinality(Holding) + Cardinality(Rejected)

\* The threads that have a job in hand which is not in the queue: launchers whose
\* push has not succeeded, and workers.
Carrying == Holding \cup {l \in Launchers : stage[l] = "push" /\ ~(pc[l] = "idle" /\ rv[l] = "SUCCESS")}
Load(t)  == IF t \in Workers /\ stage[t] = "pop" THEN item[t] ELSE job[t]
Fate(t)  == IF t \in Workers /\ stage[t] = "execute" THEN "running"
            ELSE IF t \in Workers /\ stage[t] = "finished" THEN "done" ELSE "launched"

\* A job is in one place at a time, and what has become of it says where.
JobInv ==
    /\ \A t \in Carrying : Load(t) \in Jobs /\ jstate[Load(t)] = Fate(t)
    /\ \A t, u \in Carrying : Load(t) = Load(u) => t = u
    /\ \A i \in 1 .. nelts : Contents[i] \in Jobs /\ jstate[Contents[i]] = "launched"
    /\ \A i, k \in 1 .. nelts : Contents[i] = Contents[k] => i = k
    /\ \A i \in 1 .. nelts, t \in Carrying : Contents[i] # Load(t)

PoolInv == PoolTypes /\ UseInv /\ RunInv /\ BusyInv /\ JobInv

-----------------------------------------------------------------------------
(* The pool's queue is a queue *)

\* Whatever the pool does with its queue, the queue makes steps of its own
\* specification: workers pop it, launchers push jobs and Main terminates it.
LEMMA PoolStepsQueue ==
  ASSUME PoolTypes, UseInv, [Next]_vars
  PROVE  [QueueNext]_queueVars
<1>1. ASSUME NEW t \in Threads, QueueStep(t) PROVE QueueNext
  BY <1>1 DEF QueueStep, QueueNext
<1>2. ASSUME NEW t \in Threads, NEW v \in Values, Call(t, "push", v) PROVE QueueNext
  BY <1>2, PoolAssumption DEF QueueNext, Invoke, PushOps
<1>3. ASSUME NEW t \in Threads, NEW o \in {"pop_timeout", "term"}, Call(t, o, NULL) PROVE QueueNext
  BY <1>3, PoolAssumption DEF QueueNext, Invoke, PopOps, CtlOps
<1>4. ASSUME NEW l \in Launchers, LauncherStep(l) PROVE [QueueNext]_queueVars
  <2>1. CASE PoolLaunch(l)
    BY <1>2, <2>1, PoolAssumption DEF PoolLaunch, UseInv, Jobs
  <2> QED BY <1>4, <2>1 DEF LauncherStep, CheckQueue, CreateFails, CreateWorker, Unlock
<1>5. ASSUME NEW l \in Launchers, NEW j \in Jobs, ThreadLaunch(l, j) \/ LaunchThread(l, j)
      PROVE  [QueueNext]_queueVars
  BY <1>2, <1>5, PoolAssumption DEF ThreadLaunch, LaunchThread, Jobs
<1>6. ASSUME NEW w \in Workers, WorkerStep(w) \/ JobEnds(w) PROVE [QueueNext]_queueVars
  BY <1>3, <1>6, PoolAssumption
  DEF WorkerStep, WorkerPops, WorkerStarts, WorkerUncounts, WorkerIdles, JobEnds
<1>7. ASSUME Uninit \/ MainStep PROVE [QueueNext]_queueVars
  BY <1>3, <1>7, PoolAssumption DEF Uninit, MainStep, UninitWaits, UninitGivesUp
<1>8. CASE UNCHANGED vars
  BY <1>8 DEF vars
<1> QED BY <1>1, <1>4, <1>5, <1>6, <1>7, <1>8 DEF Next

-----------------------------------------------------------------------------
(* What a step of the queue means to the pool *)

\* The call of x, as the pool sees it, is where it was.
SameCall(x) ==
    /\ pc'[x] = "idle" <=> pc[x] = "idle"
    /\ op'[x] = op[x] /\ item'[x] = item[x] /\ rv'[x] = rv[x]

SameContents ==
    /\ nelts' = nelts
    /\ \A i \in 1 .. nelts : Contents'[i] = Contents[i]

\* A call of t ends with status s.
Returns(t, s) ==
    /\ pc[t] # "idle" /\ pc'[t] = "idle" /\ rv'[t] = s
    /\ \A x \in Threads \ {t} : SameCall(x)

Pushed(l) ==
    /\ Returns(l, "SUCCESS")
    /\ nelts' = nelts + 1 /\ Contents'[nelts + 1] = item[l]
    /\ \A i \in 1 .. nelts : Contents'[i] = Contents[i]

Popped(w) ==
    /\ Returns(w, "SUCCESS")
    /\ nelts # 0 /\ nelts' = nelts - 1 /\ item'[w] = Contents[1]
    /\ \A i \in 1 .. nelts - 1 : Contents'[i] = Contents[i + 1]

Unserved(t) ==
    /\ \E s \in Statuses : Returns(t, s) /\ (s = "SUCCESS" => t = Main)
    /\ SameContents

Quiet == (\A x \in Threads : SameCall(x)) /\ SameContents

\* Seen as a FIFO, the pool's queue takes a launcher's job, hands its oldest job
\* to a worker, or ends a call that had no effect.
QueueServes ==
    \/ \E l \in Launchers : Pushed(l)
    \/ \E w \in Workers : Popped(w)
    \/ \E t \in Threads : Unserved(t)
    \/ Quiet

\* What a push does to a sequence of jobs: they keep their places.
LEMMA AppendKeeps ==
  ASSUME NEW S, NEW q \in Seq(S), NEW v \in S
  PROVE  /\ Len(Append(q, v)) = Len(q) + 1 /\ Append(q, v)[Len(q) + 1] = v
         /\ \A i \in 1 .. Len(q) : Append(q, v)[i] = q[i]
  BY SMTT(60)

\* What a pop does to a sequence of jobs: they move up by one.
LEMMA TailShifts ==
  ASSUME NEW S, NEW q \in Seq(S), q # << >>
  PROVE  /\ Len(q) # 0 /\ Len(Tail(q)) = Len(q) - 1 /\ Head(q) = q[1]
         /\ \A i \in 1 .. Len(q) - 1 : Tail(q)[i] = q[i + 1]
  BY SMTT(60)

\* A set of threads is finite.
LEMMA PoolFinite ==
  ASSUME NEW S, S \subseteq Threads
  PROVE  IsFiniteSet(S) /\ Cardinality(S) \in Nat
  BY ThreadsAssumption, FS_Subset, FS_CardinalityType

\* The sets that the counts are about are sets of threads.
LEMMA PoolSets ==
  /\ Live \subseteq Threads /\ Creating \subseteq Threads
  /\ Uncounted \subseteq Threads /\ Holding \subseteq Threads
  BY PoolAssumption DEF Live, Creating, Uncounted, Holding

\* See PoolSets.
LEMMA PoolSetsAfter ==
  /\ Live' \subseteq Threads /\ Creating' \subseteq Threads
  /\ Uncounted' \subseteq Threads /\ Holding' \subseteq Threads
  BY PoolAssumption DEF Live, Creating, Uncounted, Holding

\* A step of the queue does not change who is in which call, except that a
\* call ends.
LEMMA QueueStepUse ==
  ASSUME TypeOK, PoolInv, UNCHANGED poolVars, QueueServes
  PROVE  PoolTypes' /\ UseInv' /\ RunInv'
<1>0. PoolTypes /\ UseInv /\ RunInv
  BY DEF PoolInv
<1>2. PoolTypes' /\ RunInv'
  BY <1>0 DEF poolVars, PoolTypes, RunInv, Live, Creating
<1>3. \A x \in Threads : pc'[x] # "idle" => pc[x] # "idle" /\ op'[x] = op[x] /\ item'[x] = item[x]
  BY DEF QueueServes, Pushed, Popped, Unserved, Quiet, Returns, SameCall
<1>4. UseInv'
  BY <1>0, <1>3, PoolAssumption DEF UseInv, poolVars
<1> QED BY <1>2, <1>4

\* The counts of jobs stay in step with the queue.
LEMMA QueueStepBusy ==
  ASSUME TypeOK, PoolInv, UNCHANGED poolVars, QueueServes
  PROVE  BusyInv'
<1>0. PoolTypes /\ UseInv /\ BusyInv
  BY DEF PoolInv
<1>1. stage' = stage /\ busy' = busy /\ Rejected' = Rejected
  BY DEF poolVars, Rejected
<1>2. /\ nelts \in Nat /\ busy \in Int
      /\ IsFiniteSet(Uncounted) /\ IsFiniteSet(Holding) /\ IsFiniteSet(Rejected)
      /\ Cardinality(Uncounted) \in Nat /\ Cardinality(Holding) \in Nat /\ Cardinality(Rejected) \in Nat
  BY <1>0, BoundsAssumption, PoolSets, PoolFinite, FS_CardinalityType, SMTT(60)
  DEF TypeOK, PoolTypes, BusyInv
<1>3. Launchers \subseteq Threads /\ Workers \subseteq Threads /\ Launchers \cap Workers = {}
  BY PoolAssumption
<1>4. ASSUME NEW l \in Launchers, Pushed(l) PROVE BusyInv'
  <2>0. /\ pc[l] # "idle" /\ pc'[l] = "idle" /\ rv'[l] = "SUCCESS"
        /\ \A x \in Threads \ {l} :
             (pc'[x] = "idle" <=> pc[x] = "idle") /\ rv'[x] = rv[x] /\ item'[x] = item[x]
    BY <1>4 DEF Pushed, Returns, SameCall
  <2>1. stage[l] = "push"
    BY <1>0, <2>0 DEF UseInv
  <2>2. Uncounted' = Uncounted \cup {l} /\ l \notin Uncounted
    <3>1. \A x \in Launchers \ {l} : x \in Uncounted' <=> x \in Uncounted
      BY <1>1, <1>3, <2>0 DEF Uncounted
    <3>2. l \in Uncounted' /\ l \notin Uncounted
      BY <1>1, <2>0, <2>1 DEF Uncounted
    <3>3. Uncounted \subseteq Launchers /\ Uncounted' \subseteq Launchers
      BY DEF Uncounted
    <3> QED BY <3>1, <3>2, <3>3
  <2>3. Holding' = Holding
    BY <1>1, <1>3, <2>0 DEF Holding
  <2>4. Cardinality(Uncounted') = Cardinality(Uncounted) + 1
    BY <1>2, <2>2, CardAdd
  <2> QED BY <1>0, <1>1, <1>2, <1>4, <2>3, <2>4, SMTT(60) DEF BusyInv, Pushed
<1>5. ASSUME NEW w \in Workers, Popped(w) PROVE BusyInv'
  <2>0. /\ pc[w] # "idle" /\ pc'[w] = "idle" /\ rv'[w] = "SUCCESS"
        /\ \A x \in Threads \ {w} :
             (pc'[x] = "idle" <=> pc[x] = "idle") /\ rv'[x] = rv[x] /\ item'[x] = item[x]
    BY <1>5 DEF Popped, Returns, SameCall
  <2>1. stage[w] = "pop"
    BY <1>0, <2>0 DEF UseInv
  <2>2. Holding' = Holding \cup {w} /\ w \notin Holding
    <3>1. \A x \in Workers \ {w} : x \in Holding' <=> x \in Holding
      BY <1>1, <1>3, <2>0 DEF Holding
    <3>2. w \in Holding' /\ w \notin Holding
      BY <1>1, <2>0, <2>1 DEF Holding
    <3>3. Holding \subseteq Workers /\ Holding' \subseteq Workers
      BY DEF Holding
    <3> QED BY <3>1, <3>2, <3>3
  <2>3. Uncounted' = Uncounted
    BY <1>1, <1>3, <2>0 DEF Uncounted
  <2>4. Cardinality(Holding') = Cardinality(Holding) + 1
    BY <1>2, <2>2, CardAdd
  <2> QED BY <1>0, <1>1, <1>2, <1>5, <2>3, <2>4, SMTT(60) DEF BusyInv, Popped
<1>6. ASSUME NEW u \in Threads, Unserved(u) \/ Quiet PROVE BusyInv'
  <2>1. nelts' = nelts
    BY <1>6 DEF Unserved, Quiet, SameContents
  <2>2. \A x \in Threads \ {Main} :
          pc'[x] = "idle" /\ rv'[x] = "SUCCESS" <=> pc[x] = "idle" /\ rv[x] = "SUCCESS"
    BY <1>6 DEF Unserved, Quiet, Returns, SameCall
  <2>3. Uncounted' = Uncounted /\ Holding' = Holding
    BY <1>1, <1>3, <2>2, PoolAssumption DEF Uncounted, Holding
  <2> QED BY <1>0, <1>1, <2>1, <2>3 DEF BusyInv
<1> QED BY <1>4, <1>5, <1>6, PoolAssumption DEF QueueServes

\* Only threads have jobs in hand.
LEMMA CarryingThreads == Carrying \subseteq Threads \ {Main} /\ Carrying' \subseteq Threads \ {Main}
  BY PoolAssumption DEF Carrying, Holding

\* A job goes from its launcher to the queue and from the queue to one worker.
LEMMA QueueStepJobs ==
  ASSUME TypeOK, PoolInv, UNCHANGED poolVars, QueueServes
  PROVE  JobInv'
<1>0. PoolTypes /\ UseInv /\ JobInv
  BY DEF PoolInv
<1>1. stage' = stage /\ job' = job /\ jstate' = jstate
  BY DEF poolVars
<1>2. nelts \in Nat /\ \A x : Fate(x)' = Fate(x)
  BY <1>0, <1>1, BoundsAssumption, SMTT(60) DEF TypeOK, Fate
<1>3. Launchers \subseteq Threads /\ Workers \subseteq Threads /\ Launchers \cap Workers = {}
  BY PoolAssumption
<1>4. ASSUME NEW l \in Launchers, Pushed(l) PROVE JobInv'
  <2>0. /\ pc[l] # "idle" /\ pc'[l] = "idle" /\ rv'[l] = "SUCCESS"
        /\ \A x \in Threads \ {l} :
             (pc'[x] = "idle" <=> pc[x] = "idle") /\ rv'[x] = rv[x] /\ item'[x] = item[x]
    BY <1>4 DEF Pushed, Returns, SameCall
  <2>1. stage[l] = "push" /\ l \notin Workers /\ item[l] = job[l]
    BY <1>0, <1>3, <2>0 DEF UseInv
  <2>2. /\ Carrying' = Carrying \ {l} /\ l \in Carrying /\ Load(l) = item[l] /\ Fate(l) = "launched"
        /\ \A x \in Carrying' : Load(x)' = Load(x)
    <3>1. Carrying' = Carrying \ {l} /\ l \in Carrying
      <4>1. \A x \in Threads \ {l} : x \in Carrying' <=> x \in Carrying
        BY <1>1, <1>3, <2>0 DEF Carrying, Holding
      <4>2. l \notin Carrying' /\ l \in Carrying
        BY <1>1, <1>3, <2>0, <2>1 DEF Carrying, Holding
      <4> QED BY <4>1, <4>2, CarryingThreads
    <3>2. Load(l) = item[l] /\ Fate(l) = "launched"
      BY <2>1 DEF Load, Fate
    <3>3. \A x \in Threads \ {l} : Load(x)' = Load(x)
      BY <1>1, <2>0 DEF Load
    <3> QED BY <3>1, <3>2, <3>3, CarryingThreads
  <2>4. /\ nelts' = nelts + 1 /\ Contents'[nelts + 1] = Load(l)
        /\ \A i \in 1 .. nelts : Contents'[i] = Contents[i]
    BY <1>4, <2>2 DEF Pushed
  <2> QED BY <1>0, <1>1, <1>2, <2>2, <2>4, SMTT(60) DEF JobInv
<1>5. ASSUME NEW w \in Workers, Popped(w) PROVE JobInv'
  <2>0. /\ pc[w] # "idle" /\ pc'[w] = "idle" /\ rv'[w] = "SUCCESS"
        /\ \A x \in Threads \ {w} :
             (pc'[x] = "idle" <=> pc[x] = "idle") /\ rv'[x] = rv[x] /\ item'[x] = item[x]
    BY <1>5 DEF Popped, Returns, SameCall
  <2>1. stage[w] = "pop" /\ item'[w] = Contents[1]
    BY <1>0, <1>5, <2>0 DEF UseInv, Popped
  <2>2. /\ Carrying' = Carrying \cup {w} /\ w \notin Carrying
        /\ Load(w)' = Contents[1] /\ Fate(w) = "launched"
        /\ \A x \in Carrying : Load(x)' = Load(x)
    <3>1. Carrying' = Carrying \cup {w} /\ w \notin Carrying
      <4>1. \A x \in Threads \ {w} : x \in Carrying' <=> x \in Carrying
        BY <1>1, <1>3, <2>0 DEF Carrying, Holding
      <4>2. w \in Carrying' /\ w \notin Carrying
        BY <1>1, <1>3, <2>0, <2>1 DEF Carrying, Holding
      <4> QED BY <4>1, <4>2, CarryingThreads
    <3>2. Load(w)' = Contents[1] /\ Fate(w) = "launched"
      BY <1>1, <2>1 DEF Load, Fate
    <3>3. \A x \in Threads \ {w} : Load(x)' = Load(x)
      BY <1>1, <2>0 DEF Load
    <3> QED BY <3>1, <3>2, <3>3, CarryingThreads
  <2>4. /\ nelts # 0 /\ nelts' = nelts - 1
        /\ \A i \in 1 .. nelts - 1 : Contents'[i] = Contents[i + 1]
    BY <1>5 DEF Popped
  <2> QED BY <1>0, <1>1, <1>2, <2>2, <2>4, SMTT(60) DEF JobInv
<1>6. ASSUME NEW u \in Threads, Unserved(u) \/ Quiet PROVE JobInv'
  <2>1. \A x \in Threads \ {Main} :
          /\ pc'[x] = "idle" /\ rv'[x] = "SUCCESS" <=> pc[x] = "idle" /\ rv[x] = "SUCCESS"
          /\ pc[x] = "idle" => item'[x] = item[x]
    BY <1>6 DEF Unserved, Quiet, Returns, SameCall
  <2>2. Carrying' = Carrying
    BY <1>1, <1>3, <2>1, PoolAssumption DEF Carrying, Holding
  <2>3. \A x \in Carrying : Load(x)' = Load(x)
    BY <1>1, <1>3, <2>1, PoolAssumption DEF Load, Carrying, Holding
  <2>4. nelts' = nelts /\ \A i \in 1 .. nelts : Contents'[i] = Contents[i]
    BY <1>6 DEF Unserved, Quiet, SameContents
  <2> QED BY <1>0, <1>1, <1>2, <2>2, <2>3, <2>4, SMTT(60) DEF JobInv
<1> QED BY <1>4, <1>5, <1>6, PoolAssumption DEF QueueServes

-----------------------------------------------------------------------------
(* A step of one thread of the pool *)

\* What the other threads do, and the jobs they have in hand, is as before;
\* Main may have been woken.
Elsewhere(t) ==
    /\ \A x \in Threads \ {t, Main} : stage'[x] = stage[x] /\ job'[x] = job[x] /\ SameCall(x)
    /\ t = Main \/ SameCall(Main)
    /\ UNCHANGED ringVars

\* UseInv, for one thread after the step.
UseAfter(t) ==
    /\ t \in Launchers => /\ stage'[t] # "idle" => job'[t] \in Jobs
                          /\ pc'[t] # "idle" => /\ stage'[t] = "push" /\ op'[t] = "push"
                                                /\ item'[t] = job'[t]
    /\ t \in Workers => (pc'[t] # "idle" => stage'[t] = "pop" /\ op'[t] = "pop_timeout")
    /\ t = Main => (pc'[t] # "idle" => op'[t] = "term")

\* How much a thread counts in a set.
One(t, S) == IF t \in S THEN 1 ELSE 0

\* The size of a set changes by what one thread counts in it.
LEMMA CardMove ==
  ASSUME NEW S, NEW T, S \subseteq Threads, T \subseteq Threads, NEW t, S \ {t} = T \ {t}
  PROVE  Cardinality(T) = Cardinality(S) + One(t, T) - One(t, S)
<1>1. /\ IsFiniteSet(S) /\ IsFiniteSet(T)
      /\ Cardinality(S) \in Nat /\ Cardinality(T) \in Nat
  BY PoolFinite
<1>2. /\ Cardinality(S \ {t}) = IF t \in S THEN Cardinality(S) - 1 ELSE Cardinality(S)
      /\ Cardinality(T \ {t}) = IF t \in T THEN Cardinality(T) - 1 ELSE Cardinality(T)
  BY <1>1, CardRemove
<1> QED BY <1>1, <1>2, SMTT(60) DEF One

\* The other threads stay in the sets they are in.
LEMMA OthersStay ==
  ASSUME NEW t \in Threads, Elsewhere(t)
  PROVE  /\ Live \ {t} = Live' \ {t} /\ Creating \ {t} = Creating' \ {t}
         /\ Uncounted \ {t} = Uncounted' \ {t} /\ Holding \ {t} = Holding' \ {t}
         /\ Carrying \ {t} = Carrying' \ {t}
         /\ \A x \in Carrying \ {t} : Load(x)' = Load(x) /\ Fate(x)' = Fate(x)
<1>1. \A x \in (Workers \cup Launchers) \ {t} :
        /\ stage'[x] = stage[x] /\ job'[x] = job[x] /\ item'[x] = item[x] /\ rv'[x] = rv[x]
        /\ pc'[x] = "idle" <=> pc[x] = "idle"
  BY PoolAssumption DEF Elsewhere, SameCall
<1>2. Live \ {t} = Live' \ {t} /\ Creating \ {t} = Creating' \ {t}
  BY <1>1 DEF Live, Creating
<1>3. Uncounted \ {t} = Uncounted' \ {t}
  BY <1>1 DEF Uncounted
<1>4. Holding \ {t} = Holding' \ {t}
  <2>1. \A x \in Workers \ {t} : x \in Holding <=> x \in Holding'
    BY <1>1 DEF Holding
  <2> QED BY <2>1 DEF Holding
<1>5. Carrying \ {t} = Carrying' \ {t}
  <2> DEFINE P == {l \in Launchers : stage[l] = "push" /\ ~(pc[l] = "idle" /\ rv[l] = "SUCCESS")}
  <2>1. P \ {t} = P' \ {t}
    BY <1>1
  <2>2. Carrying = Holding \cup P /\ Carrying' = Holding' \cup P'
    BY DEF Carrying
  <2> HIDE DEF P
  <2> QED BY <1>4, <2>1, <2>2
<1>6. \A x \in Carrying \ {t} : Load(x)' = Load(x) /\ Fate(x)' = Fate(x)
  <2>1. Carrying \subseteq Workers \cup Launchers
    BY DEF Carrying, Holding
  <2> QED BY <1>1, <2>1 DEF Load, Fate
<1> QED BY <1>2, <1>3, <1>4, <1>5, <1>6

\* The counts stay exact if they are exact about the one thread that moves.
LEMMA OneThreadCounts ==
  ASSUME TypeOK, PoolInv, PoolTypes', NEW t \in Threads, Elsewhere(t), UseAfter(t),
         IsFiniteSet(Rejected'),
         running' = running + One(t, Live') - One(t, Live) + One(t, Creating') - One(t, Creating),
         busy' + One(t, Uncounted') - One(t, Uncounted) =
             busy + One(t, Holding') - One(t, Holding) + Cardinality(Rejected') - Cardinality(Rejected)
  PROVE  UseInv' /\ RunInv' /\ BusyInv'
<1>0. UseInv /\ RunInv /\ BusyInv /\ nelts \in Nat /\ busy \in Int /\ busy' \in Int /\ running \in Int
  BY BoundsAssumption, SMTT(60) DEF PoolInv, PoolTypes, TypeOK
<1>1. UseInv'
  <2>1. \A l \in Launchers \ {t} : stage'[l] = stage[l] /\ job'[l] = job[l] /\ SameCall(l)
    BY PoolAssumption DEF Elsewhere
  <2>2. \A w \in Workers \ {t} : stage'[w] = stage[w] /\ SameCall(w)
    BY PoolAssumption DEF Elsewhere
  <2>3. t = Main \/ SameCall(Main)
    BY DEF Elsewhere
  <2> QED BY <1>0, <2>1, <2>2, <2>3, SMTT(60) DEF UseInv, UseAfter, SameCall
<1>2. /\ Cardinality(Live') = Cardinality(Live) + One(t, Live') - One(t, Live)
      /\ Cardinality(Creating') = Cardinality(Creating) + One(t, Creating') - One(t, Creating)
      /\ Cardinality(Uncounted') = Cardinality(Uncounted) + One(t, Uncounted') - One(t, Uncounted)
      /\ Cardinality(Holding') = Cardinality(Holding) + One(t, Holding') - One(t, Holding)
  BY OthersStay, PoolSets, PoolSetsAfter, CardMove
<1>3. /\ Cardinality(Live) \in Nat /\ Cardinality(Creating) \in Nat
      /\ Cardinality(Uncounted) \in Nat /\ Cardinality(Holding) \in Nat
      /\ Cardinality(Rejected) \in Nat /\ Cardinality(Rejected') \in Nat
  BY <1>0, PoolSets, PoolFinite, FS_CardinalityType DEF BusyInv
<1>4. \A S : One(t, S) \in Int
  BY SMTT(60) DEF One
<1>5. RunInv'
  BY <1>0, <1>2, <1>3, <1>4, SMTT(60) DEF RunInv
<1>6. BusyInv'
  <2>1. nelts' = nelts
    BY DEF Elsewhere, ringVars
  <2> QED BY <1>0, <1>2, <1>3, <1>4, <2>1, SMTT(60) DEF BusyInv
<1> QED BY <1>1, <1>5, <1>6

\* Jobs stay in one place if the thread that moves takes up none, and changes
\* the state of none but its own.
LEMMA OneThreadJobs ==
  ASSUME TypeOK, PoolInv, NEW t \in Threads, Elsewhere(t),
         t \in Carrying' => t \in Carrying /\ Load(t)' = Load(t) /\ jstate'[Load(t)] = Fate(t)',
         jstate' = jstate \/ (t \in Carrying /\ \E v : jstate' = [jstate EXCEPT ![Load(t)] = v])
  PROVE  JobInv'
<1>0. JobInv /\ jstate \in [Jobs -> JobStates] /\ nelts \in Nat
  BY BoundsAssumption, SMTT(60) DEF PoolInv, PoolTypes, TypeOK
<1>1. /\ Carrying' \subseteq Carrying
      /\ \A x \in Carrying' : Load(x)' = Load(x)
      /\ \A x \in Carrying' \ {t} : Fate(x)' = Fate(x)
  BY OthersStay
<1>2. nelts' = nelts /\ Contents' = Contents
  BY DEF Elsewhere, ringVars, Contents
<1>3. \A x \in Carrying \ {t} : jstate'[Load(x)] = jstate[Load(x)]
  BY <1>0 DEF JobInv
<1>4. \A i \in 1 .. nelts : jstate'[Contents[i]] = jstate[Contents[i]]
  BY <1>0 DEF JobInv
<1> QED BY <1>0, <1>1, <1>2, <1>3, <1>4, SMTT(60) DEF JobInv

\* Jobs stay in one place when a launcher takes up one that was never launched.
LEMMA NewJob ==
  ASSUME TypeOK, PoolInv, NEW t \in Threads, Elsewhere(t), NEW j \in Jobs, jstate[j] = "new",
         jstate' = [jstate EXCEPT ![j] = "launched"],
         t \notin Carrying, Load(t)' = j, Fate(t)' = "launched"
  PROVE  JobInv'
<1>0. JobInv /\ jstate \in [Jobs -> JobStates] /\ nelts \in Nat
  BY BoundsAssumption, SMTT(60) DEF PoolInv, PoolTypes, TypeOK
<1>1. /\ Carrying' \subseteq Carrying \cup {t}
      /\ \A x \in Carrying : Load(x)' = Load(x) /\ Fate(x)' = Fate(x)
  BY OthersStay
<1>2. nelts' = nelts /\ Contents' = Contents
  BY DEF Elsewhere, ringVars, Contents
<1>3. \A x \in Carrying : Load(x) # j /\ jstate'[Load(x)] = jstate[Load(x)]
  BY <1>0 DEF JobInv, Fate
<1>4. \A i \in 1 .. nelts : Contents[i] # j /\ jstate'[Contents[i]] = jstate[Contents[i]]
  BY <1>0 DEF JobInv
<1>5. jstate'[j] = "launched"
  BY <1>0
<1> QED BY <1>0, <1>1, <1>2, <1>3, <1>4, <1>5, SMTT(60) DEF JobInv

-----------------------------------------------------------------------------
(* The actions of the pool *)

\* What a thread counts in depends on its stage.
LEMMA LauncherCounts ==
  ASSUME NEW l \in Launchers
  PROVE  /\ One(l, Live) = 0 /\ One(l, Holding) = 0
         /\ One(l, Creating) = IF stage[l] = "create" THEN 1 ELSE 0
         /\ stage[l] # "push" => One(l, Uncounted) = 0 /\ l \notin Carrying
         /\ pc[l] # "idle" => One(l, Uncounted) = 0
  BY PoolAssumption DEF One, Live, Holding, Creating, Uncounted, Carrying

\* See LauncherCounts.
LEMMA LauncherCountsAfter ==
  ASSUME NEW l \in Launchers
  PROVE  /\ One(l, Live') = 0 /\ One(l, Holding') = 0
         /\ One(l, Creating') = IF stage'[l] = "create" THEN 1 ELSE 0
         /\ stage'[l] # "push" => One(l, Uncounted') = 0 /\ l \notin Carrying'
         /\ pc'[l] # "idle" => One(l, Uncounted') = 0
  BY PoolAssumption DEF One, Live, Holding, Creating, Uncounted, Carrying

\* See LauncherCounts.
LEMMA WorkerCounts ==
  ASSUME NEW w \in Workers
  PROVE  /\ One(w, Live) = IF stage[w] = "none" THEN 0 ELSE 1
         /\ One(w, Creating) = 0 /\ One(w, Uncounted) = 0
         /\ One(w, Holding) = IF \/ stage[w] \in {"execute", "finished"}
                                 \/ stage[w] = "pop" /\ pc[w] = "idle" /\ rv[w] = "SUCCESS"
                              THEN 1 ELSE 0
         /\ w \in Carrying <=> One(w, Holding) = 1
  BY PoolAssumption, SMTT(60) DEF One, Live, Holding, Creating, Uncounted, Carrying

\* See LauncherCounts.
LEMMA WorkerCountsAfter ==
  ASSUME NEW w \in Workers
  PROVE  /\ One(w, Live') = IF stage'[w] = "none" THEN 0 ELSE 1
         /\ One(w, Creating') = 0 /\ One(w, Uncounted') = 0
         /\ One(w, Holding') = IF \/ stage'[w] \in {"execute", "finished"}
                                  \/ stage'[w] = "pop" /\ pc'[w] = "idle" /\ rv'[w] = "SUCCESS"
                               THEN 1 ELSE 0
         /\ w \in Carrying' <=> One(w, Holding') = 1
  BY PoolAssumption, SMTT(60) DEF One, Live, Holding, Creating, Uncounted, Carrying

\* A step that leaves the queue alone leaves every call alone.
LEMMA NoCall ==
  ASSUME UNCHANGED queueVars
  PROVE  UNCHANGED ringVars /\ \A x : SameCall(x)
  BY DEF queueVars, callVars, SameCall

\* A call of t is a step of t alone.
LEMMA CallElsewhere ==
  ASSUME TypeOK, NEW t \in Threads, NEW o \in Ops, NEW v, Call(t, o, v)
  PROVE  /\ UNCHANGED ringVars /\ \A x \in Threads \ {t} : SameCall(x)
         /\ pc[t] = "idle" /\ pc'[t] # "idle" /\ op'[t] = o /\ item'[t] = v
<1>1. /\ pc \in [Threads -> Places] /\ op \in [Threads -> Ops]
      /\ item \in [Threads -> Values \cup {NULL}] /\ rv \in [Threads -> Statuses]
  BY DEF TypeOK
<1>2. PICK p \in {"broadcast", "enter", "called"} : pc' = [pc EXCEPT ![t] = p]
  BY DEF Call
<1> QED BY <1>1, <1>2 DEF Call, SameCall

\* Jobs that are not turned away leave the number of those that were alone.
LEMMA SameRejected ==
  ASSUME PoolInv,
         \/ jstate' = jstate
         \/ \E j \in Jobs : \E v : /\ jstate' = [jstate EXCEPT ![j] = v]
                                   /\ jstate[j] # "rejected" /\ v # "rejected"
  PROVE  Rejected' = Rejected /\ IsFiniteSet(Rejected') /\ Cardinality(Rejected) \in Nat
  BY FS_CardinalityType DEF PoolInv, PoolTypes, BusyInv, Rejected

\* A launcher takes up a session, or lets it be: switch_core_session_thread_launch,
\* the INUSE return of switch_core_session_thread_pool_launch, and the unlock.
LEMMA LauncherAsideStep ==
  ASSUME TypeOK, PoolInv, NEW l \in Launchers,
         \/ \E j \in Jobs : ThreadLaunch(l, j)
         \/ PoolLaunch(l) /\ LooksStarted(l)
         \/ Unlock(l)
  PROVE  PoolInv'
<1>0. PoolTypes /\ UseInv /\ l \in Threads
  BY PoolAssumption DEF PoolInv
<1>1. /\ UNCHANGED <<queueVars, running, busy, jstate>>
      /\ stage[l] \in {"idle", "lock", "unlock"}
      /\ \E s \in {"idle", "lock"} : stage' = [stage EXCEPT ![l] = s]
      /\ \/ \E j \in Jobs : job' = [job EXCEPT ![l] = j]
         \/ job' = job /\ stage[l] # "idle"
  BY DEF ThreadLaunch, PoolLaunch, Unlock, Step
<1>2. PoolTypes'
  BY <1>0, <1>1, PoolAssumption, SMTT(60) DEF PoolTypes, LauncherStages
<1>3. Elsewhere(l)
  BY <1>0, <1>1, NoCall DEF Elsewhere, PoolTypes
<1>4. stage'[l] \in {"idle", "lock"} /\ job'[l] \in Jobs /\ pc[l] = "idle" /\ pc'[l] = "idle"
  BY <1>0, <1>1, NoCall DEF PoolTypes, UseInv, SameCall
<1>5. UseAfter(l)
  BY <1>4, PoolAssumption DEF UseAfter
<1>6. Rejected' = Rejected /\ IsFiniteSet(Rejected') /\ Cardinality(Rejected) \in Nat
  BY <1>1, SameRejected
<1>7. UseInv' /\ RunInv' /\ BusyInv'
  <2>1. /\ One(l, Live) = 0 /\ One(l, Live') = 0 /\ One(l, Creating) = 0 /\ One(l, Creating') = 0
        /\ One(l, Uncounted) = 0 /\ One(l, Uncounted') = 0 /\ One(l, Holding) = 0 /\ One(l, Holding') = 0
    BY <1>1, <1>4, LauncherCounts, LauncherCountsAfter
  <2>2. running' = running /\ busy' = busy /\ running \in Int /\ busy \in Int
    BY <1>0, <1>1 DEF PoolTypes
  <2>3. running' = running + One(l, Live') - One(l, Live) + One(l, Creating') - One(l, Creating)
    BY <2>1, <2>2, SMTT(60)
  <2>4. busy' + One(l, Uncounted') - One(l, Uncounted) =
           busy + One(l, Holding') - One(l, Holding) + Cardinality(Rejected') - Cardinality(Rejected)
    BY <1>6, <2>1, <2>2, SMTT(60)
  <2> QED BY <1>0, <1>2, <1>3, <1>5, <1>6, <2>3, <2>4, OneThreadCounts
<1>8. JobInv'
  <2>1. l \notin Carrying'
    BY <1>4, LauncherCountsAfter
  <2> QED BY <1>0, <1>1, <1>3, <2>1, OneThreadJobs
<1> QED BY <1>2, <1>7, <1>8 DEF PoolInv

\* A launcher begins to push a job that was not launched before.
LEMMA LaunchStep ==
  ASSUME TypeOK, PoolInv, NEW l \in Launchers,
         \/ \E j \in Jobs : LaunchThread(l, j)
         \/ PoolLaunch(l) /\ ~LooksStarted(l)
  PROVE  PoolInv'
<1>0. PoolTypes /\ UseInv /\ l \in Threads
  BY PoolAssumption DEF PoolInv
<1>1. PICK j \in Jobs : /\ jstate[j] = "new" /\ jstate' = [jstate EXCEPT ![j] = "launched"]
                        /\ stage[l] \in {"idle", "lock"} /\ stage' = [stage EXCEPT ![l] = "push"]
                        /\ job' = [job EXCEPT ![l] = j] /\ Call(l, "push", j)
                        /\ UNCHANGED <<running, busy>>
  <2>1. CASE PoolLaunch(l) /\ ~LooksStarted(l)
    <3>1. job[l] \in Jobs /\ job' = [job EXCEPT ![l] = job[l]]
      BY <1>0, <2>1 DEF PoolLaunch, UseInv, PoolTypes
    <3> QED BY <2>1, <3>1 DEF PoolLaunch, LooksStarted, Started, Step
  <2>2. CASE \E j \in Jobs : LaunchThread(l, j)
    BY <2>2 DEF LaunchThread, Step
  <2> QED BY <2>1, <2>2
<1>2. PoolTypes'
  BY <1>0, <1>1, PoolAssumption DEF PoolTypes, LauncherStages, JobStates
<1>3. /\ UNCHANGED ringVars /\ \A x \in Threads \ {l} : SameCall(x)
      /\ pc[l] = "idle" /\ pc'[l] # "idle" /\ op'[l] = "push" /\ item'[l] = j
  <2>1. "push" \in Ops
    BY DEF Ops, PushOps
  <2> QED BY <1>0, <1>1, <2>1, CallElsewhere
<1>4. Elsewhere(l)
  BY <1>0, <1>1, <1>3, PoolAssumption DEF Elsewhere, PoolTypes
<1>5. stage'[l] = "push" /\ job'[l] = j
  BY <1>0, <1>1 DEF PoolTypes
<1>6. UseAfter(l)
  BY <1>3, <1>5, PoolAssumption DEF UseAfter
<1>7. Rejected' = Rejected /\ IsFiniteSet(Rejected') /\ Cardinality(Rejected) \in Nat
  BY <1>1, SameRejected
<1>8. UseInv' /\ RunInv' /\ BusyInv'
  <2>1. /\ One(l, Live) = 0 /\ One(l, Live') = 0 /\ One(l, Creating) = 0 /\ One(l, Creating') = 0
        /\ One(l, Uncounted) = 0 /\ One(l, Uncounted') = 0 /\ One(l, Holding) = 0 /\ One(l, Holding') = 0
    BY <1>1, <1>3, <1>5, LauncherCounts, LauncherCountsAfter
  <2>2. running' = running /\ busy' = busy /\ running \in Int /\ busy \in Int
    BY <1>0, <1>1 DEF PoolTypes
  <2>3. running' = running + One(l, Live') - One(l, Live) + One(l, Creating') - One(l, Creating)
    BY <2>1, <2>2, SMTT(60)
  <2>4. busy' + One(l, Uncounted') - One(l, Uncounted) =
           busy + One(l, Holding') - One(l, Holding) + Cardinality(Rejected') - Cardinality(Rejected)
    BY <1>7, <2>1, <2>2, SMTT(60)
  <2> QED BY <1>0, <1>2, <1>4, <1>6, <1>7, <2>3, <2>4, OneThreadCounts
<1>9. JobInv'
  <2>1. l \notin Carrying /\ l \notin Workers
    BY <1>1, LauncherCounts, PoolAssumption
  <2>2. Load(l)' = j /\ Fate(l)' = "launched"
    BY <1>5, <2>1 DEF Load, Fate
  <2> QED BY <1>0, <1>1, <1>4, <2>1, <2>2, NewJob
<1> QED BY <1>2, <1>8, <1>9 DEF PoolInv

\* check_queue counts a job that the queue took, or for good one that it turned away.
LEMMA CheckQueueStep ==
  ASSUME TypeOK, PoolInv, NEW l \in Launchers, CheckQueue(l)
  PROVE  PoolInv'
<1>0. PoolTypes /\ UseInv /\ BusyInv /\ JobInv /\ l \in Threads /\ l \notin Workers /\ job[l] \in Jobs
  BY PoolAssumption DEF PoolInv, UseInv, CheckQueue
<1>1. /\ stage[l] = "push" /\ pc[l] = "idle" /\ busy' = busy + 1
      /\ UNCHANGED <<queueVars, job>>
  BY DEF CheckQueue
<1>2. \/ stage' = [stage EXCEPT ![l] = "unlock"] /\ running' = running
      \/ stage' = [stage EXCEPT ![l] = "create"] /\ running' = running + 1
  BY DEF CheckQueue, Step
<1>3. jstate' = IF rv[l] = "SUCCESS" THEN jstate ELSE [jstate EXCEPT ![job[l]] = "rejected"]
  BY DEF CheckQueue
<1>4. PoolTypes'
  BY <1>0, <1>1, <1>2, <1>3, PoolAssumption, SMTT(60) DEF PoolTypes, LauncherStages, JobStates
<1>5. Elsewhere(l)
  BY <1>0, <1>1, <1>2, NoCall DEF Elsewhere, PoolTypes
<1>6. stage'[l] \in {"unlock", "create"} /\ job'[l] \in Jobs /\ pc'[l] = "idle"
  BY <1>0, <1>1, <1>2, NoCall DEF PoolTypes, SameCall
<1>7. UseAfter(l)
  BY <1>0, <1>6, PoolAssumption DEF UseAfter
<1>8. running' = running + One(l, Live') - One(l, Live) + One(l, Creating') - One(l, Creating)
  <2>1. /\ One(l, Live) = 0 /\ One(l, Live') = 0 /\ One(l, Creating) = 0
        /\ One(l, Creating') = IF stage'[l] = "create" THEN 1 ELSE 0
    BY <1>1, LauncherCounts, LauncherCountsAfter
  <2>2. running \in Int /\ \/ stage'[l] = "unlock" /\ running' = running
                           \/ stage'[l] = "create" /\ running' = running + 1
    BY <1>0, <1>2 DEF PoolTypes
  <2> QED BY <2>1, <2>2, SMTT(60)
<1>9. /\ One(l, Holding) = 0 /\ One(l, Holding') = 0 /\ One(l, Uncounted') = 0 /\ l \notin Carrying'
      /\ busy \in Int /\ IsFiniteSet(Rejected) /\ Cardinality(Rejected) \in Nat
  BY <1>0, <1>1, <1>6, LauncherCounts, LauncherCountsAfter, FS_CardinalityType DEF PoolTypes, BusyInv
<1>10. CASE rv[l] = "SUCCESS"
  <2>1. One(l, Uncounted) = 1 /\ Rejected' = Rejected
    BY <1>1, <1>3, <1>10 DEF One, Uncounted, Rejected
  <2>2. busy' + One(l, Uncounted') - One(l, Uncounted) =
           busy + One(l, Holding') - One(l, Holding) + Cardinality(Rejected') - Cardinality(Rejected)
    BY <1>1, <1>9, <2>1, SMTT(60)
  <2>3. UseInv' /\ RunInv' /\ BusyInv'
    BY <1>0, <1>4, <1>5, <1>7, <1>8, <1>9, <2>1, <2>2, OneThreadCounts
  <2>4. JobInv'
    BY <1>0, <1>3, <1>5, <1>9, <1>10, OneThreadJobs
  <2> QED BY <1>4, <2>3, <2>4 DEF PoolInv
<1>11. CASE rv[l] # "SUCCESS"
  <2>1. l \in Carrying /\ Load(l) = job[l] /\ One(l, Uncounted) = 0
    BY <1>0, <1>1, <1>11 DEF Carrying, Load, One, Uncounted
  <2>2. jstate[job[l]] = "launched"
    BY <1>0, <2>1 DEF JobInv, Fate
  <2>3. Rejected' = Rejected \cup {job[l]} /\ job[l] \notin Rejected
    BY <1>0, <1>3, <1>11, <2>2 DEF Rejected, PoolTypes
  <2>4. IsFiniteSet(Rejected') /\ Cardinality(Rejected') = Cardinality(Rejected) + 1
    BY <1>9, <2>3, FS_AddElement
  <2>5. busy' + One(l, Uncounted') - One(l, Uncounted) =
           busy + One(l, Holding') - One(l, Holding) + Cardinality(Rejected') - Cardinality(Rejected)
    BY <1>1, <1>9, <2>1, <2>4, SMTT(60)
  <2>6. UseInv' /\ RunInv' /\ BusyInv'
    BY <1>0, <1>4, <1>5, <1>7, <1>8, <2>4, <2>5, OneThreadCounts
  <2>7. JobInv'
    <3>1. \E v : jstate' = [jstate EXCEPT ![Load(l)] = v]
      BY <1>3, <1>11, <2>1
    <3> QED BY <1>0, <1>5, <1>9, <2>1, <3>1, OneThreadJobs
  <2> QED BY <1>4, <2>6, <2>7 DEF PoolInv
<1> QED BY <1>10, <1>11
=============================================================================

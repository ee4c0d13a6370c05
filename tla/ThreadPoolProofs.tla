-------------------------- MODULE ThreadPoolProofs --------------------------
(***************************************************************************)
(* TLAPS proofs about ThreadPool, for any launchers, workers and jobs and   *)
(* any capacity of the queue.  ThreadPoolSteps has the invariant and the    *)
(* steps of the launchers; the creation of workers, their steps and those   *)
(* of switch_core_session_uninit come first here.  The last section takes   *)
(* from AprQueueProofs that the queue serves the pool as a FIFO would.      *)
(***************************************************************************)
EXTENDS ThreadPoolSteps

(* Zenon proves the leaves that do not name the SMT solver. *)
USE ZenonT(60)

-----------------------------------------------------------------------------
(* The steps of the workers and of Main *)

\* check_queue creates the worker it counted.
LEMMA CreateStep ==
  ASSUME TypeOK, PoolInv, NEW l \in Launchers, NEW w \in Workers, CreateWorker(l, w)
  PROVE  PoolInv'
<1>0. PoolTypes /\ UseInv /\ RunInv /\ BusyInv /\ JobInv /\ l \in Threads /\ w \in Threads /\ l # w
  BY PoolAssumption DEF PoolInv
<1>1. /\ stage[l] = "create" /\ stage[w] = "none"
      /\ stage' = [stage EXCEPT ![l] = "unlock", ![w] = "loop"]
      /\ UNCHANGED <<queueVars, running, busy, job, jstate>>
  BY DEF CreateWorker
<1>2. /\ stage'[l] = "unlock" /\ stage'[w] = "loop"
      /\ \A x \in Threads \ {l, w} : stage'[x] = stage[x]
  BY <1>0, <1>1 DEF PoolTypes
<1>3. PoolTypes'
  BY <1>0, <1>1, PoolAssumption DEF PoolTypes, LauncherStages, WorkerStages
<1>4. pc[l] = "idle" /\ pc[w] = "idle" /\ pc' = pc /\ op' = op /\ item' = item /\ rv' = rv /\ nelts' = nelts
  BY <1>0, <1>1 DEF UseInv, queueVars, callVars, ringVars
<1>5. UseInv'
  BY <1>0, <1>1, <1>2, <1>4, PoolAssumption DEF UseInv
<1>6. RunInv'
  <2>1. Creating' = Creating \ {l} /\ l \in Creating
    BY <1>1, <1>2, PoolAssumption DEF Creating
  <2>2. Live' = Live \cup {w} /\ w \notin Live
    BY <1>1, <1>2, PoolAssumption DEF Live
  <2>3. /\ IsFiniteSet(Live) /\ Cardinality(Live) \in Nat
        /\ IsFiniteSet(Creating) /\ Cardinality(Creating) \in Nat
    BY PoolSets, PoolFinite
  <2>4. /\ Cardinality(Live') = Cardinality(Live) + 1
        /\ Cardinality(Creating') = Cardinality(Creating) - 1
    BY <2>1, <2>2, <2>3, CardAdd, CardRemove
  <2> QED BY <1>0, <1>1, <2>3, <2>4, SMTT(60) DEF RunInv
<1>7. Uncounted' = Uncounted /\ Holding' = Holding /\ Carrying' = Carrying /\ Rejected' = Rejected
  <2>1. Uncounted' = Uncounted
    BY <1>1, <1>2, <1>4, PoolAssumption DEF Uncounted
  <2>2. Holding' = Holding
    BY <1>1, <1>2, <1>4, PoolAssumption DEF Holding
  <2>3. Carrying' = Carrying
    BY <1>1, <1>2, <1>4, <2>2, PoolAssumption DEF Carrying
  <2> QED BY <1>1, <2>1, <2>2, <2>3 DEF Rejected
<1>8. BusyInv'
  BY <1>0, <1>1, <1>4, <1>7 DEF BusyInv
<1>9. JobInv'
  <2>1. \A x \in Carrying : x \in Threads \ {l, w}
    BY <1>1, CarryingThreads, PoolAssumption DEF Carrying, Holding
  <2>2. \A x \in Carrying : Load(x)' = Load(x) /\ Fate(x)' = Fate(x)
    BY <1>1, <1>2, <1>4, <2>1 DEF Load, Fate
  <2>3. Contents' = Contents
    BY <1>1 DEF queueVars, ringVars, Contents
  <2> QED BY <1>0, <1>1, <1>4, <1>7, <2>2, <2>3, SMTT(60) DEF JobInv
<1> QED BY <1>3, <1>5, <1>6, <1>8, <1>9 DEF PoolInv

\* running goes down when the thread could not be created.
LEMMA CreateFailsStep ==
  ASSUME TypeOK, PoolInv, NEW l \in Launchers, CreateFails(l)
  PROVE  PoolInv'
<1>0. PoolTypes /\ UseInv /\ l \in Threads /\ l # Main /\ Main \in Threads /\ Main \notin Workers \cup Launchers
  BY PoolAssumption DEF PoolInv
<1>1. /\ stage[l] = "create" /\ running' = running - 1
      /\ UNCHANGED <<queueVars, busy, job, jstate>>
      /\ \E m : stage' = [stage EXCEPT ![l] = "unlock", ![Main] = m]
      /\ stage' \in [Threads -> WorkerStages \cup LauncherStages \cup MainStages]
  BY <1>0 DEF CreateFails, WithOneLess, PoolTypes, LauncherStages, MainStages
<1>2. stage'[l] = "unlock" /\ \A x \in Threads \ {l, Main} : stage'[x] = stage[x]
  BY <1>0, <1>1 DEF PoolTypes
<1>3. PoolTypes'
  BY <1>0, <1>1, <1>2, PoolAssumption, SMTT(60) DEF PoolTypes, LauncherStages
<1>4. Elsewhere(l)
  BY <1>0, <1>1, <1>2, NoCall DEF Elsewhere
<1>5. job'[l] \in Jobs /\ pc'[l] = "idle"
  BY <1>0, <1>1, NoCall DEF UseInv, SameCall
<1>6. UseAfter(l)
  BY <1>2, <1>5, PoolAssumption DEF UseAfter
<1>7. Rejected' = Rejected /\ IsFiniteSet(Rejected') /\ Cardinality(Rejected) \in Nat
  BY <1>1, SameRejected
<1>8. UseInv' /\ RunInv' /\ BusyInv'
  <2>0. stage[l] = "create" /\ stage'[l] = "unlock"
    BY <1>1, <1>2
  <2>1. /\ One(l, Live) = 0 /\ One(l, Live') = 0 /\ One(l, Creating) = 1 /\ One(l, Creating') = 0
        /\ One(l, Uncounted) = 0 /\ One(l, Uncounted') = 0 /\ One(l, Holding) = 0 /\ One(l, Holding') = 0
    <3>1. One(l, Live) = 0 /\ One(l, Creating) = 1 /\ One(l, Uncounted) = 0 /\ One(l, Holding) = 0
      BY <2>0, LauncherCounts
    <3>2. One(l, Live') = 0 /\ One(l, Creating') = 0 /\ One(l, Uncounted') = 0 /\ One(l, Holding') = 0
      BY <2>0, LauncherCountsAfter
    <3> QED BY <3>1, <3>2
  <2>2. running' = running - 1 /\ busy' = busy /\ running \in Int /\ busy \in Int
    BY <1>0, <1>1 DEF PoolTypes
  <2>3. running' = running + One(l, Live') - One(l, Live) + One(l, Creating') - One(l, Creating)
    BY <2>1, <2>2, SMTT(60)
  <2>4. busy' + One(l, Uncounted') - One(l, Uncounted) =
           busy + One(l, Holding') - One(l, Holding) + Cardinality(Rejected') - Cardinality(Rejected)
    BY <1>7, <2>1, <2>2, SMTT(60)
  <2> QED BY <1>0, <1>3, <1>4, <1>6, <1>7, <2>3, <2>4, OneThreadCounts
<1>9. JobInv'
  BY <1>0, <1>1, <1>2, <1>4, LauncherCountsAfter, OneThreadJobs
<1> QED BY <1>3, <1>8, <1>9 DEF PoolInv

\* A worker that has a job goes on with it: it starts the job, or the job ends.
LEMMA WorkStep ==
  ASSUME TypeOK, PoolInv, NEW w \in Workers, WorkerStarts(w) \/ JobEnds(w)
  PROVE  PoolInv'
<1>0. PoolTypes /\ UseInv /\ JobInv /\ w \in Threads /\ w # Main /\ w \notin Launchers
  BY PoolAssumption DEF PoolInv
<1>1. /\ One(w, Holding) = 1 /\ w \in Carrying
      /\ Load(w) \in Jobs /\ jstate[Load(w)] = Fate(w) /\ stage[w] \in {"pop", "execute"} /\ pc[w] = "idle"
  <2>1. One(w, Holding) = 1 /\ w \in Carrying /\ stage[w] \in {"pop", "execute"}
    BY WorkerCounts DEF WorkerStarts, JobEnds
  <2>2. pc[w] = "idle"
    BY <1>0 DEF UseInv, WorkerStarts, JobEnds
  <2> QED BY <1>0, <2>1, <2>2 DEF JobInv
<1>2. PICK s \in {"execute", "finished"} :
        /\ stage' = [stage EXCEPT ![w] = s]
        /\ job' = [job EXCEPT ![w] = Load(w)]
        /\ jstate' = [jstate EXCEPT ![Load(w)] = IF s = "execute" THEN "running" ELSE "done"]
        /\ UNCHANGED <<queueVars, running, busy>>
  <2>1. CASE WorkerStarts(w)
    BY <2>1 DEF WorkerStarts, Step, Load
  <2>2. CASE JobEnds(w)
    <3>1. Load(w) = job[w] /\ job' = [job EXCEPT ![w] = job[w]]
      BY <1>0, <2>2 DEF JobEnds, Load, PoolTypes
    <3> QED BY <2>2, <3>1 DEF JobEnds, Step
  <2> QED BY <2>1, <2>2
<1>3. /\ stage'[w] = s /\ job'[w] = Load(w) /\ pc'[w] = "idle"
      /\ jstate'[Load(w)] = IF s = "execute" THEN "running" ELSE "done"
  BY <1>0, <1>1, <1>2, NoCall DEF PoolTypes, SameCall
<1>4. PoolTypes'
  BY <1>0, <1>1, <1>2, PoolAssumption DEF PoolTypes, WorkerStages, JobStates
<1>5. Elsewhere(w)
  BY <1>0, <1>2, NoCall DEF Elsewhere, PoolTypes
<1>6. UseAfter(w)
  BY <1>0, <1>3 DEF UseAfter
<1>7. Rejected' = Rejected /\ IsFiniteSet(Rejected') /\ Cardinality(Rejected) \in Nat
  BY <1>1, <1>2, SameRejected DEF Fate
<1>8. UseInv' /\ RunInv' /\ BusyInv'
  <2>1. /\ One(w, Live) = 1 /\ One(w, Live') = 1 /\ One(w, Creating) = 0 /\ One(w, Creating') = 0
        /\ One(w, Uncounted) = 0 /\ One(w, Uncounted') = 0 /\ One(w, Holding) = 1 /\ One(w, Holding') = 1
    BY <1>1, <1>3, WorkerCounts, WorkerCountsAfter
  <2>2. running' = running /\ busy' = busy /\ running \in Int /\ busy \in Int
    BY <1>0, <1>2 DEF PoolTypes
  <2>3. running' = running + One(w, Live') - One(w, Live) + One(w, Creating') - One(w, Creating)
    BY <2>1, <2>2, SMTT(60)
  <2>4. busy' + One(w, Uncounted') - One(w, Uncounted) =
           busy + One(w, Holding') - One(w, Holding) + Cardinality(Rejected') - Cardinality(Rejected)
    BY <1>7, <2>1, <2>2, SMTT(60)
  <2> QED BY <1>0, <1>4, <1>5, <1>6, <1>7, <2>3, <2>4, OneThreadCounts
<1>9. JobInv'
  <2>1. Load(w)' = Load(w) /\ Fate(w)' = jstate'[Load(w)]
    BY <1>3 DEF Load, Fate
  <2>2. \E v : jstate' = [jstate EXCEPT ![Load(w)] = v]
    BY <1>2
  <2> QED BY <1>0, <1>1, <1>5, <2>1, <2>2, OneThreadJobs
<1> QED BY <1>4, <1>8, <1>9 DEF PoolInv

\* A worker that has no job, or is done with it: it pops again, uncounts the job,
\* finds that nothing came, or leaves.
LEMMA WorkerAsideStep ==
  ASSUME TypeOK, PoolInv, NEW w \in Workers, WorkerPops(w) \/ WorkerUncounts(w) \/ WorkerIdles(w)
  PROVE  PoolInv'
<1>0. PoolTypes /\ UseInv /\ w \in Threads /\ w # Main /\ w \notin Launchers /\ Main \notin Workers \cup Launchers
  BY PoolAssumption DEF PoolInv
<1>1. /\ stage'[w] \in {"loop", "pop", "none"} /\ UNCHANGED jstate
      /\ stage' \in [Threads -> WorkerStages \cup LauncherStages \cup MainStages]
      /\ \A x \in Threads \ {w, Main} : stage'[x] = stage[x] /\ job'[x] = job[x]
      /\ job' \in [Threads -> Jobs \cup {NULL}]
  <2>1. CASE WorkerPops(w)
    BY <1>0, <2>1 DEF WorkerPops, Step, PoolTypes, WorkerStages
  <2>2. CASE WorkerUncounts(w)
    BY <1>0, <2>2 DEF WorkerUncounts, Step, PoolTypes, WorkerStages
  <2>3. CASE WorkerIdles(w) /\ Step(w, "loop")
    BY <1>0, <2>3 DEF WorkerIdles, Step, PoolTypes, WorkerStages
  <2>4. CASE WorkerIdles(w) /\ WithOneLess(w, "none")
    BY <1>0, <2>4 DEF WorkerIdles, WithOneLess, PoolTypes, WorkerStages, MainStages
  <2> QED BY <2>1, <2>2, <2>3, <2>4 DEF WorkerIdles
<1>2. \/ /\ stage'[w] = "pop" /\ pc'[w] # "idle" /\ op'[w] = "pop_timeout"
         /\ UNCHANGED ringVars /\ \A x \in Threads \ {w} : SameCall(x)
      \/ stage'[w] # "pop" /\ pc'[w] = "idle" /\ UNCHANGED ringVars /\ \A x \in Threads : SameCall(x)
  <2>1. CASE WorkerPops(w)
    <3>1. "pop_timeout" \in Ops /\ stage'[w] = "pop"
      BY <1>0, <2>1 DEF Ops, PopOps, WorkerPops, Step, PoolTypes
    <3> QED BY <1>0, <2>1, <3>1, CallElsewhere DEF WorkerPops
  <2>2. CASE WorkerUncounts(w) \/ WorkerIdles(w)
    <3>1. UNCHANGED queueVars /\ stage'[w] # "pop"
      BY <1>0, <2>2 DEF WorkerUncounts, WorkerIdles, WithOneLess, Step, PoolTypes
    <3>2. pc[w] = "idle"
      BY <1>0, <2>2 DEF WorkerUncounts, WorkerIdles, UseInv
    <3> QED BY <3>1, <3>2, NoCall DEF SameCall
  <2> QED BY <2>1, <2>2
<1>3. running' \in Int /\ busy' \in Int
  <2>1. running' \in {running, running - 1} /\ busy' \in {busy, busy - 1}
    BY DEF WorkerPops, WorkerUncounts, WorkerIdles, WithOneLess
  <2> QED BY <1>0, <2>1, SMTT(60) DEF PoolTypes
<1>4. PoolTypes'
  BY <1>0, <1>1, <1>3, PoolAssumption DEF PoolTypes, WorkerStages
<1>5. Elsewhere(w)
  BY <1>0, <1>1, <1>2, PoolAssumption DEF Elsewhere
<1>6. UseAfter(w)
  BY <1>0, <1>2 DEF UseAfter
<1>7. Rejected' = Rejected /\ IsFiniteSet(Rejected') /\ Cardinality(Rejected) \in Nat
  BY <1>1, SameRejected
<1>8. /\ One(w, Creating) = 0 /\ One(w, Creating') = 0 /\ One(w, Uncounted) = 0 /\ One(w, Uncounted') = 0
      /\ One(w, Holding') = 0 /\ w \notin Carrying'
  BY <1>1, <1>2, WorkerCounts, WorkerCountsAfter, SMTT(60)
<1>9. running' = running + One(w, Live') - One(w, Live)
  <2>1. One(w, Live) = 1 /\ One(w, Live') = IF stage'[w] = "none" THEN 0 ELSE 1
    BY WorkerCounts, WorkerCountsAfter DEF WorkerPops, WorkerUncounts, WorkerIdles
  <2>2. running' = IF stage'[w] = "none" THEN running - 1 ELSE running
    BY <1>0 DEF WorkerPops, WorkerUncounts, WorkerIdles, WithOneLess, Step, PoolTypes
  <2>3. running \in Int
    BY <1>0 DEF PoolTypes
  <2> QED BY <2>1, <2>2, <2>3, SMTT(60)
<1>10. busy' = busy - One(w, Holding)
  <2>1. One(w, Holding) = IF stage[w] = "finished" THEN 1 ELSE 0
    BY WorkerCounts DEF WorkerPops, WorkerUncounts, WorkerIdles
  <2>2. busy' = IF stage[w] = "finished" THEN busy - 1 ELSE busy
    BY DEF WorkerPops, WorkerUncounts, WorkerIdles
  <2>3. busy \in Int
    BY <1>0 DEF PoolTypes
  <2> QED BY <2>1, <2>2, <2>3, SMTT(60)
<1>11. UseInv' /\ RunInv' /\ BusyInv'
  <2>1. busy \in Int /\ running \in Int /\ One(w, Holding) \in Int /\ One(w, Live) \in Int /\ One(w, Live') \in Int
    BY <1>0, SMTT(60) DEF PoolTypes, One
  <2>2. running' = running + One(w, Live') - One(w, Live) + One(w, Creating') - One(w, Creating)
    BY <1>8, <1>9, <2>1, SMTT(60)
  <2>3. busy' + One(w, Uncounted') - One(w, Uncounted) =
           busy + One(w, Holding') - One(w, Holding) + Cardinality(Rejected') - Cardinality(Rejected)
    BY <1>7, <1>8, <1>10, <2>1, SMTT(60)
  <2> QED BY <1>0, <1>4, <1>5, <1>6, <1>7, <2>2, <2>3, OneThreadCounts
<1>12. JobInv'
  BY <1>0, <1>1, <1>5, <1>8, OneThreadJobs
<1> QED BY <1>4, <1>11, <1>12 DEF PoolInv

\* switch_core_session_uninit does not touch the counts or the jobs.
LEMMA UninitStep ==
  ASSUME TypeOK, PoolInv, Uninit \/ MainStep
  PROVE  PoolInv'
<1>0. PoolTypes /\ UseInv /\ RunInv /\ BusyInv /\ Main \in Threads /\ Main \notin Workers \cup Launchers
  BY PoolAssumption DEF PoolInv
<1>1. /\ UNCHANGED <<running, busy, job, jstate>>
      /\ \E s \in MainStages : stage' = [stage EXCEPT ![Main] = s]
  BY DEF Uninit, MainStep, UninitWaits, UninitGivesUp, Step, MainStages
<1>2. PoolTypes'
  BY <1>0, <1>1, PoolAssumption, SMTT(60) DEF PoolTypes
<1>3. /\ UNCHANGED ringVars /\ \A x \in Threads \ {Main} : SameCall(x)
      /\ pc'[Main] # "idle" => op'[Main] = "term"
  <2>1. CASE Uninit
    <3>1. "term" \in Ops
      BY DEF Ops, CtlOps
    <3> QED BY <1>0, <2>1, <3>1, CallElsewhere DEF Uninit
  <2>2. CASE MainStep
    <3>1. UNCHANGED queueVars
      BY <2>2 DEF MainStep, UninitWaits, UninitGivesUp
    <3> QED BY <1>0, <3>1, NoCall DEF SameCall, UseInv
  <2> QED BY <2>1, <2>2
<1>4. Elsewhere(Main) /\ UseAfter(Main)
  <2>1. \A x \in Threads \ {Main} : stage'[x] = stage[x]
    BY <1>0, <1>1 DEF PoolTypes
  <2> QED BY <1>0, <1>1, <1>3, <2>1 DEF Elsewhere, UseAfter
<1>5. Rejected' = Rejected /\ IsFiniteSet(Rejected') /\ Cardinality(Rejected) \in Nat
  BY <1>1, SameRejected
<1>6. UseInv' /\ RunInv' /\ BusyInv'
  <2>1. /\ One(Main, Live) = 0 /\ One(Main, Live') = 0 /\ One(Main, Creating) = 0 /\ One(Main, Creating') = 0
        /\ One(Main, Uncounted) = 0 /\ One(Main, Uncounted') = 0
        /\ One(Main, Holding) = 0 /\ One(Main, Holding') = 0
    BY <1>0 DEF One, Live, Creating, Uncounted, Holding
  <2>2. running' = running /\ busy' = busy /\ running \in Int /\ busy \in Int
    BY <1>0, <1>1 DEF PoolTypes
  <2>3. running' = running + One(Main, Live') - One(Main, Live) + One(Main, Creating') - One(Main, Creating)
    BY <2>1, <2>2, SMTT(60)
  <2>4. busy' + One(Main, Uncounted') - One(Main, Uncounted) =
           busy + One(Main, Holding') - One(Main, Holding) + Cardinality(Rejected') - Cardinality(Rejected)
    BY <1>5, <2>1, <2>2, SMTT(60)
  <2> QED BY <1>0, <1>2, <1>4, <1>5, <2>3, <2>4, OneThreadCounts
<1>7. JobInv'
  BY <1>0, <1>1, <1>4, CarryingThreads, OneThreadJobs
<1> QED BY <1>2, <1>6, <1>7 DEF PoolInv

-----------------------------------------------------------------------------
(* The theorems about the pool *)

QueueInv == IInv /\ RingInv /\ CallInv

\* Nobody enters a call while another thread gets on with its own.
LEMMA NobodyEnters ==
  ASSUME IInv, NEW t \in Threads, Proceed(t) \/ Timeout(t) \/ Spurious(t)
  PROVE  \A x \in Threads : pc[x] = "idle" => pc'[x] = "idle"
<1>0. pc \in [Threads -> Places] /\ Placement
  BY DEF IInv, TypeOK
<1>1. ASSUME NEW p, pc[t] # "idle", pc' = [pc EXCEPT ![t] = p]
      PROVE  \A x \in Threads : pc[x] = "idle" => pc'[x] = "idle"
  BY <1>0, <1>1
<1>2. ASSUME NEW W, NEW how, W \subseteq not_empty \cup not_full, Move(t, "idle", W, how)
      PROVE  \A x \in Threads : pc[x] = "idle" => pc'[x] = "idle"
  BY <1>0, <1>2 DEF Move, Placement
<1>3. CASE Check(t) \/ Interrupted(t) \/ SetTerminated(t) \/ TimedUp(t)
  BY <1>1, <1>3 DEF Check, Interrupted, SetTerminated, TimedUp, ReturnFailure, Goto
<1>4. CASE Broadcast(t)
  BY <1>2, <1>4 DEF Broadcast
<1>5. CASE Timeout(t) \/ Spurious(t)
  <2>1. pc[t] # "idle"
    BY <1>0, <1>5 DEF Timeout, Spurious, Placement
  <2> QED BY <1>1, <1>5, <2>1 DEF Timeout, Spurious, Goto
<1>6. CASE Enter(t) \/ Resume(t)
  <2>1. pc[t] # "idle"
    BY <1>6 DEF Enter, Resume
  <2>2. CASE Put(t) \/ Take(t)
    BY <1>2, <2>2, SMTT(60) DEF Put, Take, Signalled
  <2>3. CASE WaitNotFull(t) \/ WaitNotEmpty(t) \/ GiveUp(t) \/ ReturnFailure(t, "EAGAIN")
    BY <1>1, <2>1, <2>3 DEF WaitNotFull, WaitNotEmpty, GiveUp, ReturnFailure, Goto
  <2> QED BY <1>6, <2>2, <2>3, CriticalSteps
<1> QED BY <1>3, <1>4, <1>5, <1>6 DEF Proceed

\* The contents are a sequence of nelts elements, before a step and after it.
LEMMA ContentsLen ==
  TypeOK => Contents \in Seq(Values \cup {NULL}) /\ Len(Contents) = nelts
  BY ContentsSeq

\* See ContentsLen.
LEMMA ContentsLenAfter ==
  TypeOK' => (Contents \in Seq(Values \cup {NULL}) /\ Len(Contents) = nelts)'
  BY ContentsLen, PTL

\* A step of the queue is one of those that the pool reckons with.
LEMMA QueueEffect ==
  ASSUME IInv, IInv', RingInv, CallInv, UseInv, NEW t \in Threads, QueueStep(t)
  PROVE  QueueServes
<1>0. TypeOK /\ TypeOK' /\ op \in [Threads -> Ops] /\ item \in [Threads -> Values \cup {NULL}]
      /\ pc \in [Threads -> Places] /\ rv \in [Threads -> Statuses]
  BY DEF IInv, TypeOK
<1>1. \A x \in Threads : pc[x] = "idle" => pc'[x] = "idle"
  BY NobodyEnters DEF QueueStep
<1>2. [Fifo!FifoNext]_Fifo!fifoVars
  BY StepRefines DEF QueueStep, QueueNext
<1>3. /\ Contents \in Seq(Values \cup {NULL}) /\ Len(Contents) = nelts
      /\ Contents' \in Seq(Values \cup {NULL}) /\ Len(Contents') = nelts'
      /\ nelts \in Nat /\ nelts' \in Nat
  <2>1. /\ Contents \in Seq(Values \cup {NULL}) /\ Len(Contents) = nelts
        /\ Contents' \in Seq(Values \cup {NULL}) /\ Len(Contents') = nelts'
    BY <1>0, ContentsLen, ContentsLenAfter
  <2> QED BY <2>1, SMTT(60)
<1>4. \A x \in Threads : op[x] \in PushOps /\ pc[x] # "idle" => x \in Launchers
  BY PoolAssumption DEF UseInv, PushOps
<1>5. \A x \in Threads : op[x] \in PopOps /\ pc[x] # "idle" => x \in Workers
  BY PoolAssumption DEF UseInv, PopOps
<1>6. \A x \in Threads : op[x] \in CtlOps /\ pc[x] # "idle" => x = Main
  BY PoolAssumption DEF UseInv, CtlOps
<1>7. ASSUME NEW u \in Threads, NEW s, Fifo!End(u, s), \A x \in Threads \ {u} : item'[x] = item[x]
      PROVE  Returns(u, s)
  <2>1. /\ u \in Active /\ Active' = Active \ {u}
        /\ rv' = [rv EXCEPT ![u] = s] /\ op' = op
    BY <1>7 DEF Fifo!End, Active
  <2>2. pc[u] # "idle" /\ pc'[u] = "idle" /\ \A x \in Threads \ {u} : pc'[x] = "idle" <=> pc[x] = "idle"
    BY <2>1 DEF Active
  <2> QED BY <1>0, <1>7, <2>1, <2>2 DEF Returns, SameCall
<1>8. ASSUME Contents' = Contents PROVE SameContents
  BY <1>3, <1>8 DEF SameContents
<1>9. CASE UNCHANGED Fifo!fifoVars
  <2>1. Contents' = Contents /\ Active' = Active /\ op' = op /\ item' = item /\ rv' = rv
    BY <1>9 DEF Fifo!fifoVars, Active
  <2>2. \A x \in Threads : pc'[x] = "idle" <=> pc[x] = "idle"
    BY <2>1 DEF Active
  <2>3. SameContents
    BY <1>8, <2>1
  <2>4. \A x \in Threads : SameCall(x)
    BY <2>1, <2>2 DEF SameCall
  <2> QED
    BY <2>3, <2>4 DEF QueueServes, Quiet
<1>10. ASSUME NEW u \in Threads, Fifo!Insert(u) PROVE Pushed(u) /\ u \in Launchers
  <2>1. /\ op[u] \in PushOps /\ Contents' = Append(Contents, item[u])
        /\ item' = [item EXCEPT ![u] = NULL] /\ Fifo!End(u, "SUCCESS")
    BY <1>10 DEF Fifo!Insert, Fifo!PushOps, PushOps
  <2>2. Returns(u, "SUCCESS")
    BY <1>0, <1>7, <2>1
  <2>3. /\ nelts' = nelts + 1 /\ Contents'[nelts + 1] = item[u]
        /\ \A i \in 1 .. nelts : Contents'[i] = Contents[i]
    <3>1. item[u] \in Values \cup {NULL}
      BY <1>0
    <3>2. /\ Len(Append(Contents, item[u])) = Len(Contents) + 1
          /\ Append(Contents, item[u])[Len(Contents) + 1] = item[u]
          /\ \A i \in 1 .. Len(Contents) : Append(Contents, item[u])[i] = Contents[i]
      <4>1. Contents \in Seq(Values \cup {NULL})
        BY <1>3
      <4> QED BY <3>1, <4>1, AppendKeeps
    <3>3. /\ Len(Contents') = nelts + 1 /\ Contents'[nelts + 1] = item[u]
          /\ \A i \in 1 .. nelts : Contents'[i] = Contents[i]
      <4>1. Contents' = Append(Contents, item[u]) /\ Len(Contents) = nelts
        BY <1>3, <2>1
      <4> QED BY <3>2, <4>1
    <3>4. Len(Contents') = nelts'
      BY <1>3
    <3> QED BY <3>3, <3>4
  <2> QED BY <1>4, <2>1, <2>2, <2>3 DEF Pushed, Returns
<1>11. ASSUME NEW u \in Threads, Fifo!Remove(u) PROVE Popped(u) /\ u \in Workers
  <2>1. /\ op[u] \in PopOps /\ Contents # << >> /\ Contents' = Tail(Contents)
        /\ item' = [item EXCEPT ![u] = Head(Contents)] /\ Fifo!End(u, "SUCCESS")
    BY <1>11 DEF Fifo!Remove, Fifo!PopOps, PopOps
  <2>2. Returns(u, "SUCCESS")
    BY <1>0, <1>7, <2>1
  <2>3. /\ nelts # 0 /\ nelts' = nelts - 1 /\ item'[u] = Contents[1]
        /\ \A i \in 1 .. nelts - 1 : Contents'[i] = Contents[i + 1]
    <3>1. /\ Len(Contents) # 0 /\ Len(Tail(Contents)) = Len(Contents) - 1
          /\ Head(Contents) = Contents[1]
          /\ \A i \in 1 .. Len(Contents) - 1 : Tail(Contents)[i] = Contents[i + 1]
      BY <1>3, <2>1, TailShifts
    <3>2. item'[u] = Contents[1]
      BY <1>0, <2>1, <3>1
    <3>3. Contents' = Tail(Contents) /\ Len(Contents) = nelts /\ Len(Contents') = nelts'
      BY <1>3, <2>1
    <3> QED BY <3>1, <3>2, <3>3
  <2> QED BY <1>5, <2>1, <2>2, <2>3 DEF Popped, Returns
<1>12. ASSUME NEW u \in Threads, NEW s \in {"EOF", "EAGAIN", "EINTR", "TIMEUP"}, Fifo!Fail(u, s)
       PROVE  Unserved(u)
  <2>1. Contents' = Contents /\ item' = [item EXCEPT ![u] = NULL] /\ Fifo!End(u, s)
    BY <1>12 DEF Fifo!Fail
  <2>2. Returns(u, s)
    BY <1>0, <1>7, <2>1
  <2> QED BY <1>8, <2>1, <2>2 DEF Unserved, Statuses
<1>13. ASSUME NEW u \in Threads, Fifo!Control(u) PROVE Unserved(u)
  <2>1. Contents' = Contents /\ item' = item /\ Fifo!End(u, "SUCCESS") /\ op[u] \in CtlOps
    BY <1>13 DEF Fifo!Control, Fifo!CtlOps, CtlOps
  <2>2. Returns(u, "SUCCESS")
    BY <1>7, <2>1
  <2> QED BY <1>6, <1>8, <2>1, <2>2 DEF Unserved, Returns, Statuses
<1>14. ASSUME NEW u \in Threads, Fifo!Close(u) PROVE Quiet
  <2>1. Contents' = Contents /\ Active' = Active /\ op' = op /\ item' = item /\ rv' = rv
    BY <1>14 DEF Fifo!Close, Active
  <2>2. \A x \in Threads : pc'[x] = "idle" <=> pc[x] = "idle"
    BY <2>1 DEF Active
  <2>3. SameContents
    BY <1>8, <2>1
  <2>4. \A x \in Threads : SameCall(x)
    BY <2>1, <2>2 DEF SameCall
  <2> QED
    BY <2>3, <2>4 DEF QueueServes, Quiet
<1>15. ASSUME NEW u \in Threads, NEW o, NEW v, Fifo!Begin(u, o, v) PROVE FALSE
  <2>1. u \notin Active /\ Active' = Active \cup {u}
    BY <1>15 DEF Fifo!Begin, Active
  <2> QED BY <1>1, <2>1 DEF Active
<1> QED BY <1>2, <1>9, <1>10, <1>11, <1>12, <1>13, <1>14, <1>15 DEF Fifo!FifoNext, QueueServes

\* switch_core_session_init leaves no worker, no job and both counts at zero.
LEMMA PoolInit == Init => QueueInv /\ PoolInv
<1> SUFFICES ASSUME Init PROVE QueueInv /\ PoolInv
  OBVIOUS
<1>1. QueueInv
  BY InitIInv, RefinementInvInit DEF Init, QueueInv
<1>2. PoolTypes
  BY PoolAssumption, SMTT(60) DEF Init, PoolTypes, JobStates, WorkerStages, LauncherStages, MainStages
<1>3. /\ \A t \in Threads : pc[t] = "idle" /\ rv[t] = "none"
      /\ nelts = 0 /\ running = 0 /\ busy = 0
  BY DEF Init, QueueInit
<1>4. /\ \A w \in Workers : stage[w] = "none"
      /\ \A l \in Launchers : stage[l] = "idle"
      /\ \A j \in Jobs : jstate[j] = "new"
  BY PoolAssumption DEF Init
<1>5. UseInv
  BY <1>3, <1>4, PoolAssumption DEF UseInv
<1>6. Live = {} /\ Creating = {} /\ Uncounted = {} /\ Holding = {} /\ Rejected = {} /\ Carrying = {}
  BY <1>4 DEF Live, Creating, Uncounted, Holding, Rejected, Carrying
<1>7. RunInv /\ BusyInv
  <2>1. IsFiniteSet({}) /\ Cardinality({}) = 0
    BY FS_EmptySet
  <2> QED BY <1>3, <1>6, <2>1, SMTT(60) DEF RunInv, BusyInv
<1>8. JobInv
  BY <1>3, <1>6, SMTT(60) DEF JobInv
<1> QED BY <1>1, <1>2, <1>5, <1>7, <1>8 DEF PoolInv

\* Every step of the pool, or of its queue, keeps both invariants.
LEMMA PoolStep == QueueInv /\ PoolInv /\ [Next]_vars => QueueInv' /\ PoolInv'
<1> SUFFICES ASSUME QueueInv, PoolInv, [Next]_vars PROVE QueueInv' /\ PoolInv'
  OBVIOUS
<1>0. IInv /\ RingInv /\ CallInv /\ PoolTypes /\ UseInv /\ TypeOK
  BY DEF QueueInv, PoolInv, IInv
<1>1. [QueueNext]_queueVars
  BY <1>0, PoolStepsQueue
<1>2. IInv'
  BY <1>0, <1>1, BookkeepingStep, TypeStep, TermStep DEF IInv
<1>3. RingInv' /\ CallInv'
  BY <1>0, <1>1, <1>2, StepRefines, CallInvStep
<1>4. ASSUME NEW t \in Threads, QueueStep(t) PROVE PoolInv'
  <2>1. TypeOK /\ UNCHANGED poolVars /\ QueueServes
    BY <1>0, <1>2, <1>4, QueueEffect DEF IInv, QueueStep
  <2> QED BY <2>1, QueueStepUse, QueueStepBusy, QueueStepJobs DEF PoolInv
<1>5. ASSUME NEW l \in Launchers, LauncherStep(l) PROVE PoolInv'
  BY <1>0, <1>5, LauncherAsideStep, LaunchStep, CheckQueueStep, CreateStep, CreateFailsStep
  DEF LauncherStep
<1>6. ASSUME NEW l \in Launchers, NEW j \in Jobs, ThreadLaunch(l, j) \/ LaunchThread(l, j)
      PROVE  PoolInv'
  BY <1>0, <1>6, LauncherAsideStep, LaunchStep
<1>7. ASSUME NEW w \in Workers, WorkerStep(w) \/ JobEnds(w) PROVE PoolInv'
  BY <1>0, <1>7, WorkerAsideStep, WorkStep DEF WorkerStep
<1>8. ASSUME Uninit \/ MainStep PROVE PoolInv'
  BY <1>0, <1>8, UninitStep
<1>9. ASSUME UNCHANGED vars PROVE PoolInv'
  <2>1. UNCHANGED <<stage, job, jstate, running, busy, pc, op, item, rv, nelts, ringVars>>
    BY <1>9 DEF vars, poolVars, queueVars, ringVars, callVars
  <2>2. PoolTypes' /\ UseInv'
    BY <1>0, <2>1 DEF PoolTypes, UseInv
  <2>3. /\ Live' = Live /\ Creating' = Creating /\ Uncounted' = Uncounted
        /\ Holding' = Holding /\ Rejected' = Rejected /\ Contents' = Contents
    BY <2>1 DEF Live, Creating, Uncounted, Holding, Rejected, Contents, ringVars
  <2>4. Carrying' = Carrying /\ \A t : Load(t)' = Load(t) /\ Fate(t)' = Fate(t)
    BY <2>1, <2>3 DEF Carrying, Load, Fate
  <2>5. RunInv' /\ BusyInv'
    BY <2>1, <2>3 DEF PoolInv, RunInv, BusyInv
  <2>6. JobInv'
    BY <2>1, <2>3, <2>4 DEF PoolInv, JobInv
  <2> QED BY <2>2, <2>5, <2>6 DEF PoolInv
<1> QED BY <1>2, <1>3, <1>4, <1>5, <1>6, <1>7, <1>8, <1>9 DEF Next, QueueInv

\* The inductive invariant of the pool: who uses the queue and how, the two
\* counts, and one place for every job.
THEOREM PoolInductive == Spec => [](QueueInv /\ PoolInv)
  BY PoolInit, PoolStep, PTL DEF Spec

\* The pool uses switch_queue_t as its specification allows, so every theorem
\* about the queue holds of session_manager.thread_queue: no wake-up of a worker
\* is lost, and the jobs come out in the order in which they went in.
THEOREM PoolKeepsQueueSpec == Spec => QueueSpec
<1>1. Init => QueueInit
  BY DEF Init
<1>2. QueueInv /\ PoolInv /\ [Next]_vars => [QueueNext]_queueVars
  BY PoolStepsQueue DEF PoolInv
<1> QED BY <1>1, <1>2, PoolInductive, PTL DEF Spec, QueueSpec

\* session_manager.running and busy are exact, whatever the interleaving of
\* launchers, workers and switch_core_session_uninit, for any number of threads
\* and jobs and any capacity of the queue.
THEOREM CountsStayExact == Spec => []CountsAreExact
<1>1. PoolInv => CountsAreExact
  BY DEF PoolInv, RunInv, BusyInv, CountsAreExact, Creating
<1> QED BY <1>1, PoolInductive, PTL

\* A set whose members are all the same counts at most one.
LEMMA AtMostOne ==
  ASSUME NEW S, \A x, y \in S : x = y
  PROVE  Cardinality(S) = IF S = {} THEN 0 ELSE 1
<1>1. CASE S = {}
  BY <1>1, FS_EmptySet
<1>2. CASE S # {}
  <2>1. PICK x \in S : S = {x}
    BY <1>2
  <2> QED BY <1>2, <2>1, FS_Singleton
<1> QED BY <1>1, <1>2

\* However many threads launch a session, one thread runs it: it is never in the
\* queue twice, held by two workers, or both.
THEOREM OneThreadEach == Spec => []OneThreadPerSession
<1>1. ASSUME PoolInv, NEW j \in Jobs
      PROVE  Cardinality({w \in Holding : (IF stage[w] = "pop" THEN item[w] ELSE job[w]) = j})
               + Cardinality({i \in 1 .. nelts : Contents[i] = j}) <= 1
  <2> DEFINE H == {w \in Holding : (IF stage[w] = "pop" THEN item[w] ELSE job[w]) = j}
             Q == {i \in 1 .. nelts : Contents[i] = j}
  <2>1. JobInv
    BY <1>1 DEF PoolInv
  <2>2. \A w \in H : w \in Carrying /\ Load(w) = j
    BY DEF Holding, Carrying, Load
  <2>3. \A x, y \in H : x = y
    <3> HIDE DEF H
    <3> QED BY <2>1, <2>2 DEF JobInv
  <2>4. \A x, y \in Q : x = y
    BY <2>1 DEF JobInv
  <2>5. H = {} \/ Q = {}
    <3>1. \A w \in H, i \in Q : FALSE
      <4>1. \A i \in Q : i \in 1 .. nelts /\ Contents[i] = j
        OBVIOUS
      <4> HIDE DEF H, Q
      <4> QED BY <2>1, <2>2, <4>1 DEF JobInv
    <3> HIDE DEF H, Q
    <3> QED BY <3>1
  <2> HIDE DEF H, Q
  <2>6. Cardinality(H) + Cardinality(Q) <= 1
    BY <2>3, <2>4, <2>5, AtMostOne, SMTT(60)
  <2> QED BY <2>6 DEF H, Q
<1>2. PoolInv => OneThreadPerSession
  BY <1>1 DEF OneThreadPerSession
<1> QED BY <1>2, PoolInductive, PTL
=============================================================================

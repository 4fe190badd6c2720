--------------------------- MODULE JobQueue_proof ---------------------------
(***************************************************************************)
(* Proofs about JobQueue, for any non-empty finite set of workers and any  *)
(* set of jobs.                                                            *)
(***************************************************************************)
EXTENDS JobQueue, SequenceTheorems, FiniteSetTheorems, TLAPS

(* Where the owner is tells what the workers can be doing.                  *)
OwnerInv ==
    /\ finished <=> owner \in {"notifying", "joining", "stopped"}
    /\ owner = "constructing" => workQueue = <<>> /\ workers # Worker
    /\ owner = "open" => workers = Worker
    /\ owner # "stopped" => workers = {w \in Worker : at[w] # "unborn"}
    /\ \A w \in Worker : at[w] \in {"leaving", "exited"} => finished

IInv ==
    /\ TypeOK
    /\ OwnerInv
    /\ FirstInFirstOut
    /\ SomeoneAwake
    /\ NoSleeperAtJoin
    /\ StoppedIsQuiet

(* Moving the head of one sequence to the end of another keeps their        *)
(* concatenation: getNextJob() on the history and the queue.                *)
LEMMA MoveHead ==
    ASSUME NEW S, NEW s \in Seq(S), NEW t \in Seq(S), t # <<>>
    PROVE  Append(s, Head(t)) \o Tail(t) = s \o t
<1>1. Head(t) \in S /\ Tail(t) \in Seq(S) /\ Len(Tail(t)) = Len(t) - 1
  BY HeadTailProperties
<1>2. Append(s, Head(t)) \in Seq(S) /\ Len(Append(s, Head(t))) = Len(s) + 1
  BY <1>1, AppendProperties
<1>3. /\ Append(s, Head(t)) \o Tail(t) \in Seq(S)
      /\ s \o t \in Seq(S)
      /\ Len(Append(s, Head(t)) \o Tail(t)) = Len(s \o t)
  BY <1>1, <1>2, ConcatProperties
<1>4. ASSUME NEW i \in 1 .. Len(s \o t)
      PROVE  (Append(s, Head(t)) \o Tail(t))[i] = (s \o t)[i]
  BY <1>1, <1>2
<1> QED
  BY <1>3, <1>4, SeqEqual

(* Appending to the second of two concatenated sequences: addJob().         *)
LEMMA AppendConcat ==
    ASSUME NEW S, NEW s \in Seq(S), NEW t \in Seq(S), NEW e \in S
    PROVE  s \o Append(t, e) = Append(s \o t, e)
OBVIOUS

(* The inductive invariant holds before the constructor has run.            *)
LEMMA InitInv == Init => IInv
<1> SUFFICES ASSUME Init PROVE IInv
  OBVIOUS
<1>1. workers # Worker
  BY WorkerAssumption DEF Init
<1>2. TypeOK
  <2>1. finished \in BOOLEAN
    BY Zenon DEF Init
  <2> QED
    BY <2>1 DEF Init, TypeOK, At, Owner
<1>3. OwnerInv
  BY <1>1 DEF Init, OwnerInv
<1>4. FirstInFirstOut
  BY DEF Init, FirstInFirstOut
<1>5. SomeoneAwake /\ NoSleeperAtJoin /\ StoppedIsQuiet
  BY DEF Init, SomeoneAwake, NoSleeperAtJoin, StoppedIsQuiet
<1> QED
  BY <1>2, <1>3, <1>4, <1>5 DEF IInv

(* Every step of a worker, of a caller of addJob() and of the owner         *)
(* preserves the inductive invariant.                                       *)
LEMMA StepInv == IInv /\ [Next]_vars => IInv'
<1> SUFFICES ASSUME IInv, [Next]_vars PROVE IInv'
  OBVIOUS
<1> USE DEF IInv, At, Owner, Waiting
<1>1. TypeOK'
  <2>1. finished' \in BOOLEAN
    BY Zenon DEF TypeOK, Next, vars, Spawn, markFinished, NotifyAll, Join, addJob,
         processWork, StayInLoop, LeaveLoop, WaitForJob, GetNoJob, getNextJob,
         JobEnds, SpuriousWakeUp
  <2>2. ASSUME NEW w \in Worker, Spawn(w) \/ processWork(w) \/ SpuriousWakeUp(w)
        PROVE  TypeOK'
    <3>1. CASE getNextJob(w)
      <4>1. Head(workQueue) \in Job /\ Tail(workQueue) \in Seq(Job)
        BY <3>1, HeadTailProperties DEF TypeOK, getNextJob
      <4> QED
        BY <2>1, <3>1, <4>1 DEF TypeOK, getNextJob
    <3>2. CASE Spawn(w)
      BY <2>1, <3>2 DEF TypeOK, Spawn
    <3>3. CASE StayInLoop(w) \/ LeaveLoop(w) \/ WaitForJob(w) \/ SpuriousWakeUp(w)
      BY <2>1, <3>3
         DEF TypeOK, StayInLoop, LeaveLoop, WaitForJob, SpuriousWakeUp
    <3>4. CASE GetNoJob(w) \/ JobEnds(w)
      BY <2>1, <3>4 DEF TypeOK, GetNoJob, JobEnds
    <3> QED
      BY <2>2, <3>1, <3>2, <3>3, <3>4 DEF processWork
  <2>3. ASSUME NEW job \in Job, addJob(job) PROVE TypeOK'
    <3>1. workQueue' \in Seq(Job) /\ added' \in Seq(Job)
      BY <2>3 DEF TypeOK, addJob
    <3>2. at' \in [Worker -> At]
      BY <2>3 DEF TypeOK, addJob, NotifyOne, At
    <3> QED
      BY <2>1, <2>3, <3>1, <3>2 DEF TypeOK, addJob
  <2>4. CASE markFinished \/ NotifyAll \/ Join \/ UNCHANGED vars
    BY <2>1, <2>4 DEF TypeOK, markFinished, NotifyAll, Join, vars
  <2> QED
    BY <2>2, <2>3, <2>4 DEF Next
<1>2. OwnerInv'
  <2>1. CASE \E w \in Worker : Spawn(w)
    BY <2>1 DEF TypeOK, OwnerInv, Spawn
  <2>2. CASE \E w \in Worker : processWork(w) \/ SpuriousWakeUp(w)
    BY <2>2 DEF TypeOK, OwnerInv, processWork, StayInLoop, LeaveLoop, WaitForJob,
         GetNoJob, getNextJob, JobEnds, SpuriousWakeUp
  <2>3. CASE \E job \in Job : addJob(job)
    <3>1. at' = at \/ \E w \in Waiting : at' = [at EXCEPT ![w] = "next"]
      BY <2>3 DEF addJob, NotifyOne
    <3>2. \A v \in Worker : (at'[v] = at[v])
                             \/ (at[v] = "waiting" /\ at'[v] = "next")
      BY <3>1 DEF TypeOK
    <3>3. /\ UNCHANGED <<finished, owner, workers>>
          /\ \A w \in Worker : at[w] # "unborn"
      BY <2>3 DEF addJob, Constructed
    <3>4. owner # "constructing"
      BY <3>3 DEF OwnerInv, TypeOK
    <3> QED
      BY <3>2, <3>3, <3>4 DEF OwnerInv
  <2>4. CASE markFinished \/ NotifyAll \/ Join \/ UNCHANGED vars
    BY <2>4 DEF TypeOK, OwnerInv, markFinished, NotifyAll, Join, vars
  <2> QED
    BY <2>1, <2>2, <2>3, <2>4 DEF Next
<1>3. FirstInFirstOut'
  <2>1. ASSUME NEW w \in Worker, getNextJob(w) PROVE FirstInFirstOut'
    BY <2>1, MoveHead DEF TypeOK, FirstInFirstOut, getNextJob
  <2>2. ASSUME NEW job \in Job, addJob(job) PROVE FirstInFirstOut'
    BY <2>2, AppendConcat DEF TypeOK, FirstInFirstOut, addJob
  <2> QED
    BY <2>1, <2>2 DEF FirstInFirstOut, Next, vars, Spawn, markFinished, NotifyAll,
         Join, processWork, StayInLoop, LeaveLoop, WaitForJob, GetNoJob,
         JobEnds, SpuriousWakeUp
<1>4. SomeoneAwake'
  <2>1. CASE \E job \in Job : addJob(job)
    BY <2>1, WorkerAssumption
       DEF TypeOK, OwnerInv, SomeoneAwake, addJob, NotifyOne, Constructed
  <2>2. CASE \E w \in Worker : Spawn(w) \/ processWork(w) \/ SpuriousWakeUp(w)
    BY <2>2 DEF TypeOK, OwnerInv, SomeoneAwake, Spawn, processWork, StayInLoop,
         LeaveLoop, WaitForJob, GetNoJob, getNextJob, JobEnds, SpuriousWakeUp
  <2>3. CASE markFinished \/ NotifyAll \/ Join \/ UNCHANGED vars
    BY <2>3 DEF OwnerInv, SomeoneAwake, markFinished, NotifyAll, Join, vars
  <2> QED
    BY <2>1, <2>2, <2>3 DEF Next
<1>5. NoSleeperAtJoin'
  BY DEF TypeOK, OwnerInv, NoSleeperAtJoin, Next, vars, Spawn, markFinished, NotifyAll,
         Join, addJob, NotifyOne, processWork, StayInLoop, LeaveLoop, WaitForJob,
         GetNoJob, getNextJob, JobEnds, SpuriousWakeUp
<1>6. StoppedIsQuiet'
  BY DEF TypeOK, OwnerInv, StoppedIsQuiet, Next, vars, Spawn, markFinished, NotifyAll,
         Join, addJob, NotifyOne, processWork, StayInLoop, LeaveLoop, WaitForJob,
         GetNoJob, getNextJob, JobEnds, SpuriousWakeUp
<1> QED
  BY <1>1, <1>2, <1>3, <1>4, <1>5, <1>6

(* So it holds in every state; the theorems below are parts of it.          *)
LEMMA Invariance == Spec => []IInv
BY InitInv, StepInv, PTL DEF Spec

(* The variables of JobQueue always have the values they are declared for.  *)
THEOREM TypeCorrect == Spec => []TypeOK
BY Invariance, PTL DEF IInv

(* getNextJob() hands out the jobs in the order of the calls of addJob(),   *)
(* each once, for any number of workers and jobs.                           *)
THEOREM JobsAreFirstInFirstOut == Spec => []FirstInFirstOut
BY Invariance, PTL DEF IInv

(* No wake-up is lost: an open queue that holds a job has a worker awake.   *)
THEOREM NoLostWakeUp == Spec => []SomeoneAwake
BY Invariance, PTL DEF IInv

(* After notify_all() of stop() no worker sleeps again, so join() returns.  *)
THEOREM NobodySleepsThroughStop == Spec => []NoSleeperAtJoin
BY Invariance, PTL DEF IInv

(* When stop() has returned no worker is in processWork() any more.         *)
THEOREM StopJoinsEverybody == Spec => []StoppedIsQuiet
BY Invariance, PTL DEF IInv

(* After markFinished() no job is handed out.                               *)
THEOREM FinishedHandsOutNothing == Spec => NoJobAfterFinished
<1>1. [Next]_vars => [finished => taken' = taken]_vars
  BY DEF Next, vars, Spawn, markFinished, NotifyAll, Join, addJob, processWork,
         StayInLoop, LeaveLoop, WaitForJob, GetNoJob, getNextJob, JobEnds,
         SpuriousWakeUp
<1> QED
  BY <1>1, PTL DEF Spec, NoJobAfterFinished
-----------------------------------------------------------------------------
(* The refinement.  It needs that no job is in two places: a job is added   *)
(* once, held by one worker, and held only after it was taken.              *)

Held(w) == work[w] # NoJob

JobInv ==
    /\ \A i, k \in DOMAIN added : added[i] = added[k] => i = k
    /\ \A w \in Worker : Held(w) <=> at[w] = "running"
    /\ \A w \in Worker : Held(w) => work[w] \in SeqElements(taken)
    /\ \A v, w \in Worker : Held(w) /\ work[v] = work[w] => v = w

(* The elements of a sequence that grows at its end.                        *)
LEMMA AppendedElements ==
    ASSUME NEW S, NEW s \in Seq(S), NEW e \in S
    PROVE  SeqElements(Append(s, e)) = SeqElements(s) \union {e}
<1>1. /\ DOMAIN s = 1 .. Len(s) /\ Len(s) \in Nat
      /\ DOMAIN Append(s, e) = 1 .. Len(s) + 1
      /\ \A i \in 1 .. Len(s) : Append(s, e)[i] = s[i]
      /\ Append(s, e)[Len(s) + 1] = e
  OBVIOUS
<1> QED
  BY <1>1 DEF SeqElements

(* A sequence without repetition, cut in two: its halves have no element in *)
(* common, and are made of its elements.                                    *)
LEMMA HalvesApart ==
    ASSUME NEW S, NEW s \in Seq(S), NEW t \in Seq(S),
           \A i, k \in DOMAIN (s \o t) : (s \o t)[i] = (s \o t)[k] => i = k
    PROVE  /\ SeqElements(s) \intersect SeqElements(t) = {}
           /\ SeqElements(s) \subseteq SeqElements(s \o t)
           /\ SeqElements(t) \subseteq SeqElements(s \o t)
<1>1. /\ s \o t \in Seq(S) /\ Len(s \o t) = Len(s) + Len(t)
      /\ Len(s) \in Nat /\ Len(t) \in Nat
      /\ DOMAIN s = 1 .. Len(s) /\ DOMAIN t = 1 .. Len(t)
      /\ DOMAIN (s \o t) = 1 .. Len(s) + Len(t)
  OBVIOUS
<1>2. ASSUME NEW i \in 1 .. Len(s)
      PROVE  i \in DOMAIN (s \o t) /\ (s \o t)[i] = s[i]
  BY <1>1
<1>3. ASSUME NEW k \in 1 .. Len(t)
      PROVE  /\ Len(s) + k \in DOMAIN (s \o t) /\ (s \o t)[Len(s) + k] = t[k]
             /\ Len(s) + k \notin 1 .. Len(s)
  BY <1>1
<1>4. ASSUME NEW i \in 1 .. Len(s), NEW k \in 1 .. Len(t) PROVE s[i] # t[k]
  BY <1>2, <1>3
<1>5. SeqElements(s) \intersect SeqElements(t) = {}
  BY <1>1, <1>4 DEF SeqElements
<1>6. SeqElements(s) \subseteq SeqElements(s \o t)
  BY <1>1, <1>2 DEF SeqElements
<1>7. SeqElements(t) \subseteq SeqElements(s \o t)
  <2>1. \A k \in 1 .. Len(t) : \E i \in DOMAIN (s \o t) : t[k] = (s \o t)[i]
    BY <1>3
  <2> QED
    BY <1>1, <2>1 DEF SeqElements
<1> QED
  BY <1>5, <1>6, <1>7

(* The jobs in progress are fewer than the workers when one of these has no *)
(* job: getNextJob() never exceeds the capacity of the abstract queue.      *)
LEMMA PoolBound ==
    ASSUME NEW w \in Worker, at[w] # "running"
    PROVE  Cardinality(InProgress) < Cardinality(Worker)
<1> DEFINE Busy == {u \in Worker : at[u] = "running"}
           f == [v \in Busy |-> work[v]]
<1>1. f \in Surjection(Busy, InProgress)
  BY DEF Surjection, InProgress
<1>2. IsFiniteSet(Worker \ {w}) /\ Cardinality(Worker) \in Nat
      /\ Cardinality(Worker \ {w}) = Cardinality(Worker) - 1
  BY WorkerAssumption, FS_RemoveElement, FS_CardinalityType
<1>3. Busy \in SUBSET (Worker \ {w})
  OBVIOUS
<1>4. IsFiniteSet(Busy) /\ Cardinality(Busy) <= Cardinality(Worker \ {w})
  BY <1>2, <1>3, FS_Subset
<1>5. IsFiniteSet(InProgress) /\ Cardinality(InProgress) <= Cardinality(Busy)
  BY <1>1, <1>4, FS_Surjection
<1>6. Cardinality(InProgress) \in Nat /\ Cardinality(Busy) \in Nat
  BY <1>4, <1>5, FS_CardinalityType
<1> QED
  BY <1>2, <1>4, <1>5, <1>6

(* Nobody has a job before the first is added.                              *)
LEMMA InitJobs == Init => JobInv
BY DEF Init, JobInv, Held, SeqElements

(* No step puts a job in two places.                                        *)
LEMMA StepJobs == IInv /\ JobInv /\ [Next]_vars => JobInv'
<1> SUFFICES ASSUME IInv, JobInv, [Next]_vars PROVE JobInv'
  OBVIOUS
<1>1. ASSUME NEW job \in Job, addJob(job) PROVE JobInv'
  <2>1. /\ UNCHANGED <<work, taken>> /\ added' = Append(added, job)
        /\ job \notin SeqElements(added)
        /\ \A w \in Worker : at'[w] = "running" <=> at[w] = "running"
    BY <1>1 DEF addJob, NotifyOne, Waiting, IInv, TypeOK
  <2>2. \A i, k \in DOMAIN added' : added'[i] = added'[k] => i = k
    <3>1. /\ DOMAIN added = 1 .. Len(added) /\ Len(added) \in Nat
          /\ DOMAIN added' = 1 .. Len(added) + 1
          /\ \A i \in 1 .. Len(added) : added'[i] = added[i]
          /\ added'[Len(added) + 1] = job
          /\ \A i \in 1 .. Len(added) + 1 : i \in 1 .. Len(added) \/ i = Len(added) + 1
      BY <2>1 DEF IInv, TypeOK
    <3> QED
      BY <2>1, <3>1 DEF JobInv, SeqElements
  <2> QED
    BY <2>1, <2>2 DEF JobInv, Held
<1>2. ASSUME NEW w \in Worker, getNextJob(w) PROVE JobInv'
  <2>1. /\ Head(workQueue) \in SeqElements(workQueue)
        /\ Head(workQueue) \in Job /\ Head(workQueue) # NoJob
    <3>1. Head(workQueue) = workQueue[1] /\ 1 \in DOMAIN workQueue
          /\ Head(workQueue) \in Job
      BY <1>2 DEF getNextJob, IInv, TypeOK
    <3> QED
      BY <3>1, NoJobAssumption DEF SeqElements
  <2>2. Head(workQueue) \notin SeqElements(taken)
    BY <2>1, HalvesApart DEF IInv, TypeOK, FirstInFirstOut, JobInv
  <2>3. SeqElements(taken') = SeqElements(taken) \union {Head(workQueue)}
    BY <1>2, <2>1, AppendedElements DEF getNextJob, IInv, TypeOK
  <2> QED
    BY <1>2, <2>1, <2>2, <2>3 DEF getNextJob, JobInv, Held, IInv, TypeOK
<1>3. ASSUME NEW w \in Worker, JobEnds(w) PROVE JobInv'
  BY <1>3 DEF JobEnds, JobInv, Held, IInv, TypeOK
<1>4. ASSUME NEW w \in Worker,
             \/ Spawn(w) \/ SpuriousWakeUp(w) \/ StayInLoop(w) \/ LeaveLoop(w)
             \/ WaitForJob(w) \/ GetNoJob(w)
      PROVE  JobInv'
  <2>1. at[w] # "running"
    BY <1>4 DEF Spawn, SpuriousWakeUp, StayInLoop, LeaveLoop, WaitForJob, GetNoJob,
                IInv, OwnerInv, TypeOK
  <2>2. UNCHANGED <<work, added, taken>> /\ at'[w] # "running"
        /\ \A v \in Worker : v # w => at'[v] = at[v]
    BY <1>4 DEF Spawn, SpuriousWakeUp, StayInLoop, LeaveLoop, WaitForJob, GetNoJob,
                IInv, TypeOK
  <2> QED
    BY <2>1, <2>2 DEF JobInv, Held
<1>5. CASE markFinished \/ NotifyAll \/ Join \/ UNCHANGED vars
  BY <1>5 DEF markFinished, NotifyAll, Join, vars, JobInv, Held, IInv, TypeOK
<1> QED
  BY <1>1, <1>2, <1>3, <1>4, <1>5 DEF Next, processWork
(* The instance brings a Cardinality of its own.                            *)
LEMMA SameCardinality == \A S : Abstract!Cardinality(S) = Cardinality(S)
BY DEF Abstract!Cardinality, Cardinality, Abstract!IsFiniteSet, IsFiniteSet

(* The phase of the abstract queue, by the place of the owner.              *)
LEMMA PhaseCases ==
    /\ owner = "stopped" => Phase = "joined"
    /\ owner # "stopped" /\ finished => Phase = "closed"
    /\ owner # "stopped" /\ ~finished => Phase = "open"
BY DEF Phase

(* The queue that has just been constructed is an empty open one.           *)
LEMMA InitImplements == Init => Abstract!Init
<1> SUFFICES ASSUME Init PROVE Abstract!Init
  OBVIOUS
<1>1. Phase = "open"
  BY PhaseCases DEF Init
<1>2. InProgress = {} /\ Over = {}
  BY DEF Init, InProgress, Over, SeqElements
<1> QED
  BY <1>1, <1>2 DEF Init, Abstract!Init

(* A step of JobQueue is a step of the abstract queue or leaves it alone.   *)
LEMMA StepImplements ==
    IInv /\ JobInv /\ [Next]_vars => [Abstract!Next]_Abstract!workQueueVars
<1> SUFFICES ASSUME IInv, JobInv, [Next]_vars
             PROVE  Abstract!Next \/ UNCHANGED <<workQueue, InProgress, Over, Phase>>
  BY DEF Abstract!workQueueVars
<1>0. \A w \in Worker : at[w] = "running" => work[w] \in SeqElements(taken)
  BY DEF JobInv
<1>1. ASSUME NEW job \in Job, addJob(job) PROVE Abstract!Add(job)
  <2>1. job \notin InProgress \union Over /\ job \notin SeqElements(workQueue)
    <3>1. job \notin SeqElements(taken) /\ job \notin SeqElements(workQueue)
      BY <1>1, HalvesApart DEF addJob, JobInv, IInv, TypeOK, FirstInFirstOut
    <3> QED
      BY <1>0, <3>1 DEF InProgress, Over
  <2>2. \A w \in Worker : at'[w] = "running" <=> at[w] = "running"
    BY <1>1 DEF addJob, NotifyOne, Waiting, IInv, TypeOK
  <2>3. UNCHANGED <<InProgress, Over, Phase>> /\ workQueue' = Append(workQueue, job)
    BY <1>1, <2>2 DEF addJob, InProgress, Over, Phase
  <2>4. \A i \in DOMAIN workQueue : workQueue[i] # job
    BY <2>1 DEF SeqElements
  <2> QED
    BY <2>1, <2>3, <2>4 DEF Abstract!Add
<1>2. ASSUME NEW w \in Worker, getNextJob(w) PROVE Abstract!Start
  <2> DEFINE job == Head(workQueue)
  <2>1. job \in SeqElements(workQueue) /\ job \in Job /\ workQueue # <<>>
    <3>1. job = workQueue[1] /\ 1 \in DOMAIN workQueue /\ job \in Job
      BY <1>2 DEF getNextJob, IInv, TypeOK
    <3> QED
      BY <1>2, <3>1 DEF SeqElements, getNextJob
  <2>2. job \notin SeqElements(taken)
    BY <2>1, HalvesApart DEF IInv, TypeOK, FirstInFirstOut, JobInv
  <2>3. SeqElements(taken') = SeqElements(taken) \union {job}
    BY <1>2, <2>1, AppendedElements DEF getNextJob, IInv, TypeOK
  <2>4. at[w] = "next" /\ work[w] = NoJob /\ ~finished /\ owner # "stopped"
        /\ UNCHANGED <<finished, owner>> /\ workQueue' = Tail(workQueue)
    BY <1>2 DEF getNextJob, JobInv, Held, IInv, OwnerInv
  <2>5. /\ work'[w] = job /\ at'[w] = "running"
        /\ \A v \in Worker : v # w => work'[v] = work[v] /\ at'[v] = at[v]
    BY <1>2 DEF getNextJob, IInv, TypeOK
  <2>6. InProgress' = InProgress \union {job}
    BY <2>4, <2>5 DEF InProgress
  <2>7. Over' = Over
    <3>1. NoJob \notin SeqElements(taken)
      BY NoJobAssumption DEF SeqElements, IInv, TypeOK
    <3> QED
      BY <2>2, <2>3, <2>4, <2>5, <3>1 DEF Over
  <2>8. Phase = "open" /\ Phase' = Phase
    BY <2>4, PhaseCases DEF Phase
  <2>9. Cardinality(InProgress) < Cardinality(Worker)
    BY <2>4, PoolBound DEF InProgress
  <2> QED
    BY <2>1, <2>4, <2>6, <2>7, <2>8, <2>9, SameCardinality DEF Abstract!Start
<1>3. ASSUME NEW w \in Worker, JobEnds(w) PROVE \E job \in Job : Abstract!Finish(job)
  <2> DEFINE job == work[w]
  <2>1. at[w] = "running" /\ job # NoJob /\ job \in Job /\ job \in SeqElements(taken)
    BY <1>0, <1>3 DEF JobEnds, JobInv, Held, IInv, TypeOK
  <2>2. /\ work'[w] = NoJob /\ at'[w] = "loop"
        /\ \A v \in Worker : v # w => work'[v] = work[v] /\ at'[v] = at[v]
        /\ UNCHANGED <<workQueue, taken, finished, owner>>
    BY <1>3 DEF JobEnds, IInv, TypeOK
  <2>3. \A v \in Worker : work[v] = job => v = w
    BY <2>1 DEF JobInv, Held
  <2>4. job \in InProgress /\ InProgress' = InProgress \ {job}
    BY <2>1, <2>2, <2>3 DEF InProgress
  <2>5. Over' = Over \union {job}
    <3>1. \A v \in Worker : work'[v] # job
      BY <2>1, <2>2, <2>3
    <3>2. \A other \in SeqElements(taken) \ {job} :
              (\A v \in Worker : work[v] # other) <=> (\A v \in Worker : work'[v] # other)
      <4>1. NoJob \notin SeqElements(taken)
        BY NoJobAssumption DEF SeqElements, IInv, TypeOK
      <4> QED
        BY <2>1, <2>2, <4>1
    <3> QED
      BY <2>1, <2>2, <3>1, <3>2 DEF Over
  <2>6. Phase' = Phase
    BY <2>2 DEF Phase
  <2>7. Abstract!Finish(job)
    BY <2>2, <2>4, <2>5, <2>6 DEF Abstract!Finish
  <2> QED
    BY <2>1, <2>7
<1>4. ASSUME markFinished PROVE Abstract!Close
  <2>1. UNCHANGED <<workQueue, InProgress, Over>>
    BY <1>4 DEF markFinished, InProgress, Over
  <2>2. owner # "stopped" /\ ~finished /\ owner' # "stopped" /\ finished'
    BY <1>4 DEF markFinished, IInv, OwnerInv
  <2>3. Phase = "open" /\ Phase' = "closed"
    BY <2>2, PhaseCases DEF Phase
  <2> QED
    BY <2>1, <2>3 DEF Abstract!Close
<1>5. ASSUME Join PROVE Abstract!Join
  <2>1. UNCHANGED <<workQueue, InProgress, Over>>
    BY <1>5 DEF Join, InProgress, Over
  <2>2. owner = "joining" /\ finished /\ owner' = "stopped"
        /\ \A w \in Worker : at[w] # "running"
    BY <1>5 DEF Join, IInv, OwnerInv
  <2>3. Phase = "closed" /\ Phase' = "joined"
    BY <2>2, PhaseCases DEF Phase
  <2>4. InProgress = {}
    BY <2>2 DEF InProgress
  <2> QED
    BY <2>1, <2>3, <2>4 DEF Abstract!Join
<1>6. ASSUME NEW w \in Worker,
             \/ Spawn(w) \/ SpuriousWakeUp(w) \/ StayInLoop(w) \/ LeaveLoop(w)
             \/ WaitForJob(w) \/ GetNoJob(w)
      PROVE  UNCHANGED <<workQueue, InProgress, Over, Phase>>
  <2>1. at[w] # "running" /\ at'[w] # "running"
        /\ \A v \in Worker : v # w => at'[v] = at[v]
    BY <1>6 DEF Spawn, SpuriousWakeUp, StayInLoop, LeaveLoop, WaitForJob, GetNoJob,
                IInv, OwnerInv, TypeOK
  <2>2. UNCHANGED <<work, taken, workQueue, finished>>
        /\ (owner' = "stopped" <=> owner = "stopped")
    BY <1>6 DEF Spawn, SpuriousWakeUp, StayInLoop, LeaveLoop, WaitForJob, GetNoJob
  <2> QED
    BY <2>1, <2>2 DEF InProgress, Over, Phase
<1>7. ASSUME NotifyAll \/ UNCHANGED vars
      PROVE  UNCHANGED <<workQueue, InProgress, Over, Phase>>
  <2>1. /\ UNCHANGED <<workQueue, work, taken, finished>>
        /\ owner' = "stopped" <=> owner = "stopped"
        /\ \A w \in Worker : at'[w] = "running" <=> at[w] = "running"
    BY <1>7 DEF NotifyAll, vars, IInv, TypeOK
  <2> QED
    BY <2>1 DEF InProgress, Over, Phase
<1> QED
  BY <1>1, <1>2, <1>3, <1>4, <1>5, <1>6, <1>7 DEF Next, processWork, Abstract!Next

(* Mutex, condition variable and threads are the bounded pool of WorkQueue: *)
(* jobs start in order, each once, no more than there are workers, none     *)
(* after the queue is closed, and stop() returns when none is in progress.  *)
THEOREM JobQueueIsWorkQueue == Spec => ImplementsWorkQueue
<1>1. Init => IInv /\ JobInv
  BY InitInv, InitJobs
<1>2. IInv /\ JobInv /\ [Next]_vars => (IInv /\ JobInv)'
  BY StepInv, StepJobs
<1> QED
  BY <1>1, <1>2, InitImplements, StepImplements, PTL
     DEF Spec, ImplementsWorkQueue, Abstract!Spec
=============================================================================

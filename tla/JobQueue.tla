------------------------------ MODULE JobQueue ------------------------------
(***************************************************************************)
(* src/NisseServer/JobQueue.{h,cpp}: the worker threads of the server.     *)
(*                                                                         *)
(* A critical section of workMutex is one step, except workCV.wait(),      *)
(* which is left between the test of its predicate and the return: a       *)
(* worker that finds the predicate false releases the mutex and sleeps in  *)
(* one step ("waiting"), and a notification, or a spurious wake-up, sends  *)
(* it back to test the predicate again ("next").  processWork() also reads *)
(* `finished` without the mutex: that read may return a stale FALSE until  *)
(* the worker has taken the mutex after markFinished().                    *)
(*                                                                         *)
(* A job is a value: what it does, and whether it returns or throws (both  *)
(* are swallowed by processWork), does not change the queue.               *)
(***************************************************************************)
EXTENDS Naturals, Sequences, FiniteSets

CONSTANTS
    Worker,         \* the threads the constructor means to create
    Job,            \* the jobs that may be handed to addJob()
    NoJob           \* stands for the empty std::optional<Work>

(* A queue without threads would never run a job.                           *)
ASSUME WorkerAssumption == Worker # {} /\ IsFiniteSet(Worker)
ASSUME NoJobAssumption == NoJob \notin Job

VARIABLES
    workers,        \* the threads that have been created
    finished,
    workQueue,
    at,             \* [Worker -> where the thread is in processWork()]
    work,           \* [Worker -> the job it holds, or NoJob]
    owner,          \* where the thread that owns the object is
    added,          \* history: the jobs given to addJob(), in order
    taken           \* history: the jobs getNextJob() returned, in order

vars == <<workers, finished, workQueue, at, work, owner, added, taken>>

(* A thread: not created; at the test of the while loop; about to lock in   *)
(* getNextJob(); asleep in workCV; running a job; told that there is none;  *)
(* returned from processWork().                                             *)
At == {"unborn", "loop", "next", "waiting", "running", "leaving", "exited"}

(* The owner: in the constructor; using the object; at the three points of  *)
(* stop(); after it.                                                        *)
Owner == {"constructing", "open", "notifying", "joining", "stopped"}

SeqElements(s) == {s[i] : i \in DOMAIN s}

Waiting == {w \in Worker : at[w] = "waiting"}

(* The constructor has returned: no one calls a member before.              *)
Constructed == \A w \in Worker : at[w] # "unborn"

-----------------------------------------------------------------------------
(* Faults: actions defined below with a plausible mistake in them.  No      *)
(* specification uses them; put in place of the action, each makes a        *)
(* property fail, which shows that the property depends on that line.       *)

(* addJob() without workCV.notify_one().                                    *)
addJobSilently(job) ==
    /\ Constructed
    /\ job \notin SeqElements(added)
    /\ workQueue' = Append(workQueue, job)
    /\ added' = Append(added, job)
    /\ UNCHANGED <<workers, finished, at, work, owner, taken>>

(* stop() without workCV.notify_all().                                      *)
NotifyNobody ==
    /\ owner = "notifying"
    /\ owner' = "joining"
    /\ UNCHANGED <<workers, finished, workQueue, at, work, added, taken>>

(* front() without pop().                                                   *)
getNextJobNoPop(w) ==
    /\ at[w] = "next"
    /\ workQueue # <<>> /\ ~finished
    /\ work' = [work EXCEPT ![w] = Head(workQueue)]
    /\ at' = [at EXCEPT ![w] = "running"]
    /\ taken' = Append(taken, Head(workQueue))
    /\ UNCHANGED <<workers, finished, workQueue, owner, added>>

(* A stopped queue that is drained first.                                   *)
getNextJobDrains(w) ==
    /\ at[w] = "next"
    /\ workQueue # <<>>
    /\ workQueue' = Tail(workQueue)
    /\ work' = [work EXCEPT ![w] = Head(workQueue)]
    /\ at' = [at EXCEPT ![w] = "running"]
    /\ taken' = Append(taken, Head(workQueue))
    /\ UNCHANGED <<workers, finished, owner, added>>

-----------------------------------------------------------------------------
Init ==
    /\ workers = {}
    /\ finished = FALSE
    /\ workQueue = <<>>
    /\ at = [w \in Worker |-> "unborn"]
    /\ work = [w \in Worker |-> NoJob]
    /\ owner = "constructing"
    /\ added = <<>>
    /\ taken = <<>>

(* The constructor: workers.emplace_back(&JobQueue::processWork, this).     *)
Spawn(w) ==
    /\ owner = "constructing"
    /\ w \notin workers
    /\ workers' = workers \union {w}
    /\ at' = [at EXCEPT ![w] = "loop"]
    /\ owner' = IF workers' = Worker THEN "open" ELSE owner
    /\ UNCHANGED <<finished, workQueue, work, added, taken>>

(* markFinished(), the first step of stop(): called by the destructor, or   *)
(* by the constructor when creating a thread failed.                        *)
markFinished ==
    /\ owner \in {"constructing", "open"}
    /\ finished' = TRUE
    /\ owner' = "notifying"
    /\ UNCHANGED <<workers, workQueue, at, work, added, taken>>

(* workCV.notify_all(), outside the mutex.                                  *)
NotifyAll ==
    /\ owner = "notifying"
    /\ at' = [w \in Worker |-> IF at[w] = "waiting" THEN "next" ELSE at[w]]
    /\ owner' = "joining"
    /\ UNCHANGED <<workers, finished, workQueue, work, added, taken>>

(* Every w.join() has returned, workers.clear().                            *)
Join ==
    /\ owner = "joining"
    /\ \A w \in workers : at[w] = "exited"
    /\ workers' = {}
    /\ owner' = "stopped"
    /\ UNCHANGED <<finished, workQueue, at, work, added, taken>>

(* notify_one(): one sleeping thread, if there is one, will test again.     *)
NotifyOne ==
    IF Waiting = {} THEN at' = at
    ELSE \E w \in Waiting : at' = [at EXCEPT ![w] = "next"]

addJob(job) ==
    /\ Constructed
    /\ job \notin SeqElements(added)
    /\ workQueue' = Append(workQueue, job)
    /\ added' = Append(added, job)
    /\ NotifyOne
    /\ UNCHANGED <<workers, finished, work, owner, taken>>

-----------------------------------------------------------------------------
(* while (!finished): the unlocked read may still return FALSE.             *)
StayInLoop(w) ==
    /\ at[w] = "loop"
    /\ at' = [at EXCEPT ![w] = "next"]
    /\ UNCHANGED <<workers, finished, workQueue, work, owner, added, taken>>

LeaveLoop(w) ==
    /\ at[w] \in {"loop", "leaving"}
    /\ finished
    /\ at' = [at EXCEPT ![w] = "exited"]
    /\ UNCHANGED <<workers, finished, workQueue, work, owner, added, taken>>

(* getNextJob(), when the predicate of the wait is false: sleep.            *)
WaitForJob(w) ==
    /\ at[w] = "next"
    /\ workQueue = <<>> /\ ~finished
    /\ at' = [at EXCEPT ![w] = "waiting"]
    /\ UNCHANGED <<workers, finished, workQueue, work, owner, added, taken>>

SpuriousWakeUp(w) ==
    /\ at[w] = "waiting"
    /\ at' = [at EXCEPT ![w] = "next"]
    /\ UNCHANGED <<workers, finished, workQueue, work, owner, added, taken>>

(* getNextJob(), the predicate true and the queue stopped: no job.  The     *)
(* worker has seen `finished` under the mutex, so its next test of the loop *)
(* cannot be stale.                                                         *)
GetNoJob(w) ==
    /\ at[w] = "next"
    /\ finished
    /\ at' = [at EXCEPT ![w] = "leaving"]
    /\ UNCHANGED <<workers, finished, workQueue, work, owner, added, taken>>

(* getNextJob(), a job and no stop: the oldest one.                         *)
getNextJob(w) ==
    /\ at[w] = "next"
    /\ workQueue # <<>> /\ ~finished
    /\ workQueue' = Tail(workQueue)
    /\ work' = [work EXCEPT ![w] = Head(workQueue)]
    /\ at' = [at EXCEPT ![w] = "running"]
    /\ taken' = Append(taken, Head(workQueue))
    /\ UNCHANGED <<workers, finished, owner, added>>

(* The job returns or throws; the loop goes on either way.                  *)
JobEnds(w) ==
    /\ at[w] = "running"
    /\ at' = [at EXCEPT ![w] = "loop"]
    /\ work' = [work EXCEPT ![w] = NoJob]
    /\ UNCHANGED <<workers, finished, workQueue, owner, added, taken>>

processWork(w) ==
    \/ StayInLoop(w) \/ LeaveLoop(w)
    \/ WaitForJob(w) \/ GetNoJob(w) \/ getNextJob(w)
    \/ JobEnds(w)

-----------------------------------------------------------------------------
Next ==
    \/ \E w \in Worker : Spawn(w) \/ processWork(w) \/ SpuriousWakeUp(w)
    \/ \E job \in Job : addJob(job)
    \/ markFinished \/ NotifyAll \/ Join

(* A thread that can take a step is scheduled, a job returns, and the       *)
(* thread inside the constructor or stop() goes on.  Nothing makes anyone   *)
(* add a job, begin a stop or wake up spuriously, and a worker at the loop  *)
(* test is not promised the up-to-date value.                               *)
Fairness ==
    /\ \A w \in Worker : WF_vars(processWork(w))
    /\ WF_vars(NotifyAll)
    /\ WF_vars(Join)

Spec == Init /\ [][Next]_vars /\ Fairness

-----------------------------------------------------------------------------
(* Every variable has its type: the queue, and what the workers hold, are   *)
(* jobs that were given to addJob(), never an empty one.                    *)
TypeOK ==
    /\ workers \in SUBSET Worker
    /\ finished \in BOOLEAN
    /\ workQueue \in Seq(Job)
    /\ at \in [Worker -> At]
    /\ work \in [Worker -> Job \union {NoJob}]
    /\ owner \in Owner
    /\ added \in Seq(Job)
    /\ taken \in Seq(Job)

(* The jobs handed out so far, followed by those still queued, are the jobs *)
(* given to addJob() in that order: getNextJob() neither loses, repeats nor *)
(* overtakes a job, whatever the interleaving of workers and callers.       *)
FirstInFirstOut == taken \o workQueue = added

(* No lost wake-up: while the queue is open and holds a job, some worker is *)
(* awake and will come back to getNextJob().  A notify_one() that found     *)
(* nobody asleep, or woke a thread whose job another thread took first,     *)
(* must not leave every worker in workCV.                                   *)
SomeoneAwake ==
    workQueue # <<>> /\ ~finished /\ owner = "open"
        => \E w \in Worker : at[w] \in {"loop", "next", "running"}

(* A worker never falls asleep after stop() has woken everybody: join()     *)
(* would wait for it for ever.                                              *)
NoSleeperAtJoin == owner \in {"joining", "stopped"} => Waiting = {}

(* stop() returns only when no job is running and no thread that was        *)
(* created is left: the destructor of the Server relies on it.              *)
StoppedIsQuiet ==
    owner = "stopped" => \A w \in Worker : at[w] \in {"unborn", "exited"}

(* Once markFinished() has run no further job is handed out, and jobs that  *)
(* are still queued stay queued.                                            *)
NoJobAfterFinished == [][finished => taken' = taken]_vars

(* stop() returns, whatever the workers were doing when it began.           *)
StopReturns == finished ~> owner = "stopped"

(* A queued job is eventually started, unless the queue is stopped first.   *)
QueuedJobStarts ==
    \A job \in Job :
        (job \in SeqElements(workQueue))
            ~> (job \in SeqElements(taken) \/ finished)

-----------------------------------------------------------------------------
(* The abstract queue this code implements.                                 *)
InProgress == {work[w] : w \in {v \in Worker : at[v] = "running"}}

Over == {job \in SeqElements(taken) : \A w \in Worker : work[w] # job}

Phase ==
    CASE owner = "stopped" -> "joined"
      [] finished /\ owner # "stopped" -> "closed"
      [] OTHER -> "open"

Abstract ==
    INSTANCE WorkQueue WITH
        Capacity <- Cardinality(Worker),
        pending  <- workQueue,
        running  <- InProgress,
        done     <- Over,
        phase    <- Phase

(* Mutex, condition variable and threads together are a bounded pool that   *)
(* starts jobs in order, none after it is closed, and joins when idle.      *)
ImplementsWorkQueue == Abstract!Spec
=============================================================================

------------------------- MODULE ServerRunner_proof -------------------------
(***************************************************************************)
(* Proofs about ServerRunner, for any workers, connections and bounds.      *)
(***************************************************************************)
EXTENDS ServerRunner, TLAPS

(* What the lock and the place of each thread say about the server: known   *)
(* only between the notice and the end of run(); whole from its             *)
(* construction until it is unknown again; known to whoever uses it.        *)
LockInv ==
    /\ owner \in {"calling", "halting"} => mutex = "owner" /\ activeServer
    /\ activeServer => runner \in {"looping", "returned"}
    /\ runner \in {"starting", "noticing", "looping", "returned", "leaving"}
            => alive = Members

(* The queue is there from the first job to the last worker.                *)
QueueInv ==
    /\ "jobQueue" \notin alive => runner \in {"building", "ended"}
    /\ jobsFinished => runner \in {"waiting", "ended"}
    /\ runner = "building" => jobs = <<>> /\ \A w \in Worker : held[w] = Idle
    /\ runner = "ended" => \A w \in Worker : held[w] = Exited

IInv == TypeOK /\ LockInv /\ QueueInv

LEMMA InitIInv == Init => IInv
<1> SUFFICES ASSUME Init PROVE IInv
  OBVIOUS
<1>1. calls \in 0 .. MaxCalls /\ events \in 0 .. MaxEvents
  BY RunnerAssumption DEF RunnerAssumption, Init
<1>2. jobs \in Seq(Connection)
  BY DEF Init
<1>3. held \in [Worker -> Connection \union {Idle, Exited}]
  BY DEF Init
<1>4. activeServer \in BOOLEAN /\ finished \in BOOLEAN
      /\ jobsFinished \in BOOLEAN /\ clashed \in BOOLEAN
  BY DEF Init
<1> QED
  BY <1>1, <1>2, <1>3, <1>4 DEF Init, IInv, TypeOK, LockInv, QueueInv

LEMMA OwnerIInv == IInv /\ Owner => IInv'
<1> SUFFICES ASSUME IInv, Owner PROVE IInv'
  OBVIOUS
<1> USE DEF IInv, TypeOK, LockInv, QueueInv, OwnerStep, workVars
<1>1. ASSUME NEW from \in {"starting", "woken"}, Looks(from) PROVE IInv'
  BY <1>1 DEF Looks
<1>2. CASE FallsAsleep
  BY <1>2 DEF FallsAsleep
<1>3. CASE CallBegins
  BY <1>3, RunnerAssumption DEF RunnerAssumption, CallBegins
<1>4. CASE CallEnds
  BY <1>4 DEF CallEnds
<1>5. CASE DestroyBegins
  BY <1>5 DEF DestroyBegins
<1>6. CASE DestroyStops
  BY <1>6 DEF DestroyStops
<1>7. CASE Joined
  BY <1>7 DEF Joined
<1> QED
  BY <1>1, <1>2, <1>3, <1>4, <1>5, <1>6, <1>7 DEF Owner

LEMMA RunnerIInv == IInv /\ Runner => IInv'
<1> SUFFICES ASSUME IInv, Runner PROVE IInv'
  OBVIOUS
<1> USE DEF IInv, TypeOK, LockInv, QueueInv, RunnerStep, Members
<1>1. CASE Build
  BY <1>1 DEF Build
<1>2. CASE Run
  <2>1. owner' \in {owner, "woken"}
    BY <1>2 DEF Run, Notified
  <2>2. CASE runner = "starting"
    <3>1. /\ runner' = "noticing" /\ finished' = FALSE
          /\ UNCHANGED <<owner, mutex, activeServer, alive, co, jobsFinished, clashed>>
          /\ UNCHANGED <<calls, input, events, jobs, held>>
      BY <1>2, <2>2 DEF Run
    <3> QED
      BY <2>2, <3>1
  <2>3. CASE runner = "noticing"
    BY <1>2, <2>1, <2>3 DEF Run
  <2> QED
    BY <1>2, <2>2, <2>3 DEF Run
<1>3. CASE LoopBreaks
  BY <1>3 DEF LoopBreaks
<1>4. CASE Leave
  \* the lock is free, so nobody is using the server
  <2>1. CASE runner = "returned"
    BY <1>4, <2>1 DEF Leave
  <2>2. CASE runner = "leaving"
    BY <1>4, <2>2 DEF Leave
  <2> QED
    BY <1>4, <2>1, <2>2 DEF Leave
<1>5. CASE Unwind
  <2>1. PICK to \in Unwound(First(Unended)) : co' = [co EXCEPT ![First(Unended)] = to]
    BY <1>5 DEF Unwind
  <2>2. CASE First(Unended) \notin Connection
    <3>1. co' = co
      BY <2>1, <2>2
    <3> QED
      BY <1>5, <3>1 DEF Unwind
  <2>3. CASE First(Unended) \in Connection
    <3>1. to \in {"ended", "remove", "more", "mid"}
      BY <2>1, <2>3 DEF Unwound
    <3>2. co' \in [Connection -> {"none", "wait", "mid", "more", "remove", "ended"}]
      BY <2>1, <2>3, <3>1
    <3> QED
      BY <1>5, <3>2 DEF Unwind
  <2> QED
    BY <2>2, <2>3
<1>6. CASE DestroyStore
  BY <1>6 DEF DestroyStore
<1>7. CASE StopJobs
  BY <1>7 DEF StopJobs
<1>8. CASE JoinJobs
  BY <1>8 DEF JoinJobs
<1> QED
  BY <1>1, <1>2, <1>3, <1>4, <1>5, <1>6, <1>7, <1>8 DEF Runner

LEMMA WorkIInv ==
    ASSUME IInv,
           \/ \E c \in Connection : Connect(c) \/ ClientSends(c) \/ Event(c)
           \/ \E w \in Worker : Works(w)
    PROVE  IInv'
<1> USE DEF IInv, TypeOK, LockInv, QueueInv, WorkStep
<1>1. ASSUME NEW c \in Connection, Connect(c) PROVE IInv'
  BY <1>1 DEF Connect
<1>2. ASSUME NEW c \in Connection, ClientSends(c) PROVE IInv'
  BY <1>2, RunnerAssumption DEF RunnerAssumption, ClientSends
<1>3. ASSUME NEW c \in Connection, Event(c) PROVE IInv'
  BY <1>3 DEF Event
<1>4. ASSUME NEW w \in Worker, Takes(w) PROVE IInv'
  <2>1. Head(jobs) \in Connection /\ Tail(jobs) \in Seq(Connection)
    BY <1>4 DEF Takes
  <2>2. runner \notin {"building", "ended"}
    BY <1>4 DEF Takes, Idle, Exited
  <2> QED
    BY <1>4, <2>1, <2>2 DEF Takes
<1>5. ASSUME NEW w \in Worker, Runs(w) PROVE IInv'
  <2>1. held[w] \in Connection /\ runner \notin {"building", "ended"}
    BY <1>5 DEF Runs
  <2>2. CASE co[held[w]] = "ended"
    BY <1>5, <2>1, <2>2 DEF Runs
  <2>3. CASE co[held[w]] # "ended"
    <3>1. PICK to \in {"mid", "more", "ended"} : co' = [co EXCEPT ![held[w]] = to]
      BY <1>5, <2>3 DEF Runs
    <3>2. co' \in [Connection -> {"none", "wait", "mid", "more", "remove", "ended"}]
      BY <2>1, <3>1
    <3>3. /\ finished' \in BOOLEAN /\ UNCHANGED <<clashed, events, jobs>>
          /\ input' \in [Connection -> BOOLEAN]
          /\ held' \in [Worker -> Connection \union {Idle, Exited}]
      BY <1>5, <2>1, <2>3 DEF Runs
    <3> QED
      BY <1>5, <2>1, <3>2, <3>3 DEF Runs
  <2> QED
    BY <2>2, <2>3
<1>6. ASSUME NEW w \in Worker, Exits(w) PROVE IInv'
  <2>1. runner # "building"
    BY <1>6 DEF Exits
  <2> QED
    BY <1>6, <2>1 DEF Exits
<1> QED
  BY <1>1, <1>2, <1>3, <1>4, <1>5, <1>6 DEF Works

LEMMA StepIInv == IInv /\ [Next]_vars => IInv'
<1> SUFFICES ASSUME IInv, [Next]_vars PROVE IInv'
  OBVIOUS
<1>1. CASE UNCHANGED vars
  BY <1>1 DEF IInv, TypeOK, LockInv, QueueInv, vars
<1>2. CASE Next
  BY <1>2, OwnerIInv, RunnerIInv, WorkIInv DEF Next
<1> QED
  BY <1>1, <1>2

(* Every variable of ServerRunner keeps its type (Server.h:66-126).         *)
THEOREM TypeCorrect == Spec => []TypeOK
<1>1. IInv => TypeOK
  BY DEF IInv
<1> QED
  BY InitIInv, StepIInv, <1>1, PTL DEF Spec

(* Whoever uses the server through its runner meets a whole server, for any *)
(* number of threads, connections and calls (Server.h:87-113).              *)
THEOREM ServerIsMet == Spec => []CallsMeetServer
<1>1. IInv => CallsMeetServer
  <2>1. ASSUME IInv, NEW w \in Worker, held[w] \in Connection
        PROVE  "jobQueue" \in alive
    BY <2>1 DEF IInv, QueueInv, Connection, Idle, Exited
  <2> QED
    BY <2>1 DEF IInv, LockInv, CallsMeetServer
<1> QED
  BY InitIInv, StepIInv, <1>1, PTL DEF Spec

=============================================================================

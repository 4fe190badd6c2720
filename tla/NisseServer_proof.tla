-------------------------- MODULE NisseServer_proof --------------------------
(***************************************************************************)
(* Proofs about NisseServer, for any sets of listeners, descriptors and    *)
(* workers, any behaviour of the handlers, and any bounds: its invariants,  *)
(* and, from them, that it implements Connection, forgets no coroutine and  *)
(* counts every request in progress.                                       *)
(***************************************************************************)
EXTENDS NisseServer, SequenceTheorems, FiniteSetTheorems, TLAPS

-----------------------------------------------------------------------------
(* Sequences without repetition, at their two ends: what an append adds.    *)
LEMMA AppendElements ==
    ASSUME NEW S, NEW s \in Seq(S), NEW e \in S
    PROVE  /\ Append(s, e) \in Seq(S)
           /\ Elements(Append(s, e)) = Elements(s) \union {e}
<1>1. /\ DOMAIN s = 1 .. Len(s) /\ Len(s) \in Nat
      /\ DOMAIN Append(s, e) = 1 .. Len(s) + 1
      /\ \A i \in 1 .. Len(s) : Append(s, e)[i] = s[i]
      /\ Append(s, e)[Len(s) + 1] = e
  OBVIOUS
<1> QED
  BY <1>1 DEF Elements

(* Taking the head off a sequence, for what is left of it.                  *)
LEMMA TailElements ==
    ASSUME NEW S, NEW s \in Seq(S), s # <<>>
    PROVE  /\ Head(s) \in S /\ Tail(s) \in Seq(S)
           /\ Head(s) \in Elements(s)
           /\ Elements(s) = Elements(Tail(s)) \union {Head(s)}
<1>1. /\ Len(s) \in Nat /\ Len(s) > 0
      /\ DOMAIN s = 1 .. Len(s) /\ Head(s) = s[1]
      /\ DOMAIN Tail(s) = 1 .. Len(s) - 1
      /\ \A i \in 1 .. Len(s) - 1 : Tail(s)[i] = s[i + 1]
      /\ Head(s) \in S /\ Tail(s) \in Seq(S)
  OBVIOUS
<1>2. \A i \in 2 .. Len(s) : s[i] = Tail(s)[i - 1] /\ i - 1 \in 1 .. Len(s) - 1
  BY <1>1
<1>3. \A i \in 1 .. Len(s) : i = 1 \/ i \in 2 .. Len(s)
  BY <1>1
<1>4. Head(s) \in Elements(s)
  BY <1>1 DEF Elements
<1>5. Elements(Tail(s)) \subseteq Elements(s)
  <2>1. \A i \in 1 .. Len(s) - 1 : i + 1 \in 1 .. Len(s)
    BY <1>1
  <2> QED
    BY <1>1, <2>1 DEF Elements
<1>6. Elements(s) \subseteq Elements(Tail(s)) \union {Head(s)}
  <2>1. ASSUME NEW i \in 1 .. Len(s)
        PROVE  s[i] \in Elements(Tail(s)) \union {Head(s)}
    BY <1>1, <1>2, <1>3 DEF Elements
  <2> QED
    BY <1>1, <2>1 DEF Elements
<1> QED
  BY <1>1, <1>4, <1>5, <1>6

(* The elements of a sequence over S are in S.                              *)
LEMMA ElementsOf ==
    ASSUME NEW S, NEW s \in Seq(S)
    PROVE  Elements(s) \subseteq S
<1>1. \A i \in DOMAIN s : s[i] \in S
  OBVIOUS
<1> QED
  BY <1>1 DEF Elements

(* The empty sequence.                                                      *)
LEMMA EmptyElements ==
    Elements(<<>>) = {} /\ Distinct(<<>>) /\ DistinctFd(<<>>)
BY DEF Elements, Distinct, DistinctFd

(* A job appended for a descriptor that has none: JobQueue::addJob().       *)
LEMMA AppendDistinct ==
    ASSUME NEW S, NEW s \in Seq(S), NEW e \in S,
           Distinct(s), e \notin Elements(s)
    PROVE  Distinct(Append(s, e))
<1>1. /\ DOMAIN s = 1 .. Len(s) /\ Len(s) \in Nat
      /\ DOMAIN Append(s, e) = 1 .. Len(s) + 1
      /\ \A i \in 1 .. Len(s) : Append(s, e)[i] = s[i]
      /\ Append(s, e)[Len(s) + 1] = e
      /\ \A i \in 1 .. Len(s) + 1 : i \in 1 .. Len(s) \/ i = Len(s) + 1
  OBVIOUS
<1> QED
  BY <1>1 DEF Elements, Distinct

(* A job taken off: no other job is for its descriptor.                     *)
LEMMA TailDistinct ==
    ASSUME NEW S, NEW s \in Seq(S), s # <<>>, Distinct(s)
    PROVE  Distinct(Tail(s)) /\ Head(s) \notin Elements(Tail(s))
<1>1. /\ Len(s) \in Nat /\ Len(s) > 0
      /\ DOMAIN s = 1 .. Len(s) /\ Head(s) = s[1]
      /\ DOMAIN Tail(s) = 1 .. Len(s) - 1
      /\ \A i \in 1 .. Len(s) - 1 : Tail(s)[i] = s[i + 1]
                                    /\ i + 1 \in 1 .. Len(s) /\ i + 1 # 1
      /\ 1 \in 1 .. Len(s)
  OBVIOUS
<1> QED
  BY <1>1 DEF Elements, Distinct

(* The same for requested changes, told apart by their descriptor.          *)
LEMMA AppendUpdate ==
    ASSUME NEW s \in Seq(Update), NEW u \in Update
    PROVE  /\ Append(s, u) \in Seq(Update)
           /\ Elements(Append(s, u)) = Elements(s) \union {u}
           /\ Descriptors(Append(s, u)) = Descriptors(s) \union {u.fd}
           /\ DistinctFd(s) /\ u.fd \notin Descriptors(s)
                => DistinctFd(Append(s, u))
<1>1. /\ Append(s, u) \in Seq(Update)
      /\ Elements(Append(s, u)) = Elements(s) \union {u}
  BY AppendElements
<1>2. Descriptors(Append(s, u)) = Descriptors(s) \union {u.fd}
  BY <1>1 DEF Descriptors
<1>3. /\ DOMAIN s = 1 .. Len(s) /\ Len(s) \in Nat
      /\ DOMAIN Append(s, u) = 1 .. Len(s) + 1
      /\ \A i \in 1 .. Len(s) : Append(s, u)[i] = s[i]
      /\ Append(s, u)[Len(s) + 1] = u
      /\ \A i \in 1 .. Len(s) + 1 : i \in 1 .. Len(s) \/ i = Len(s) + 1
  OBVIOUS
<1>4. \A i \in 1 .. Len(s) : s[i].fd \in Descriptors(s)
  BY <1>3 DEF Descriptors, Elements
<1>5. DistinctFd(s) /\ u.fd \notin Descriptors(s) => DistinctFd(Append(s, u))
  BY <1>3, <1>4 DEF DistinctFd
<1> QED
  BY <1>1, <1>2, <1>5

(* A change taken off localUpdate: no other is for its descriptor.          *)
LEMMA TailUpdate ==
    ASSUME NEW s \in Seq(Update), s # <<>>
    PROVE  /\ Head(s) \in Update /\ Tail(s) \in Seq(Update)
           /\ Head(s) \in Elements(s)
           /\ Elements(s) = Elements(Tail(s)) \union {Head(s)}
           /\ Descriptors(s) = Descriptors(Tail(s)) \union {Head(s).fd}
           /\ DistinctFd(s) => /\ DistinctFd(Tail(s))
                               /\ Head(s).fd \notin Descriptors(Tail(s))
<1>1. /\ Head(s) \in Update /\ Tail(s) \in Seq(Update)
      /\ Head(s) \in Elements(s)
      /\ Elements(s) = Elements(Tail(s)) \union {Head(s)}
  BY TailElements
<1>2. Descriptors(s) = Descriptors(Tail(s)) \union {Head(s).fd}
  BY <1>1 DEF Descriptors
<1>3. /\ Len(s) \in Nat /\ Len(s) > 0
      /\ DOMAIN s = 1 .. Len(s) /\ Head(s) = s[1]
      /\ DOMAIN Tail(s) = 1 .. Len(s) - 1
      /\ \A i \in 1 .. Len(s) - 1 : Tail(s)[i] = s[i + 1]
                                    /\ i + 1 \in 1 .. Len(s) /\ i + 1 # 1
      /\ 1 \in 1 .. Len(s)
  OBVIOUS
<1>4. ASSUME DistinctFd(s)
      PROVE  DistinctFd(Tail(s)) /\ Head(s).fd \notin Descriptors(Tail(s))
  BY <1>3, <1>4 DEF DistinctFd, Descriptors, Elements
<1> QED
  BY <1>1, <1>2, <1>4

-----------------------------------------------------------------------------
(* The type invariant.  A worker without a job is idle, and no other.       *)

TypeInv ==
    /\ TypeOK
    /\ \A w \in Worker : stage[w] = "idle" <=> held[w] = None

(* A server that has just been constructed satisfies the type invariant.    *)
LEMMA InitType == Init => TypeInv
<1> SUFFICES ASSUME Init PROVE TypeInv
  OBVIOUS
<1>1. finished \in BOOLEAN /\ stopping \in BOOLEAN
  BY Zenon DEF Init
<1> QED
  BY <1>1 DEF Init, TypeInv, TypeOK, Point, Stage, TaskYieldState, Fd

(* The two flags apart, which the other steps leave to this one.            *)
LEMMA FlagType ==
    ASSUME TypeOK, [Next]_vars
    PROVE  finished' \in BOOLEAN /\ stopping' \in BOOLEAN
<1> USE DEF TypeOK, vars, loopVars
<1>1. ASSUME NEW l \in Listener, Listen(l) \/ Connect(l) \/ handleServerEvent(l)
      PROVE  finished' \in BOOLEAN /\ stopping' \in BOOLEAN
  BY <1>1, Zenon DEF Listen, Connect, handleServerEvent, FireRead
<1>2. ASSUME NEW f \in Stream, PeerSends(f) \/ PeerCloses(f)
                               \/ handleStreamRead(f) \/ handleStreamWrite(f)
      PROVE  finished' \in BOOLEAN /\ stopping' \in BOOLEAN
  BY <1>2, Zenon
     DEF PeerSends, PeerCloses, handleStreamRead, handleStreamWrite, FireRead
<1>3. CASE Run \/ StopHard \/ StopSoftReads \/ StopSoftSets \/ Tick
  BY <1>3, Zenon DEF Run, StopHard, StopSoftReads, StopSoftSets, Tick
<1>4. CASE ApplyUpdate
  BY <1>4, Zenon
     DEF ApplyUpdate, ApplyCreate, ApplyRestoreRead, ApplyRestoreWrite,
         ApplyRemove, ApplyExternallyClosed, EscapeExternallyClosed
<1>5. ASSUME NEW w \in Worker, TakeJob(w) \/ RunJob(w)
      PROVE  finished' \in BOOLEAN /\ stopping' \in BOOLEAN
  BY <1>5, Zenon
     DEF TakeJob, RunJob, incActive, ResumeCoRoutine, Accept, AcceptNone,
         ReadBlocks, WriteBlocks, HandlerMore, HandlerDone, HandlerThrows,
         Yields, decActive, PostTask
<1> QED
  BY <1>1, <1>2, <1>3, <1>4, <1>5 DEF Next

(* A handler that consumes what it may leaves no negative amount behind.    *)
LEMMA ConsumeType ==
    ASSUME TypeOK, NEW f \in Stream, NEW n \in 0 .. Received(f), Consume(f, n)
    PROVE  inKernel' \in [Stream -> Nat] /\ inBuffer' \in [Stream -> Nat]
<1>1. inKernel[f] \in Nat /\ inBuffer[f] \in Nat
  BY DEF TypeOK
<1>2. CASE n <= inBuffer[f]
  <2>1. inBuffer[f] - n \in Nat
    BY <1>1, <1>2
  <2> QED
    BY <1>2, <2>1 DEF TypeOK, Consume
<1>3. CASE ~(n <= inBuffer[f])
  <2>1. inBuffer[f] + inKernel[f] - n \in Nat
    BY <1>1 DEF Received
  <2>2. /\ inBuffer' = [inBuffer EXCEPT ![f] = inBuffer[f] + inKernel[f] - n]
        /\ inKernel' = [inKernel EXCEPT ![f] = 0]
    BY <1>3, Zenon DEF Consume
  <2> QED
    BY <2>1, <2>2 DEF TypeOK
<1> QED
  BY <1>2, <1>3

(* A handler takes no more requests than have arrived.                      *)
LEMMA HandlerTakesType ==
    ASSUME TypeOK, NEW f \in Stream
    PROVE  /\ HandlerTakes(f) \subseteq 0 .. Received(f)
           /\ Received(f) \in 0 .. Received(f)
BY DEF TypeOK, HandlerTakes, Received

(* Every step of every thread preserves the type invariant.                 *)
LEMMA StepType == TypeInv /\ [Next]_vars => TypeInv'
<1> SUFFICES ASSUME TypeInv, [Next]_vars PROVE TypeInv'
  OBVIOUS
<1> USE DEF TypeInv, TypeOK
<1>0. finished' \in BOOLEAN /\ stopping' \in BOOLEAN
  BY FlagType
<1>1. ASSUME NEW l \in Listener, Listen(l) PROVE TypeInv'
  <2>1. [op |-> "CreateServer", fd |-> l] \in Update
    BY DEF Update, Fd
  <2> QED
    BY <1>0, <1>1, <2>1, AppendUpdate
       DEF Listen, requestChange, eventVars, workerVars, loopVars, socketVars
<1>2. ASSUME NEW l \in Listener, Connect(l) PROVE TypeInv'
  BY <1>0, <1>2 DEF Connect, storeVars, eventVars, workerVars, loopVars
<1>3. ASSUME NEW l \in Listener, handleServerEvent(l) PROVE TypeInv'
  <2>1. jobs' \in Seq(Fd)
    BY <1>3 DEF handleServerEvent, addJob, Fd
  <2> QED
    BY <1>0, <1>3, <2>1
       DEF handleServerEvent, FireRead, workerVars, loopVars, socketVars
<1>4. ASSUME NEW f \in Stream, PeerSends(f) \/ PeerCloses(f) PROVE TypeInv'
  <2>1. CASE PeerSends(f)
    BY <1>0, <2>1 DEF PeerSends, storeVars, eventVars, workerVars, loopVars
  <2>2. CASE PeerCloses(f)
    BY <1>0, <2>2 DEF PeerCloses, storeVars, eventVars, workerVars, loopVars
  <2> QED
    BY <1>4, <2>1, <2>2
<1>5. ASSUME NEW f \in Stream, handleStreamRead(f) PROVE TypeInv'
  <2>1. [op |-> "ExternallyClosed", fd |-> f] \in Update
    BY DEF Update, Fd
  <2>2. jobs' \in Seq(Fd) /\ updates' \in Seq(Update)
    <3>1. CASE addJob(f) /\ UNCHANGED updates
      BY <3>1 DEF addJob, Fd
    <3>2. CASE requestChange("ExternallyClosed", f) /\ UNCHANGED jobs
      BY <2>1, <3>2, AppendUpdate DEF requestChange
    <3> QED
      BY <1>5, <3>1, <3>2 DEF handleStreamRead
  <2> QED
    BY <1>0, <1>5, <2>2
       DEF handleStreamRead, FireRead, workerVars, loopVars, socketVars
<1>6. ASSUME NEW f \in Stream, handleStreamWrite(f) PROVE TypeInv'
  <2>1. jobs' \in Seq(Fd)
    BY <1>6 DEF handleStreamWrite, addJob, Fd
  <2> QED
    BY <1>0, <1>6, <2>1
       DEF handleStreamWrite, storeVars, workerVars, loopVars, socketVars
<1>7. CASE Run \/ StopHard \/ StopSoftReads \/ StopSoftSets
  BY <1>0, <1>7
     DEF Run, StopHard, StopSoftReads, StopSoftSets, storeVars, eventVars,
         workerVars, socketVars
<1>8. CASE Tick
  <2>1. \/ phase' = "returned" /\ UNCHANGED <<updates, applying>>
        \/ applying' = updates /\ updates' = <<>> /\ UNCHANGED phase
    BY <1>8, Zenon DEF Tick
  <2>2. UNCHANGED <<softStop, co, openStreamCount, eventVars, jobs, workerVars,
                    socketVars>>
    BY <1>8, Zenon DEF Tick
  <2>3. updates' \in Seq(Update) /\ applying' \in Seq(Update)
        /\ phase' \in {"built", "looping", "returned"}
    <3>1. /\ updates \in Seq(Update) /\ applying \in Seq(Update)
          /\ <<>> \in Seq(Update)
          /\ phase \in {"built", "looping", "returned"}
      OBVIOUS
    <3> QED
      BY <2>1, <3>1, Zenon
  <2>4. UNCHANGED <<co, readArmed, writeArmed, activated, openStreamCount, jobs,
                    held, stage, task, softStop, open, peerClosed, backlog,
                    inKernel, inBuffer, connects, sent>>
    BY <2>2, Zenon DEF eventVars, workerVars, socketVars
  <2>5. TypeOK'
    BY <1>0, <2>3, <2>4
  <2> QED
    BY <2>4, <2>5
<1>9. CASE ApplyUpdate
  <2>1. applying # <<>> /\ Head(applying) \in Update
        /\ Head(applying).fd \in Fd /\ Tail(applying) \in Seq(Update)
    BY <1>9, TailUpdate
       DEF Update, ApplyUpdate, Applies, ApplyCreate, ApplyRestoreRead,
           ApplyRestoreWrite, ApplyRemove, ApplyExternallyClosed,
           EscapeExternallyClosed
  <2>2. CASE ApplyCreate
    BY <1>0, <2>1, <2>2
       DEF ApplyCreate, Applies, Point, workerVars, loopVars, socketVars
  <2>3. CASE ApplyRestoreRead
    BY <1>0, <2>1, <2>3
       DEF ApplyRestoreRead, Applies, eventVars, workerVars, loopVars, socketVars
  <2>4. CASE ApplyRestoreWrite
    BY <1>0, <2>1, <2>4
       DEF ApplyRestoreWrite, Applies, Fd, workerVars, loopVars, socketVars
  <2>5. CASE ApplyRemove
    BY <1>0, <2>1, <2>5
       DEF ApplyRemove, Applies, Erase, Point, workerVars, loopVars
  <2>6. CASE ApplyExternallyClosed
    BY <1>0, <2>1, <2>6
       DEF ApplyExternallyClosed, Applies, Erase, Point, workerVars, loopVars
  <2>7. CASE EscapeExternallyClosed
    BY <1>0, <2>1, <2>7
       DEF EscapeExternallyClosed, Point, eventVars, workerVars, loopVars,
           socketVars
  <2> QED
    BY <1>9, <2>2, <2>3, <2>4, <2>5, <2>6, <2>7 DEF ApplyUpdate
<1>10. ASSUME NEW w \in Worker, TakeJob(w) PROVE TypeInv'
  <2>1. Head(jobs) \in Fd /\ Tail(jobs) \in Seq(Fd) /\ Head(jobs) # None
    BY <1>10, TailElements, FdAssumption DEF TakeJob
  <2> QED
    BY <1>0, <1>10, <2>1
       DEF TakeJob, Stage, storeVars, eventVars, loopVars, socketVars
<1>11. ASSUME NEW w \in Worker, incActive(w) \/ decActive(w) PROVE TypeInv'
  <2>1. openStreamCount' \in Int
    BY <1>11 DEF incActive, decActive
  <2>2. /\ stage[w] # "idle"
        /\ stage' \in [Worker -> Stage]
        /\ \A v \in Worker : stage'[v] = "idle" <=> stage[v] = "idle"
    BY <1>11 DEF incActive, decActive, Stage
  <2>3. UNCHANGED <<held, task, co, updates, applying, eventVars, jobs, loopVars,
                    socketVars>>
    BY <1>11 DEF incActive, decActive
  <2> QED
    BY <1>0, <2>1, <2>2, <2>3 DEF eventVars, loopVars, socketVars
<1>12. ASSUME NEW w \in Worker, ResumeCoRoutine(w) PROVE TypeInv'
  <2>1. stage[w] = "counted" /\ held[w] \in Fd /\ held[w] # None
    BY <1>12, FdAssumption
       DEF ResumeCoRoutine, Accept, AcceptNone, ReadBlocks, WriteBlocks, Fd,
           HandlerMore, HandlerDone, HandlerThrows, Resumes
  <2>2. ASSUME NEW p \in Point, NEW t \in TaskYieldState, Yields(w, p, t)
        PROVE  /\ co' \in [Fd -> Point]
               /\ task' \in [Worker -> TaskYieldState]
               /\ stage' \in [Worker -> Stage]
               /\ \A v \in Worker : stage'[v] = "idle" <=> held'[v] = None
               /\ UNCHANGED <<held, applying, eventVars, jobs, loopVars>>
    BY <2>1, <2>2 DEF Yields, Stage
  <2>3. CASE Accept(w)
    <3>1. Yields(w, "accepting", "WaitForMore")
      BY <2>3 DEF Accept
    <3>2. updates' \in Seq(Update) /\ open' \subseteq Stream /\ open \subseteq open'
      <4>1. \A f \in Stream : [op |-> "CreateStream", fd |-> f] \in Update
        BY DEF Update, Fd
      <4>2. CASE UNCHANGED <<open, updates>>
        BY <4>2
      <4>3. ASSUME NEW f \in Stream, open' = open \union {f},
                   requestChange("CreateStream", f)
            PROVE  updates' \in Seq(Update) /\ open' \subseteq Stream
                   /\ open \subseteq open'
        BY <4>1, <4>3, AppendUpdate DEF requestChange
      <4> QED
        BY <2>3, <4>2, <4>3 DEF Accept
    <3>3. backlog' \in [Listener -> Nat]
      BY <2>3 DEF Accept
    <3> QED
      BY <1>0, <2>2, <2>3, <3>1, <3>2, <3>3
         DEF Accept, Point, TaskYieldState, eventVars, loopVars
  <2>4. CASE AcceptNone(w)
    BY <1>0, <2>2, <2>4
       DEF AcceptNone, Point, TaskYieldState, eventVars, loopVars, socketVars
  <2>5. CASE Resumes(w) /\ ~Accept(w) /\ ~AcceptNone(w)
    <3>1. inKernel' \in [Stream -> Nat] /\ inBuffer' \in [Stream -> Nat]
      BY <1>12, <2>5, ConsumeType, HandlerTakesType
         DEF ResumeCoRoutine, ReadBlocks, WriteBlocks, HandlerMore, HandlerDone,
             HandlerThrows, Resumes
    <3>2. \E p \in Point, t \in TaskYieldState : Yields(w, p, t)
      BY <1>12, <2>5
         DEF ResumeCoRoutine, ReadBlocks, WriteBlocks, HandlerMore, HandlerDone,
             HandlerThrows, Point, TaskYieldState
    <3>3. openStreamCount' \in Int
      BY <2>5 DEF Resumes, Compensate
    <3> QED
      BY <1>0, <2>2, <2>5, <3>1, <3>2, <3>3 DEF Resumes, eventVars, loopVars
  <2> QED
    BY <1>12, <2>3, <2>4, <2>5
       DEF ResumeCoRoutine, ReadBlocks, WriteBlocks, HandlerMore, HandlerDone,
           HandlerThrows
<1>13. ASSUME NEW w \in Worker, PostTask(w) PROVE TypeInv'
  <2>1. held[w] \in Fd
    BY <1>13 DEF PostTask
  <2>2. [op |-> IF task[w] = "WaitForMore" THEN "RestoreRead" ELSE task[w],
         fd |-> held[w]] \in Update
    BY <2>1 DEF Update, TaskYieldState
  <2>3. updates' \in Seq(Update)
    BY <1>13, <2>2, AppendUpdate DEF PostTask, requestChange
  <2> QED
    BY <1>0, <1>13, <2>3
       DEF PostTask, Stage, TaskYieldState, eventVars, loopVars, socketVars
<1>14. CASE UNCHANGED vars
  BY <1>0, <1>14
     DEF vars, storeVars, eventVars, workerVars, loopVars, socketVars
<1> QED
  BY <1>1, <1>2, <1>3, <1>4, <1>5, <1>6, <1>7, <1>8, <1>9, <1>10, <1>11, <1>12,
     <1>13, <1>14 DEF Next, RunJob

(* The variables of NisseServer always have the values they are declared    *)
(* for; in particular no event stays activated that is not added, and the   *)
(* requests a handler takes never exceed those that have arrived.           *)
THEOREM TypeCorrect == Spec => []TypeOK
<1>1. Spec => []TypeInv
  BY InitType, StepType, PTL DEF Spec
<1> QED
  BY <1>1, PTL DEF TypeInv

-----------------------------------------------------------------------------
(* The inductive invariant of the hand-over of coroutines.  OneOwner alone  *)
(* is not inductive: that a descriptor accept() returns, or listen() opens, *)
(* has no next step yet follows from what the steps require of the          *)
(* coroutine (StepFitsCoroutine), from what a worker between the yield and  *)
(* its request is about to ask for (WorkerFits), and from a closed          *)
(* descriptor having no entry and no request (ClosedIsUnused).              *)

Asked(t) == IF t = "WaitForMore" THEN "RestoreRead" ELSE t

WorkerFits ==
    \A w \in Worker :
        stage[w] \in {"yielded", "settled"}
            => co[held[w]] \in PointsOf(Asked(task[w]))

ClosedIsUnused ==
    \A f \in Stream \ open :
        /\ co[f] = "none"
        /\ f \notin Descriptors(updates) \union Descriptors(applying)

HandOver == OneOwner /\ StepFitsCoroutine /\ WorkerFits /\ ClosedIsUnused

IInv == TypeInv /\ HandOver

(* The points a change asks for are suspended ones, or final ones.          *)
LEMMA PointsOfCases ==
    /\ PointsOf("CreateServer") = {"none"}
    /\ PointsOf("CreateStream") = {"none"}
    /\ PointsOf("RestoreRead") = AwaitsRead
    /\ PointsOf("ExternallyClosed") = AwaitsRead
    /\ PointsOf("RestoreWrite") = {"writing"}
    /\ PointsOf("Remove") = {"remove", "done"}
BY DEF PointsOf

(* Nothing is pending when the server has just been constructed.            *)
LEMMA InitHandOver == Init => HandOver
<1> SUFFICES ASSUME Init PROVE HandOver
  OBVIOUS
<1>1. /\ Elements(<<>>) = {} /\ Distinct(<<>>) /\ DistinctFd(<<>>)
      /\ Descriptors(<<>>) = {}
  BY EmptyElements DEF Descriptors
<1>2. OneOwner
  BY <1>1 DEF Init, OneOwner, Armed
<1>3. StepFitsCoroutine /\ WorkerFits /\ ClosedIsUnused
  BY <1>1 DEF Init, StepFitsCoroutine, WorkerFits, ClosedIsUnused, Fd
<1> QED
  BY <1>2, <1>3 DEF HandOver

(* A step that hands nothing over.                                          *)
LEMMA QuietHandOver ==
    ASSUME HandOver,
           UNCHANGED <<co, readArmed, writeArmed, updates, applying, jobs, held,
                       stage, task, open>>
    PROVE  HandOver'
BY DEF HandOver, OneOwner, StepFitsCoroutine, WorkerFits, ClosedIsUnused, Armed

(* What a job, an event or a worker holds has an entry in the map, and if   *)
(* it is a connection it is open.                                           *)
LEMMA OwnedIsOpen ==
    ASSUME IInv, NEW f \in Fd, co[f] = "none"
    PROVE  /\ f \notin Armed \union Elements(jobs)
           /\ \A w \in Worker : held[w] # f
<1>1. f \notin Armed \union Elements(jobs)
  BY DEF IInv, HandOver, StepFitsCoroutine, Armed, AwaitsRead, Suspended
<1>2. ASSUME NEW w \in Worker, held[w] = f PROVE FALSE
  <2>1. stage[w] \in {"taken", "counted", "yielded", "settled"}
    BY <1>2, FdAssumption DEF IInv, TypeInv, TypeOK, Stage
  <2>2. CASE stage[w] \in {"taken", "counted"}
    BY <1>2, <2>2 DEF IInv, HandOver, StepFitsCoroutine, AwaitsRead, Suspended
  <2>3. CASE stage[w] \in {"yielded", "settled"}
    <3>1. task[w] \in TaskYieldState
      BY DEF IInv, TypeInv, TypeOK
    <3> QED
      BY <1>2, <2>3, <3>1, PointsOfCases
         DEF IInv, HandOver, WorkerFits, Asked, TaskYieldState, AwaitsRead
  <2> QED
    BY <2>1, <2>2, <2>3
<1> QED
  BY <1>1, <1>2

(* listen(): the descriptor is new.                                         *)
LEMMA ListenHandOver ==
    ASSUME IInv, NEW l \in Listener, Listen(l)
    PROVE  HandOver'
<1> DEFINE u == [op |-> "CreateServer", fd |-> l]
<1>1. /\ u \in Update /\ l \in Fd /\ l \notin Stream
      /\ co[l] = "none" /\ l \notin Descriptors(updates) \union Descriptors(applying)
  BY FdAssumption DEF Update, Fd, Listen, Listened
<1>2. l \notin Armed \union Elements(jobs) /\ \A w \in Worker : held[w] # l
  BY <1>1, OwnedIsOpen
<1>3. /\ UNCHANGED <<co, applying, readArmed, writeArmed, jobs, held, stage,
                     task, open>>
      /\ updates' = Append(updates, u)
  BY DEF Listen, requestChange, eventVars, workerVars, socketVars
<1>4. /\ Elements(updates') = Elements(updates) \union {u}
      /\ Descriptors(updates') = Descriptors(updates) \union {l}
      /\ DistinctFd(updates')
  BY <1>1, <1>3, AppendUpdate DEF IInv, TypeInv, TypeOK, HandOver, OneOwner
<1>5. OneOwner'
  BY <1>1, <1>2, <1>3, <1>4 DEF IInv, HandOver, OneOwner, Armed
<1>6. StepFitsCoroutine'
  BY <1>1, <1>3, <1>4, PointsOfCases DEF IInv, HandOver, StepFitsCoroutine
<1>7. WorkerFits' /\ ClosedIsUnused'
  BY <1>1, <1>3, <1>4 DEF IInv, HandOver, WorkerFits, ClosedIsUnused
<1> QED
  BY <1>5, <1>6, <1>7 DEF HandOver

(* A read or write event becomes a job.                                     *)
LEMMA EventHandOver ==
    ASSUME IInv, NEW f \in Fd,
           f \in Armed,
           readArmed' = readArmed \ {f}, writeArmed' = writeArmed \ {f},
           addJob(f),
           UNCHANGED <<co, updates, applying, held, stage, task, open>>
    PROVE  HandOver'
<1>1. /\ Elements(jobs') = Elements(jobs) \union {f}
      /\ Distinct(jobs')
  <2>1. jobs \in Seq(Fd) /\ Distinct(jobs) /\ f \notin Elements(jobs)
    BY DEF IInv, TypeInv, TypeOK, HandOver, OneOwner
  <2> QED
    BY <2>1, AppendElements, AppendDistinct DEF addJob
<1>2. co[f] \in Suspended
  BY DEF IInv, HandOver, StepFitsCoroutine, Armed, Suspended
<1>3. OneOwner'
  BY <1>1 DEF IInv, HandOver, OneOwner, Armed
<1>4. StepFitsCoroutine'
  BY <1>1, <1>2 DEF IInv, HandOver, StepFitsCoroutine
<1>5. WorkerFits' /\ ClosedIsUnused'
  BY DEF IInv, HandOver, WorkerFits, ClosedIsUnused
<1> QED
  BY <1>3, <1>4, <1>5 DEF HandOver

(* A read event that finds the connection closed becomes a request.         *)
LEMMA ClosedEventHandOver ==
    ASSUME IInv, NEW f \in Stream,
           f \in readArmed,
           readArmed' = readArmed \ {f},
           requestChange("ExternallyClosed", f),
           UNCHANGED <<co, writeArmed, applying, jobs, held, stage, task, open>>
    PROVE  HandOver'
<1> DEFINE u == [op |-> "ExternallyClosed", fd |-> f]
<1>1. /\ u \in Update /\ f \in Fd
      /\ f \notin Descriptors(updates) \union Descriptors(applying)
      /\ co[f] \in AwaitsRead
  BY DEF IInv, HandOver, OneOwner, StepFitsCoroutine, Armed, Update, Fd
<1>2. /\ Elements(updates') = Elements(updates) \union {u}
      /\ Descriptors(updates') = Descriptors(updates) \union {f}
      /\ DistinctFd(updates')
  BY <1>1, AppendUpdate
     DEF IInv, TypeInv, TypeOK, HandOver, OneOwner, requestChange
<1>3. OneOwner'
  BY <1>1, <1>2 DEF IInv, HandOver, OneOwner, Armed
<1>4. StepFitsCoroutine'
  BY <1>1, <1>2, PointsOfCases DEF IInv, HandOver, StepFitsCoroutine
<1>5. WorkerFits' /\ ClosedIsUnused'
  BY <1>1, <1>2 DEF IInv, HandOver, WorkerFits, ClosedIsUnused, AwaitsRead
<1> QED
  BY <1>3, <1>4, <1>5 DEF HandOver

(* The swap of processUpdateRequest().                                      *)
LEMMA SwapHandOver ==
    ASSUME IInv, applying = <<>>, applying' = updates, updates' = <<>>,
           UNCHANGED <<co, readArmed, writeArmed, jobs, held, stage, task, open>>
    PROVE  HandOver'
<1>1. /\ Elements(<<>>) = {} /\ Descriptors(<<>>) = {} /\ DistinctFd(<<>>)
  BY EmptyElements DEF Descriptors
<1>2. OneOwner'
  BY <1>1 DEF IInv, HandOver, OneOwner, Armed
<1>3. StepFitsCoroutine'
  BY <1>1 DEF IInv, HandOver, StepFitsCoroutine
<1>4. WorkerFits' /\ ClosedIsUnused'
  BY <1>1 DEF IInv, HandOver, WorkerFits, ClosedIsUnused
<1> QED
  BY <1>2, <1>3, <1>4 DEF HandOver

(* What is known of the change being applied and of those after it.         *)
LEMMA AppliedUpdate ==
    ASSUME IInv, applying # <<>>
    PROVE  LET u == Head(applying) IN
           /\ u \in Update /\ u.fd \in Fd
           /\ co[u.fd] \in PointsOf(u.op)
           /\ u.fd \in Stream => (u.fd \in open)
           /\ Elements(Tail(applying)) \subseteq Elements(applying)
           /\ Descriptors(Tail(applying)) \subseteq Descriptors(applying)
           /\ DistinctFd(Tail(applying))
           /\ u.fd \notin Descriptors(Tail(applying)) \union Descriptors(updates)
           /\ u.fd \notin Armed \union Elements(jobs)
           /\ \A w \in Worker : held[w] # u.fd
<1> DEFINE u == Head(applying)
<1>1. applying \in Seq(Update) /\ DistinctFd(applying)
  BY DEF IInv, TypeInv, TypeOK, HandOver, OneOwner
<1>2. /\ u \in Update /\ u \in Elements(applying) /\ u.fd \in Descriptors(applying)
      /\ Elements(Tail(applying)) \subseteq Elements(applying)
      /\ Descriptors(Tail(applying)) \subseteq Descriptors(applying)
      /\ DistinctFd(Tail(applying))
      /\ u.fd \notin Descriptors(Tail(applying))
  BY <1>1, TailUpdate
<1>3. u.fd \in Fd
  BY <1>2 DEF Update
<1>4. co[u.fd] \in PointsOf(u.op)
  BY <1>2 DEF IInv, HandOver, StepFitsCoroutine
<1>5. /\ u.fd \notin Descriptors(updates) \union Armed \union Elements(jobs)
      /\ \A w \in Worker : held[w] # u.fd
  BY <1>2 DEF IInv, HandOver, OneOwner
<1>6. u.fd \in Stream => (u.fd \in open)
  BY <1>2 DEF IInv, HandOver, ClosedIsUnused
<1> QED
  BY <1>2, <1>3, <1>4, <1>5, <1>6

(* When the coroutine of one descriptor moves, the steps pending for the    *)
(* others still fit theirs.                                                 *)
LEMMA OthersFit ==
    ASSUME IInv, NEW f \in Fd, \A g \in Fd : g # f => co'[g] = co[g]
    PROVE  /\ \A g \in readArmed \ {f} : co'[g] \in AwaitsRead
           /\ \A g \in writeArmed \ {f} : co'[g] = "writing"
           /\ \A g \in Elements(jobs) \ {f} : co'[g] \in Suspended
           /\ \A w \in Worker : held[w] # f =>
                /\ stage[w] \in {"taken", "counted"}
                        => co'[held[w]] \in Suspended
                /\ stage[w] \in {"yielded", "settled"}
                        => co'[held[w]] \in PointsOf(Asked(task[w]))
           /\ \A u \in Elements(updates) \union Elements(applying) :
                u.fd # f => co'[u.fd] \in PointsOf(u.op)
<1>1. /\ readArmed \subseteq Fd /\ writeArmed \subseteq Fd
      /\ Elements(jobs) \subseteq Fd
      /\ \A w \in Worker : stage[w] # "idle" => held[w] \in Fd
  BY ElementsOf DEF IInv, TypeInv, TypeOK, Fd
<1>2. \A u \in Elements(updates) \union Elements(applying) : u.fd \in Fd
  <2>1. Elements(updates) \subseteq Update /\ Elements(applying) \subseteq Update
    BY ElementsOf DEF IInv, TypeInv, TypeOK
  <2> QED
    BY <2>1 DEF Update
<1>3. HandOver
  BY DEF IInv
<1>4. \A g \in readArmed \ {f} : co'[g] \in AwaitsRead
  BY <1>1, <1>3 DEF HandOver, StepFitsCoroutine
<1>5. \A g \in writeArmed \ {f} : co'[g] = "writing"
  BY <1>1, <1>3 DEF HandOver, StepFitsCoroutine
<1>6. \A g \in Elements(jobs) \ {f} : co'[g] \in Suspended
  BY <1>1, <1>3 DEF HandOver, StepFitsCoroutine
<1>7. \A w \in Worker : held[w] # f =>
        /\ stage[w] \in {"taken", "counted"} => co'[held[w]] \in Suspended
        /\ stage[w] \in {"yielded", "settled"}
                => co'[held[w]] \in PointsOf(Asked(task[w]))
  BY <1>1, <1>3 DEF HandOver, StepFitsCoroutine, WorkerFits
<1>8. \A u \in Elements(updates) \union Elements(applying) :
        u.fd # f => co'[u.fd] \in PointsOf(u.op)
  BY <1>2, <1>3 DEF HandOver, StepFitsCoroutine
<1> QED
  BY <1>4, <1>5, <1>6, <1>7, <1>8

(* A change that moves its coroutine: the descriptor has no other step.  It *)
(* covers the changes that create and erase an entry; `armed` says whether  *)
(* the read event is added afterwards.                                      *)
LEMMA ApplyMoves ==
    ASSUME IInv, applying # <<>>,
           NEW f, f = Head(applying).fd,
           NEW rest \in Seq(Update),
           rest = Tail(applying) \/ rest = <<>>,
           applying' = rest,
           \A g \in Fd : g # f => co'[g] = co[g],
           readArmed' \subseteq readArmed \union {f},
           f \in readArmed' => co'[f] \in AwaitsRead,
           writeArmed' \subseteq writeArmed,
           open' \subseteq open, open \ {f} \subseteq open',
           f \in Stream \ open' => co'[f] = "none",
           UNCHANGED <<updates, jobs, held, stage, task>>
    PROVE  HandOver'
<1>1. /\ f \in Fd
      /\ f \notin Descriptors(updates)
      /\ f \notin Armed \union Elements(jobs)
      /\ \A w \in Worker : held[w] # f
  BY AppliedUpdate
<1>2. /\ Elements(rest) \subseteq Elements(applying)
      /\ Descriptors(rest) \subseteq Descriptors(applying)
      /\ DistinctFd(rest)
      /\ f \notin Descriptors(rest)
  <2>1. CASE rest = Tail(applying)
    BY <2>1, AppliedUpdate
  <2>2. CASE rest = <<>>
    BY <2>2, EmptyElements DEF Descriptors
  <2> QED
    BY <2>1, <2>2
<1>3. \A u \in Elements(updates) \union Elements(rest) : u.fd # f
  BY <1>1, <1>2 DEF Descriptors
<1>4. OneOwner'
  BY <1>1, <1>2 DEF IInv, HandOver, OneOwner, Armed
<1>5. StepFitsCoroutine' /\ WorkerFits'
  <2>1. \A g \in readArmed' : co'[g] \in AwaitsRead
    BY <1>1, OthersFit
  <2>2. \A g \in writeArmed' : co'[g] = "writing"
    BY <1>1, OthersFit DEF Armed
  <2>3. \A g \in Elements(jobs) : co'[g] \in Suspended
    BY <1>1, OthersFit
  <2>4. \A u \in Elements(updates) \union Elements(rest) : co'[u.fd] \in PointsOf(u.op)
    BY <1>1, <1>2, <1>3, OthersFit
  <2>5. \A w \in Worker :
            /\ stage[w] \in {"taken", "counted"} => co'[held[w]] \in Suspended
            /\ stage[w] \in {"yielded", "settled"}
                    => co'[held[w]] \in PointsOf(Asked(task[w]))
    BY <1>1, OthersFit
  <2> QED
    BY <2>1, <2>2, <2>3, <2>4, <2>5 DEF StepFitsCoroutine, WorkerFits
<1>6. ClosedIsUnused'
  BY <1>1, <1>2 DEF IInv, HandOver, ClosedIsUnused, Fd
<1> QED
  BY <1>4, <1>5, <1>6 DEF HandOver

(* A change that adds an event for a coroutine that stays where it is.      *)
LEMMA ApplyArms ==
    ASSUME IInv, applying # <<>>,
           NEW f, f = Head(applying).fd,
           applying' = Tail(applying),
           \/ co[f] \in AwaitsRead /\ readArmed' \subseteq readArmed \union {f}
              /\ writeArmed' = writeArmed
           \/ co[f] = "writing" /\ writeArmed' \subseteq writeArmed \union {f}
              /\ readArmed' = readArmed,
           UNCHANGED <<co, updates, jobs, held, stage, task, open>>
    PROVE  HandOver'
<1>1. /\ f \in Fd
      /\ Elements(Tail(applying)) \subseteq Elements(applying)
      /\ Descriptors(Tail(applying)) \subseteq Descriptors(applying)
      /\ DistinctFd(Tail(applying))
      /\ f \notin Descriptors(Tail(applying)) \union Descriptors(updates)
      /\ f \notin Armed \union Elements(jobs)
      /\ \A w \in Worker : held[w] # f
  BY AppliedUpdate
<1>2. OneOwner'
  BY <1>1 DEF IInv, HandOver, OneOwner, Armed
<1>3. StepFitsCoroutine'
  BY <1>1 DEF IInv, HandOver, StepFitsCoroutine
<1>4. WorkerFits' /\ ClosedIsUnused'
  BY <1>1 DEF IInv, HandOver, WorkerFits, ClosedIsUnused
<1> QED
  BY <1>2, <1>3, <1>4 DEF HandOver

(* The main thread applies one change.                                      *)
LEMMA ApplyHandOver ==
    ASSUME IInv, ApplyUpdate
    PROVE  HandOver'
<1> DEFINE u == Head(applying)
           f == u.fd
<1>1. /\ applying # <<>>
      /\ f \in Fd /\ co[f] \in PointsOf(u.op)
      /\ f \in Stream => (f \in open)
      /\ Tail(applying) \in Seq(Update) /\ <<>> \in Seq(Update)
      /\ co \in [Fd -> Point] /\ open \subseteq Stream
  <2>1. applying # <<>>
    BY DEF ApplyUpdate, Applies, ApplyCreate, ApplyRestoreRead, ApplyRestoreWrite,
         ApplyRemove, ApplyExternallyClosed, EscapeExternallyClosed
  <2>2. Tail(applying) \in Seq(Update)
    BY <2>1, TailUpdate DEF IInv, TypeInv, TypeOK
  <2> QED
    BY <2>1, <2>2, AppliedUpdate DEF IInv, TypeInv, TypeOK
<1>2. CASE ApplyCreate
  <2>1. /\ applying' = Tail(applying)
        /\ co' = [co EXCEPT ![f] = "wait"]
        /\ readArmed' = readArmed \union {f}
        /\ UNCHANGED <<writeArmed, updates, jobs, held, stage, task, open>>
    BY <1>2 DEF ApplyCreate, Applies, workerVars, socketVars
  <2> QED
    BY <1>1, <2>1, ApplyMoves DEF AwaitsRead
<1>3. CASE ApplyRestoreRead
  <2>1. /\ u.op = "RestoreRead" /\ applying' = Tail(applying)
        /\ readArmed' \subseteq readArmed \union {f}
        /\ UNCHANGED <<writeArmed, co, updates, jobs, held, stage, task, open>>
    BY <1>3 DEF ApplyRestoreRead, Applies, eventVars, workerVars, socketVars
  <2> QED
    BY <1>1, <2>1, ApplyArms, PointsOfCases
<1>4. CASE ApplyRestoreWrite
  <2>1. /\ u.op = "RestoreWrite" /\ applying' = Tail(applying)
        /\ writeArmed' \subseteq writeArmed \union {f}
        /\ UNCHANGED <<readArmed, co, updates, jobs, held, stage, task, open>>
    BY <1>4 DEF ApplyRestoreWrite, Applies, workerVars, socketVars
  <2> QED
    BY <1>1, <2>1, ApplyArms, PointsOfCases
<1>5. CASE ApplyRemove \/ ApplyExternallyClosed
  <2>1. /\ applying' = Tail(applying)
        /\ co' = [co EXCEPT ![f] = "none"]
        /\ readArmed' = readArmed \ {f} /\ writeArmed' = writeArmed \ {f}
        /\ open' = open \ {f}
        /\ UNCHANGED <<updates, jobs, held, stage, task>>
    BY <1>5 DEF ApplyRemove, ApplyExternallyClosed, Applies, Erase, workerVars
  <2> QED
    BY <1>1, <2>1, ApplyMoves
<1>6. CASE EscapeExternallyClosed
  <2>1. /\ applying' = <<>>
        /\ co' = [co EXCEPT ![f] = "done"]
        /\ UNCHANGED <<readArmed, writeArmed, open, updates, jobs, held, stage, task>>
    BY <1>6 DEF EscapeExternallyClosed, eventVars, workerVars, socketVars
  <2>2. f \notin readArmed
    BY <1>1, AppliedUpdate DEF Armed
  <2> QED
    BY <1>1, <2>1, <2>2, ApplyMoves
<1> QED
  BY <1>2, <1>3, <1>4, <1>5, <1>6 DEF ApplyUpdate

(* A worker pops the oldest job.                                            *)
LEMMA TakeJobHandOver ==
    ASSUME IInv, NEW w \in Worker, TakeJob(w)
    PROVE  HandOver'
<1> DEFINE f == Head(jobs)
<1>1. /\ jobs \in Seq(Fd) /\ jobs # <<>> /\ Distinct(jobs)
      /\ jobs' = Tail(jobs)
      /\ held' = [held EXCEPT ![w] = f]
      /\ stage' = [stage EXCEPT ![w] = "taken"]
      /\ held \in [Worker -> Fd \union {None}] /\ stage \in [Worker -> Stage]
      /\ UNCHANGED <<co, readArmed, writeArmed, updates, applying, task, open>>
  BY DEF IInv, TypeInv, TypeOK, HandOver, OneOwner, TakeJob, storeVars, eventVars,
         socketVars
<1>2. /\ f \in Elements(jobs)
      /\ Elements(jobs') = Elements(jobs) \ {f}
      /\ Distinct(jobs')
  BY <1>1, TailElements, TailDistinct
<1>3. /\ f \notin Armed \union Descriptors(updates) \union Descriptors(applying)
      /\ \A v \in Worker : held[v] # f
      /\ co[f] \in Suspended
  BY <1>2 DEF IInv, HandOver, OneOwner, StepFitsCoroutine
<1> HIDE DEF f
<1>4. OneOwner'
  BY <1>1, <1>2, <1>3 DEF IInv, HandOver, OneOwner, Armed
<1>5. StepFitsCoroutine'
  BY <1>1, <1>2, <1>3 DEF IInv, HandOver, StepFitsCoroutine
<1>6. WorkerFits' /\ ClosedIsUnused'
  BY <1>1 DEF IInv, HandOver, WorkerFits, ClosedIsUnused
<1> QED
  BY <1>4, <1>5, <1>6 DEF HandOver

(* What a worker holds while it runs a job.                                 *)
LEMMA HeldDescriptor ==
    ASSUME IInv, NEW w \in Worker, stage[w] # "idle"
    PROVE  /\ held[w] \in Fd /\ held[w] # None
           /\ held[w] \notin Armed \union Elements(jobs)
           /\ held[w] \notin Descriptors(updates) \union Descriptors(applying)
           /\ \A v \in Worker : held[v] = held[w] => v = w
           /\ co[held[w]] # "none"
           /\ held[w] \in Stream => held[w] \in open
<1>1. held[w] \in Fd /\ held[w] # None
  BY FdAssumption DEF IInv, TypeInv, TypeOK
<1>2. co[held[w]] # "none"
  BY <1>1, OwnedIsOpen
<1> QED
  BY <1>1, <1>2 DEF IInv, HandOver, OneOwner, ClosedIsUnused

(* The coroutine a worker resumes reaches its next yield.                   *)
LEMMA YieldHandOver ==
    ASSUME IInv, NEW w \in Worker, stage[w] = "counted",
           NEW p \in Point, NEW t \in TaskYieldState,
           Yields(w, p, t), p \in PointsOf(Asked(t)), p # "none",
           UNCHANGED <<updates, open>>
    PROVE  HandOver'
<1> DEFINE f == held[w]
<1>1. /\ f \in Fd /\ f # None
      /\ f \notin Armed \union Elements(jobs)
      /\ f \notin Descriptors(updates) \union Descriptors(applying)
      /\ \A v \in Worker : held[v] = f => v = w
      /\ f \in Stream => f \in open
  BY HeldDescriptor
<1>2. /\ co' = [co EXCEPT ![f] = p]
      /\ task' = [task EXCEPT ![w] = t]
      /\ stage' = [stage EXCEPT ![w] = "yielded"]
      /\ UNCHANGED <<held, applying, readArmed, writeArmed, jobs>>
  BY DEF Yields, eventVars
<1>3. co \in [Fd -> Point] /\ stage \in [Worker -> Stage]
      /\ task \in [Worker -> TaskYieldState]
  BY DEF IInv, TypeInv, TypeOK
<1> HIDE DEF f
<1>4. co'[f] = p /\ \A g \in Fd : g # f => co'[g] = co[g]
  BY <1>1, <1>2, <1>3
<1>5. OneOwner'
  BY <1>2 DEF IInv, HandOver, OneOwner, Armed
<1>6. \A u \in Elements(updates) \union Elements(applying) : u.fd # f
  BY <1>1 DEF Descriptors
<1>7. /\ \A g \in readArmed : co'[g] \in AwaitsRead
      /\ \A g \in writeArmed : co'[g] = "writing"
      /\ \A g \in Elements(jobs) : co'[g] \in Suspended
      /\ \A u \in Elements(updates) \union Elements(applying) :
            co'[u.fd] \in PointsOf(u.op)
  BY <1>1, <1>4, <1>6, OthersFit DEF Armed
<1>8. \A v \in Worker : v # w =>
        /\ stage[v] \in {"taken", "counted"} => co'[held[v]] \in Suspended
        /\ stage[v] \in {"yielded", "settled"}
                => co'[held[v]] \in PointsOf(Asked(task[v]))
  BY <1>1, <1>4, OthersFit
<1>9. \A v \in Worker : v # w => stage'[v] = stage[v] /\ task'[v] = task[v]
  BY <1>2, <1>3
<1>10. stage'[w] = "yielded" /\ task'[w] = t /\ held'[w] = f
  BY <1>2, <1>3 DEF f
<1>11. StepFitsCoroutine'
  <2>1. \A v \in Worker :
            stage'[v] \in {"taken", "counted"} => co'[held'[v]] \in Suspended
    BY <1>2, <1>8, <1>9, <1>10
  <2> QED
    BY <1>2, <1>7, <2>1 DEF StepFitsCoroutine
<1>12. WorkerFits'
  <2>1. ASSUME NEW v \in Worker, stage'[v] \in {"yielded", "settled"}
        PROVE  co'[held'[v]] \in PointsOf(Asked(task'[v]))
    BY <1>2, <1>4, <1>8, <1>9, <1>10, <2>1
  <2> QED
    BY <2>1 DEF WorkerFits
<1>13. ClosedIsUnused'
  BY <1>1, <1>2, <1>4 DEF IInv, HandOver, ClosedIsUnused, Fd
<1> QED
  BY <1>5, <1>11, <1>12, <1>13 DEF HandOver

(* The accept loop hands a new connection to the store, then yields.        *)
LEMMA AcceptHandOver ==
    ASSUME IInv, NEW w \in Worker, stage[w] = "counted", held[w] \in Listener,
           NEW g \in Stream \ open,
           Yields(w, "accepting", "WaitForMore"),
           open' = open \union {g},
           requestChange("CreateStream", g)
    PROVE  HandOver'
<1> DEFINE l == held[w]
           u == [op |-> "CreateStream", fd |-> g]
<1>1. /\ l \in Fd /\ l # None /\ l # g /\ l \notin Stream
      /\ l \notin Armed \union Elements(jobs)
      /\ l \notin Descriptors(updates) \union Descriptors(applying)
      /\ \A v \in Worker : held[v] = l => v = w
  BY HeldDescriptor, FdAssumption
<1>2. /\ co' = [co EXCEPT ![l] = "accepting"]
      /\ task' = [task EXCEPT ![w] = "WaitForMore"]
      /\ stage' = [stage EXCEPT ![w] = "yielded"]
      /\ updates' = Append(updates, u)
      /\ UNCHANGED <<held, applying, readArmed, writeArmed, jobs>>
  BY DEF Yields, eventVars, requestChange
<1>3. co \in [Fd -> Point] /\ stage \in [Worker -> Stage]
      /\ task \in [Worker -> TaskYieldState]
      /\ g \in Fd /\ u \in Update /\ updates \in Seq(Update)
  BY DEF IInv, TypeInv, TypeOK, Fd, Update
<1>4. /\ co[g] = "none"
      /\ g \notin Descriptors(updates) \union Descriptors(applying)
  BY DEF IInv, HandOver, ClosedIsUnused
<1>5. g \notin Armed \union Elements(jobs) /\ \A v \in Worker : held[v] # g
  BY <1>3, <1>4, OwnedIsOpen
<1>6. /\ Elements(updates') = Elements(updates) \union {u}
      /\ Descriptors(updates') = Descriptors(updates) \union {g}
      /\ DistinctFd(updates')
  BY <1>2, <1>3, <1>4, AppendUpdate DEF IInv, HandOver, OneOwner
<1> HIDE DEF l
<1>7. co'[l] = "accepting" /\ \A h \in Fd : h # l => co'[h] = co[h]
  BY <1>1, <1>2, <1>3
<1>8. OneOwner'
  BY <1>2, <1>4, <1>5, <1>6 DEF IInv, HandOver, OneOwner, Armed
<1>9. \A v \in Elements(updates) \union Elements(applying) : v.fd # l
  BY <1>1 DEF Descriptors
<1>10. /\ \A h \in readArmed : co'[h] \in AwaitsRead
       /\ \A h \in writeArmed : co'[h] = "writing"
       /\ \A h \in Elements(jobs) : co'[h] \in Suspended
       /\ \A v \in Elements(updates) \union Elements(applying) :
            co'[v.fd] \in PointsOf(v.op)
  BY <1>1, <1>7, <1>9, OthersFit DEF Armed
<1>11. \A v \in Worker : v # w =>
        /\ stage'[v] = stage[v] /\ task'[v] = task[v]
        /\ stage[v] \in {"taken", "counted"} => co'[held[v]] \in Suspended
        /\ stage[v] \in {"yielded", "settled"}
                => co'[held[v]] \in PointsOf(Asked(task[v]))
  BY <1>1, <1>2, <1>3, <1>7, OthersFit
<1>12. stage'[w] = "yielded" /\ task'[w] = "WaitForMore" /\ held'[w] = l
  BY <1>2, <1>3 DEF l
<1>13. co'[u.fd] \in PointsOf(u.op)
  BY <1>1, <1>3, <1>4, <1>7, PointsOfCases
<1>14. StepFitsCoroutine'
  <2>1. \A v \in Worker :
            stage'[v] \in {"taken", "counted"} => co'[held'[v]] \in Suspended
    BY <1>2, <1>11, <1>12
  <2> QED
    BY <1>2, <1>6, <1>10, <1>13, <2>1 DEF StepFitsCoroutine
<1>15. WorkerFits'
  <2>1. "accepting" \in PointsOf(Asked("WaitForMore"))
    BY PointsOfCases DEF Asked, AwaitsRead
  <2>2. ASSUME NEW v \in Worker, stage'[v] \in {"yielded", "settled"}
        PROVE  co'[held'[v]] \in PointsOf(Asked(task'[v]))
    BY <1>2, <1>7, <1>11, <1>12, <2>1, <2>2
  <2> QED
    BY <2>2 DEF WorkerFits
<1>16. ClosedIsUnused'
  BY <1>1, <1>2, <1>6, <1>7 DEF IInv, HandOver, ClosedIsUnused, Fd
<1> QED
  BY <1>8, <1>14, <1>15, <1>16 DEF HandOver

(* A worker resumes the coroutine of its job.                               *)
LEMMA ResumeHandOver ==
    ASSUME IInv, NEW w \in Worker, ResumeCoRoutine(w)
    PROVE  HandOver'
<1> USE PointsOfCases DEF Asked, AwaitsRead, Point, TaskYieldState
<1>1. CASE Accept(w)
  <2>1. stage[w] = "counted" /\ held[w] \in Listener
        /\ Yields(w, "accepting", "WaitForMore")
    BY <1>1 DEF Accept
  <2>2. CASE UNCHANGED <<open, updates>>
    BY <2>1, <2>2, YieldHandOver
  <2>3. CASE ~(UNCHANGED <<open, updates>>)
    <3>1. PICK g \in Stream \ open :
            open' = open \union {g} /\ requestChange("CreateStream", g)
      BY <1>1, <2>3 DEF Accept
    <3> QED
      BY <2>1, <3>1, AcceptHandOver
  <2> QED
    BY <2>2, <2>3
<1>2. CASE AcceptNone(w)
  <2>1. stage[w] = "counted" /\ Yields(w, "accepting", "WaitForMore")
        /\ UNCHANGED <<updates, open>>
    BY <1>2 DEF AcceptNone, socketVars
  <2> QED
    BY <2>1, YieldHandOver
<1>3. CASE ReadBlocks(w)
  <2>1. stage[w] = "counted" /\ Yields(w, "reading", "RestoreRead")
        /\ UNCHANGED <<updates, open>>
    BY <1>3 DEF ReadBlocks, Resumes
  <2> QED
    BY <2>1, YieldHandOver
<1>4. CASE WriteBlocks(w)
  <2>1. stage[w] = "counted" /\ Yields(w, "writing", "RestoreWrite")
        /\ UNCHANGED <<updates, open>>
    BY <1>4 DEF WriteBlocks, Resumes
  <2> QED
    BY <2>1, YieldHandOver
<1>5. CASE HandlerMore(w)
  <2>1. stage[w] = "counted" /\ Yields(w, "more", "RestoreRead")
        /\ UNCHANGED <<updates, open>>
    BY <1>5 DEF HandlerMore, Resumes
  <2> QED
    BY <2>1, YieldHandOver
<1>6. CASE HandlerDone(w)
  <2>1. stage[w] = "counted" /\ Yields(w, "remove", "Remove")
        /\ UNCHANGED <<updates, open>>
    BY <1>6 DEF HandlerDone, Resumes
  <2> QED
    BY <2>1, YieldHandOver
<1>7. CASE HandlerThrows(w)
  <2>1. stage[w] = "counted" /\ Yields(w, "done", "Remove")
        /\ UNCHANGED <<updates, open>>
    BY <1>7 DEF HandlerThrows, Resumes
  <2> QED
    BY <2>1, YieldHandOver
<1> QED
  BY <1>1, <1>2, <1>3, <1>4, <1>5, <1>6, <1>7 DEF ResumeCoRoutine

(* A worker counts itself in or out: nothing changes hands.                 *)
LEMMA CountHandOver ==
    ASSUME IInv, NEW w \in Worker, incActive(w) \/ decActive(w)
    PROVE  HandOver'
<1>1. UNCHANGED <<co, readArmed, writeArmed, updates, applying, jobs, held, task,
                  open>>
  BY DEF incActive, decActive, eventVars, socketVars
<1>2. stage \in [Worker -> Stage]
  BY DEF IInv, TypeInv, TypeOK
<1>3. \A v \in Worker :
        /\ stage'[v] \in {"taken", "counted"} <=> stage[v] \in {"taken", "counted"}
        /\ stage'[v] \in {"yielded", "settled"}
                <=> stage[v] \in {"yielded", "settled"}
  BY <1>2 DEF incActive, decActive
<1> QED
  BY <1>1, <1>3
     DEF IInv, HandOver, OneOwner, StepFitsCoroutine, WorkerFits, ClosedIsUnused, Armed

(* A worker asks for what its coroutine yielded.                            *)
LEMMA PostHandOver ==
    ASSUME IInv, NEW w \in Worker, PostTask(w)
    PROVE  HandOver'
<1> DEFINE f == held[w]
           u == [op |-> Asked(task[w]), fd |-> f]
<1>1. /\ stage[w] = "settled" /\ task[w] \in TaskYieldState
      /\ held \in [Worker -> Fd \union {None}] /\ stage \in [Worker -> Stage]
      /\ task \in [Worker -> TaskYieldState] /\ updates \in Seq(Update)
  BY DEF PostTask, IInv, TypeInv, TypeOK
<1>2. /\ f \in Fd /\ f # None
      /\ f \notin Armed \union Elements(jobs)
      /\ f \notin Descriptors(updates) \union Descriptors(applying)
      /\ \A v \in Worker : held[v] = f => v = w
      /\ f \in Stream => f \in open
  BY <1>1, HeldDescriptor
<1>3. /\ updates' = Append(updates, u)
      /\ held' = [held EXCEPT ![w] = None]
      /\ stage' = [stage EXCEPT ![w] = "idle"]
      /\ task' = [task EXCEPT ![w] = "Remove"]
      /\ UNCHANGED <<co, applying, readArmed, writeArmed, jobs, open>>
  BY DEF PostTask, requestChange, Asked, eventVars, socketVars
<1>4. u \in Update /\ co[f] \in PointsOf(u.op)
  BY <1>1, <1>2 DEF Update, Asked, TaskYieldState, IInv, HandOver, WorkerFits
<1> HIDE DEF f, u
<1>5. u.fd = f
  BY DEF u
<1>6. /\ Elements(updates') = Elements(updates) \union {u}
      /\ Descriptors(updates') = Descriptors(updates) \union {f}
      /\ DistinctFd(updates')
  BY <1>1, <1>2, <1>3, <1>4, <1>5, AppendUpdate DEF IInv, HandOver, OneOwner
<1>7. held'[w] = None /\ \A v \in Worker : v # w => held'[v] = held[v] /\ held[v] # f
  BY <1>1, <1>2, <1>3
<1>8. None \notin Armed \union Elements(jobs) \union Descriptors(updates')
                        \union Descriptors(applying)
  <2>1. /\ Elements(jobs) \subseteq Fd /\ Armed \subseteq Fd
        /\ Elements(updates) \subseteq Update /\ Elements(applying) \subseteq Update
    BY ElementsOf DEF IInv, TypeInv, TypeOK, Armed, Fd
  <2>2. Descriptors(updates) \subseteq Fd /\ Descriptors(applying) \subseteq Fd
    BY <2>1 DEF Descriptors, Update
  <2> QED
    BY <1>2, <1>6, <2>1, <2>2, FdAssumption
<1>9. OneOwner'
  BY <1>2, <1>3, <1>6, <1>7, <1>8 DEF IInv, HandOver, OneOwner, Armed
<1>10. StepFitsCoroutine'
  BY <1>1, <1>3, <1>4, <1>5, <1>6, <1>7 DEF IInv, HandOver, StepFitsCoroutine
<1>11. WorkerFits' /\ ClosedIsUnused'
  BY <1>1, <1>2, <1>3, <1>6, <1>7 DEF IInv, HandOver, WorkerFits, ClosedIsUnused
<1> QED
  BY <1>9, <1>10, <1>11 DEF HandOver

(* Every step hands a descriptor over to exactly one next owner.            *)
LEMMA StepHandOver == IInv /\ [Next]_vars => HandOver'
<1> SUFFICES ASSUME IInv, [Next]_vars PROVE HandOver'
  OBVIOUS
<1>1. ASSUME NEW l \in Listener, Listen(l) PROVE HandOver'
  BY <1>1, ListenHandOver
<1>2. ASSUME NEW l \in Listener, handleServerEvent(l) PROVE HandOver'
  <2>1. /\ l \in Fd /\ l \in Armed
        /\ readArmed' = readArmed \ {l} /\ writeArmed' = writeArmed \ {l}
        /\ addJob(l)
        /\ UNCHANGED <<co, updates, applying, held, stage, task, open>>
    BY <1>2, FdAssumption
       DEF handleServerEvent, FireRead, Armed, Fd, workerVars, socketVars, IInv,
           TypeInv, TypeOK
  <2> QED
    BY <2>1, EventHandOver
<1>3. ASSUME NEW f \in Stream, handleStreamRead(f) PROVE HandOver'
  <2>1. /\ f \in Fd /\ f \in readArmed
        /\ readArmed' = readArmed \ {f} /\ writeArmed' = writeArmed
        /\ f \notin writeArmed
        /\ UNCHANGED <<co, applying, held, stage, task, open>>
    BY <1>3
       DEF handleStreamRead, FireRead, Fd, workerVars, socketVars, IInv, HandOver,
           OneOwner
  <2>2. CASE addJob(f) /\ UNCHANGED updates
    BY <2>1, <2>2, EventHandOver DEF Armed
  <2>3. CASE requestChange("ExternallyClosed", f) /\ UNCHANGED jobs
    BY <2>1, <2>3, ClosedEventHandOver
  <2> QED
    BY <1>3, <2>2, <2>3 DEF handleStreamRead
<1>4. ASSUME NEW f \in Stream, handleStreamWrite(f) PROVE HandOver'
  <2>1. /\ f \in Fd /\ f \in Armed
        /\ readArmed' = readArmed \ {f} /\ writeArmed' = writeArmed \ {f}
        /\ addJob(f)
        /\ UNCHANGED <<co, updates, applying, held, stage, task, open>>
    BY <1>4
       DEF handleStreamWrite, Armed, Fd, storeVars, workerVars, socketVars, IInv,
           HandOver, OneOwner
  <2> QED
    BY <2>1, EventHandOver
<1>5. CASE Tick
  <2>1. UNCHANGED <<co, readArmed, writeArmed, jobs, held, stage, task, open>>
        /\ applying = <<>>
    BY <1>5, Zenon DEF Tick, InLoop, eventVars, workerVars, socketVars
  <2>2. \/ UNCHANGED <<updates, applying>>
        \/ applying' = updates /\ updates' = <<>>
    BY <1>5, Zenon DEF Tick
  <2>3. CASE UNCHANGED <<updates, applying>>
    BY <2>1, <2>3, QuietHandOver DEF IInv
  <2>4. CASE applying' = updates /\ updates' = <<>>
    BY <2>1, <2>4, SwapHandOver
  <2> QED
    BY <2>2, <2>3, <2>4
<1>6. CASE ApplyUpdate
  BY <1>6, ApplyHandOver
<1>7. ASSUME NEW w \in Worker, TakeJob(w) \/ RunJob(w) PROVE HandOver'
  BY <1>7, TakeJobHandOver, CountHandOver, ResumeHandOver, PostHandOver DEF RunJob
<1>8. ASSUME \/ \E l \in Listener : Connect(l)
             \/ \E f \in Stream : PeerSends(f) \/ PeerCloses(f)
             \/ Run \/ StopHard \/ StopSoftReads \/ StopSoftSets
             \/ UNCHANGED vars
      PROVE  HandOver'
  <2>1. UNCHANGED <<co, readArmed, writeArmed, updates, applying, jobs, held,
                    stage, task, open>>
    BY <1>8, Zenon
       DEF Connect, PeerSends, PeerCloses, Run, StopHard, StopSoftReads,
           StopSoftSets, vars, storeVars, eventVars, workerVars, socketVars
  <2> QED
    BY <2>1, QuietHandOver DEF IInv
<1> QED
  BY <1>1, <1>2, <1>3, <1>4, <1>5, <1>6, <1>7, <1>8 DEF Next

(* The inductive invariant holds in every state.                            *)
LEMMA Invariance == Spec => []IInv
<1>1. Init => IInv
  BY InitType, InitHandOver DEF IInv
<1>2. IInv /\ [Next]_vars => IInv'
  BY StepType, StepHandOver DEF IInv
<1> QED
  BY <1>1, <1>2, PTL DEF Spec

(* Every descriptor has at most one next step, whatever the handlers do and *)
(* however many threads and connections there are: two threads never run    *)
(* the same coroutine, and the main thread never erases one that is in use. *)
THEOREM OneOwnerHolds == Spec => []OneOwner
BY Invariance, PTL DEF IInv, HandOver

(* The step pending for a descriptor always fits the point its coroutine is *)
(* suspended at; descriptors that the system reuses are not mixed up.       *)
THEOREM StepsFitCoroutines == Spec => []StepFitsCoroutine
BY Invariance, PTL DEF IInv, HandOver

-----------------------------------------------------------------------------
(* The instance brings a Cardinality of its own.                            *)
LEMMA SameCardinality == \A S : Abstract!Cardinality(S) = Cardinality(S)
BY DEF Abstract!Cardinality, Cardinality, Abstract!IsFiniteSet, IsFiniteSet

(* FlowOf() by cases: what a worker holds is not queued (OneOwner).         *)
LEMMA FlowCases ==
    ASSUME NEW f \in Fd
    PROVE  /\ f \in HeldByWorkers => FlowOf(f) = "running"
           /\ f \notin HeldByWorkers /\ f \in Elements(jobs) => FlowOf(f) = "ready"
           /\ f \notin HeldByWorkers \union Elements(jobs) =>
                /\ co[f] = "none" => FlowOf(f) = "closed"
                /\ co[f] \in {"remove", "done"} => FlowOf(f) = "ended"
                /\ co[f] \in Suspended => FlowOf(f) = "asleep"
BY DEF FlowOf, Suspended, AwaitsRead

(* A step that changes neither the coroutines nor who has them.             *)
LEMMA QuietFlow ==
    UNCHANGED <<co, jobs, held>> => UNCHANGED Flows
BY DEF Flows, FlowOf, HeldByWorkers

(* A step that changes the flow of one descriptor is a move of its flow.    *)
LEMMA OneMoves ==
    ASSUME NEW f \in Fd, NEW from, NEW to,
           FlowOf(f) \in from, FlowOf(f)' = to,
           \A g \in Fd \ {f} : FlowOf(g)' = FlowOf(g)
    PROVE  Abstract!Moves(f, from, to)
BY DEF Abstract!Moves, Flows

(* What a worker holds is not queued, and held by no other worker.          *)
LEMMA HeldApart ==
    ASSUME IInv
    PROVE  /\ HeldByWorkers \intersect Elements(jobs) = {}
           /\ HeldByWorkers \subseteq Fd
           /\ \A f \in Armed \union Descriptors(applying) :
                f \notin HeldByWorkers \union Elements(jobs)
BY DEF IInv, HandOver, OneOwner, TypeInv, TypeOK, HeldByWorkers

(* The server that has just been constructed has no flow of control.        *)
LEMMA InitFlow == Init => Abstract!Init
<1> SUFFICES ASSUME Init PROVE Abstract!Init
  OBVIOUS
<1>1. HeldByWorkers = {} /\ Elements(jobs) = {}
  BY EmptyElements DEF Init, HeldByWorkers
<1>2. \A f \in Fd : FlowOf(f) = "closed"
  BY <1>1, FlowCases DEF Init
<1> QED
  BY <1>2 DEF Abstract!Init, Flows

(* An event makes a job: its coroutine was asleep and is ready.             *)
LEMMA EventFlow ==
    ASSUME IInv, NEW f \in Fd, f \in Armed, addJob(f), UNCHANGED <<co, held>>
    PROVE  Abstract!Wake(f)
<1>1. f \notin HeldByWorkers \union Elements(jobs) /\ co[f] \in Suspended
  BY HeldApart DEF IInv, HandOver, StepFitsCoroutine, Armed, Suspended, AwaitsRead
<1>2. Elements(jobs') = Elements(jobs) \union {f} /\ HeldByWorkers' = HeldByWorkers
  BY AppendElements DEF addJob, HeldByWorkers, IInv, TypeInv, TypeOK
<1>3. FlowOf(f) = "asleep" /\ FlowOf(f)' = "ready"
  BY <1>1, <1>2, FlowCases DEF FlowOf
<1>4. \A g \in Fd \ {f} : FlowOf(g)' = FlowOf(g)
  BY <1>2 DEF FlowOf
<1> QED
  BY <1>3, <1>4, OneMoves DEF Abstract!Wake

(* A worker takes a job: fewer than all of them were running one.           *)
LEMMA TakeFlow ==
    ASSUME IInv, NEW w \in Worker, TakeJob(w)
    PROVE  \E f \in Fd : Abstract!Dispatch(f)
<1>0. PICK f \in Fd : f = Head(jobs)
  BY TailElements DEF TakeJob, IInv, TypeInv, TypeOK
<1> DEFINE Busy == {v \in Worker : held[v] # None}
           h == [v \in Busy |-> held[v]]
<1>1. /\ f \in Elements(jobs) /\ f \notin Elements(Tail(jobs))
      /\ Elements(jobs) = Elements(Tail(jobs)) \union {f}
  BY <1>0, TailElements, TailDistinct DEF TakeJob, IInv, HandOver, OneOwner, TypeInv, TypeOK
<1>2. held[w] = None /\ f # None
  BY FdAssumption DEF TakeJob, IInv, TypeInv
<1>3. HeldByWorkers' = HeldByWorkers \union {f} /\ f \notin HeldByWorkers
  <2>1. held'[w] = f /\ \A v \in Worker : v # w => held'[v] = held[v]
    BY <1>0 DEF TakeJob, IInv, TypeInv, TypeOK
  <2>2. f \notin HeldByWorkers
    BY <1>1, HeldApart
  <2> QED
    BY <1>2, <2>1, <2>2 DEF HeldByWorkers
<1>4. Elements(jobs') = Elements(Tail(jobs)) /\ co' = co
  BY DEF TakeJob, storeVars
<1>5. FlowOf(f) = "ready" /\ FlowOf(f)' = "running"
  BY <1>1, <1>3, FlowCases DEF FlowOf
<1>6. \A g \in Fd \ {f} : FlowOf(g)' = FlowOf(g)
  BY <1>1, <1>3, <1>4 DEF FlowOf
<1>7. Abstract!Moves(f, {"ready"}, "running")
  BY <1>1, <1>5, <1>6, OneMoves
<1>8. {g \in Fd : Flows[g] = "running"} = HeldByWorkers
  <2>1. \A g \in Fd : Flows[g] = "running" <=> g \in HeldByWorkers
    BY DEF Flows, FlowOf
  <2> QED
    BY <2>1, HeldApart
<1>9. Cardinality(HeldByWorkers) < Cardinality(Worker)
  <2>1. h \in Surjection(Busy, HeldByWorkers)
    BY DEF Surjection, HeldByWorkers
  <2>2. IsFiniteSet(Worker \ {w}) /\ Cardinality(Worker) \in Nat
        /\ Cardinality(Worker \ {w}) = Cardinality(Worker) - 1
    BY FdAssumption, FS_RemoveElement, FS_CardinalityType
  <2>3. Busy \in SUBSET (Worker \ {w})
    BY <1>2
  <2>4. IsFiniteSet(Busy) /\ Cardinality(Busy) <= Cardinality(Worker \ {w})
    BY <2>2, <2>3, FS_Subset
  <2>5. IsFiniteSet(HeldByWorkers) /\ Cardinality(HeldByWorkers) <= Cardinality(Busy)
    BY <2>1, <2>4, FS_Surjection
  <2>6. Cardinality(HeldByWorkers) \in Nat /\ Cardinality(Busy) \in Nat
    BY <2>4, <2>5, FS_CardinalityType
  <2> QED
    BY <2>2, <2>4, <2>5, <2>6
<1>10. Abstract!Dispatch(f)
  BY <1>7, <1>8, <1>9, SameCardinality DEF Abstract!Dispatch
<1> QED
  BY <1>10

(* The coroutine runs up to its next yield: its worker still has it.        *)
LEMMA ResumeFlow ==
    ASSUME IInv, NEW w \in Worker, ResumeCoRoutine(w)
    PROVE  UNCHANGED Flows
<1>1. /\ UNCHANGED <<jobs, held>>
      /\ \E p \in Point : co' = [co EXCEPT ![held[w]] = p]
      /\ held[w] \in Fd /\ held[w] # None
  BY FdAssumption
     DEF ResumeCoRoutine, Accept, AcceptNone, ReadBlocks, WriteBlocks, HandlerMore,
         HandlerDone, HandlerThrows, Resumes, Yields, Point, Fd
<1>2. HeldByWorkers' = HeldByWorkers /\ held[w] \in HeldByWorkers
  BY <1>1 DEF HeldByWorkers
<1>3. \A g \in Fd \ {held[w]} : co'[g] = co[g]
  BY <1>1 DEF IInv, TypeInv, TypeOK
<1>4. ASSUME NEW g \in Fd PROVE FlowOf(g)' = FlowOf(g)
  <2>1. CASE g = held[w]
    BY <1>2, <2>1 DEF FlowOf
  <2>2. CASE g # held[w]
    BY <1>1, <1>2, <1>3, <2>2 DEF FlowOf
  <2> QED
    BY <2>1, <2>2
<1> QED
  BY <1>4 DEF Flows

(* The worker has asked for the change: its coroutine sleeps or has ended.  *)
LEMMA PostFlow ==
    ASSUME IInv, NEW w \in Worker, PostTask(w)
    PROVE  \E f \in Fd : Abstract!Suspend(f) \/ Abstract!End(f)
<1>0. PICK f \in Fd : f = held[w]
  BY DEF PostTask, IInv, TypeInv, TypeOK
<1>1. f # None /\ stage[w] = "settled" /\ UNCHANGED <<co, jobs>>
  BY <1>0, FdAssumption DEF PostTask
<1>2. held'[w] = None /\ \A v \in Worker : v # w => held'[v] = held[v] /\ held[v] # f
  BY <1>0, <1>1 DEF PostTask, IInv, TypeInv, TypeOK, HandOver, OneOwner
<1>3. f \in HeldByWorkers /\ HeldByWorkers' = HeldByWorkers \ {f}
  BY <1>0, <1>1, <1>2 DEF HeldByWorkers
<1>4. f \notin Elements(jobs)
  BY <1>3, HeldApart
<1>5. co[f] \in Suspended \union {"remove", "done"}
  <2>1. co[f] \in PointsOf(Asked(task[w])) /\ task[w] \in TaskYieldState
    BY <1>0, <1>1 DEF IInv, HandOver, WorkerFits, TypeInv, TypeOK
  <2> QED
    BY <2>1, PointsOfCases DEF Asked, TaskYieldState, Suspended
<1>6. FlowOf(f) = "running"
  BY <1>1, <1>3, FlowCases
<1>7. \A g \in Fd \ {f} : FlowOf(g)' = FlowOf(g)
  BY <1>1, <1>3 DEF FlowOf
<1>8. FlowOf(f)' \in {"asleep", "ended"}
  BY <1>1, <1>3, <1>4, <1>5 DEF FlowOf, Suspended, AwaitsRead
<1>9. CASE FlowOf(f)' = "asleep"
  BY <1>1, <1>6, <1>7, <1>9, OneMoves DEF Abstract!Suspend
<1>10. CASE FlowOf(f)' = "ended"
  BY <1>1, <1>6, <1>7, <1>10, OneMoves DEF Abstract!End
<1> QED
  BY <1>8, <1>9, <1>10

(* A change applied by the main thread, to a coroutine nobody has.          *)
LEMMA ApplyFlow ==
    ASSUME IInv, ApplyUpdate
    PROVE  \/ \E f \in Fd : Abstract!Register(f) \/ Abstract!Close(f) \/ Abstract!End(f)
           \/ UNCHANGED Flows
<1>0. PICK f \in Fd : f = Head(applying).fd
  BY TailUpdate
     DEF Update, IInv, TypeInv, TypeOK, ApplyUpdate, Applies, ApplyCreate,
         ApplyRestoreRead, ApplyRestoreWrite, ApplyRemove, ApplyExternallyClosed,
         EscapeExternallyClosed
<1>1. /\ applying # <<>> /\ UNCHANGED <<jobs, held>>
      /\ \/ \E p \in Point : co' = [co EXCEPT ![f] = p]
         \/ co' = co
  BY <1>0
     DEF ApplyUpdate, Applies, ApplyCreate, ApplyRestoreRead, ApplyRestoreWrite,
         ApplyRemove, ApplyExternallyClosed, EscapeExternallyClosed, Erase, Point,
         workerVars
<1>2. Head(applying) \in Elements(applying) /\ f \in Descriptors(applying)
  BY <1>0, <1>1, TailUpdate DEF IInv, TypeInv, TypeOK, Update, Descriptors
<1>3. f \notin HeldByWorkers \union Elements(jobs) /\ co[f] \in PointsOf(Head(applying).op)
  BY <1>0, <1>2, HeldApart DEF IInv, HandOver, StepFitsCoroutine
<1>4. HeldByWorkers' = HeldByWorkers
  BY <1>1 DEF HeldByWorkers
<1>5. ASSUME NEW g \in Fd, g # f PROVE FlowOf(g)' = FlowOf(g)
  <2>1. co'[g] = co[g]
    BY <1>1, <1>5 DEF IInv, TypeInv, TypeOK
  <2> QED
    BY <1>1, <1>4, <2>1 DEF FlowOf
<1>6. CASE ApplyCreate
  <2>1. co[f] = "none" /\ co'[f] = "wait"
    BY <1>0, <1>3, <1>6, PointsOfCases
       DEF ApplyCreate, Applies, IInv, TypeInv, TypeOK
  <2>2. FlowOf(f) = "closed" /\ FlowOf(f)' = "asleep"
    BY <1>1, <1>3, <1>4, <2>1 DEF FlowOf
  <2>3. Abstract!Register(f)
    BY <1>5, <2>2, OneMoves DEF Abstract!Register
  <2> QED
    BY <2>3
<1>7. CASE ApplyRemove \/ ApplyExternallyClosed
  <2>1. co[f] \in AwaitsRead \union {"remove", "done"} /\ co'[f] = "none"
    BY <1>0, <1>3, <1>7, PointsOfCases
       DEF ApplyRemove, ApplyExternallyClosed, Applies, Erase, IInv, TypeInv, TypeOK
  <2>2. FlowOf(f) \in {"asleep", "ended"} /\ FlowOf(f)' = "closed"
    BY <1>1, <1>3, <1>4, <2>1 DEF FlowOf, AwaitsRead
  <2>3. Abstract!Close(f)
    BY <1>5, <2>2, OneMoves DEF Abstract!Close
  <2> QED
    BY <2>3
<1>8. CASE EscapeExternallyClosed
  <2>1. co[f] \in {"reading", "writing"} /\ co'[f] = "done"
    BY <1>0, <1>8 DEF EscapeExternallyClosed, IInv, TypeInv, TypeOK
  <2>2. FlowOf(f) = "asleep" /\ FlowOf(f)' = "ended"
    <3>1. FlowOf(f) = "asleep"
      BY <1>3, <2>1, FlowCases DEF Suspended, AwaitsRead
    <3> QED
      BY <1>1, <1>3, <1>4, <2>1, <3>1 DEF FlowOf
  <2>3. Abstract!End(f)
    BY <1>5, <2>2, OneMoves DEF Abstract!End
  <2> QED
    BY <2>3
<1>9. CASE ApplyRestoreRead \/ ApplyRestoreWrite
  BY <1>9, QuietFlow DEF ApplyRestoreRead, ApplyRestoreWrite, workerVars
<1> QED
  BY <1>6, <1>7, <1>8, <1>9 DEF ApplyUpdate

(* Each step is one move of one flow of control, or changes none.           *)
LEMMA StepFlow == IInv /\ [Next]_vars => [Abstract!Next]_Flows
<1> SUFFICES ASSUME IInv, [Next]_vars PROVE Abstract!Next \/ UNCHANGED Flows
  OBVIOUS
<1> USE DEF Abstract!Next
<1>1. ASSUME NEW l \in Listener, handleServerEvent(l) PROVE Abstract!Next
  BY <1>1, EventFlow DEF handleServerEvent, FireRead, Armed, Fd, workerVars
<1>2. ASSUME NEW f \in Stream, handleStreamRead(f)
      PROVE  Abstract!Next \/ UNCHANGED Flows
  <2>1. f \in Fd /\ f \in Armed /\ UNCHANGED <<co, held>>
    BY <1>2 DEF handleStreamRead, FireRead, Armed, Fd, workerVars
  <2>2. CASE addJob(f)
    BY <2>1, <2>2, EventFlow
  <2>3. CASE UNCHANGED jobs
    BY <2>1, <2>3, QuietFlow
  <2> QED
    BY <1>2, <2>2, <2>3 DEF handleStreamRead
<1>3. ASSUME NEW f \in Stream, handleStreamWrite(f) PROVE Abstract!Next
  BY <1>3, EventFlow DEF handleStreamWrite, Armed, Fd, workerVars, storeVars
<1>4. CASE ApplyUpdate
  BY <1>4, ApplyFlow
<1>5. ASSUME NEW w \in Worker, TakeJob(w) PROVE Abstract!Next
  BY <1>5, TakeFlow
<1>6. ASSUME NEW w \in Worker, ResumeCoRoutine(w) PROVE UNCHANGED Flows
  BY <1>6, ResumeFlow
<1>7. ASSUME NEW w \in Worker, PostTask(w) PROVE Abstract!Next
  BY <1>7, PostFlow
<1>8. ASSUME \/ \E l \in Listener : Listen(l) \/ Connect(l)
             \/ \E f \in Stream : PeerSends(f) \/ PeerCloses(f)
             \/ Run \/ StopHard \/ StopSoftReads \/ StopSoftSets \/ Tick
             \/ \E w \in Worker : incActive(w) \/ decActive(w)
             \/ UNCHANGED vars
      PROVE  UNCHANGED Flows
  <2>1. UNCHANGED <<co, jobs, held>>
    BY <1>8, Zenon
       DEF Listen, Connect, PeerSends, PeerCloses, Run, StopHard, StopSoftReads,
           StopSoftSets, Tick, incActive, decActive, vars, storeVars, workerVars
  <2> QED
    BY <2>1, QuietFlow
<1> QED
  BY <1>1, <1>2, <1>3, <1>4, <1>5, <1>6, <1>7, <1>8 DEF Next, RunJob

(* For any number of threads and descriptors the coroutine of a descriptor  *)
(* is one flow of control: woken before it runs, run by one thread, never   *)
(* by more than there are, gone only while it sleeps or when it has ended.  *)
THEOREM ServerIsConnection == Spec => ImplementsConnection
<1>1. Init => Abstract!Init
  BY InitFlow
<1>2. IInv /\ [Next]_vars => [Abstract!Next]_Flows
  BY StepFlow
<1> QED
  BY <1>1, <1>2, Invariance, PTL DEF Spec, ImplementsConnection, Abstract!Spec

-----------------------------------------------------------------------------
(* No coroutine is forgotten.  It needs that a listening socket never waits *)
(* for a write, for which its entry has no event.                           *)

ListenersAccept == \A l \in Listener : co[l] \in {"none", "wait", "accepting"}

(* A coroutine is resumed by its worker and changed by the main thread.     *)
LEMMA StepListeners == IInv /\ ListenersAccept /\ [Next]_vars => ListenersAccept'
<1> SUFFICES ASSUME IInv, ListenersAccept, [Next]_vars PROVE ListenersAccept'
  OBVIOUS
<1>1. ASSUME NEW w \in Worker, ResumeCoRoutine(w) PROVE ListenersAccept'
  <2>1. CASE Accept(w) \/ AcceptNone(w)
    <3>1. co' = [co EXCEPT ![held[w]] = "accepting"]
      BY <2>1 DEF Accept, AcceptNone, Yields
    <3> QED
      BY <3>1 DEF ListenersAccept, IInv, TypeInv, TypeOK, Fd
  <2>2. CASE Resumes(w)
    <3>1. held[w] \notin Listener /\ \E p \in Point : co' = [co EXCEPT ![held[w]] = p]
      BY <1>1, <2>2, FdAssumption
         DEF ResumeCoRoutine, Accept, AcceptNone, ReadBlocks, WriteBlocks,
             HandlerMore, HandlerDone, HandlerThrows, Resumes, Yields, Point
    <3> QED
      BY <3>1 DEF ListenersAccept, IInv, TypeInv, TypeOK, Fd
  <2> QED
    BY <1>1, <2>1, <2>2
       DEF ResumeCoRoutine, ReadBlocks, WriteBlocks, HandlerMore, HandlerDone,
           HandlerThrows
<1>2. CASE ApplyUpdate
  <2>1. \/ \E p \in {"none", "wait"} : co' = [co EXCEPT ![Head(applying).fd] = p]
        \/ /\ co[Head(applying).fd] \in {"reading", "writing"}
           /\ co' = [co EXCEPT ![Head(applying).fd] = "done"]
        \/ co' = co
    BY <1>2
       DEF ApplyUpdate, ApplyCreate, ApplyRestoreRead, ApplyRestoreWrite,
           ApplyRemove, ApplyExternallyClosed, EscapeExternallyClosed, Erase, Point
  <2> QED
    BY <2>1 DEF ListenersAccept, IInv, TypeInv, TypeOK, Fd
<1>3. ASSUME ~ApplyUpdate, \A w \in Worker : ~ResumeCoRoutine(w)
      PROVE  UNCHANGED co
  BY <1>3, Zenon
     DEF Next, vars, storeVars, Listen, Connect, handleServerEvent, FireRead,
         PeerSends, PeerCloses, handleStreamRead, handleStreamWrite, Run, StopHard,
         StopSoftReads, StopSoftSets, Tick, TakeJob, RunJob, incActive, decActive,
         PostTask
<1> QED
  BY <1>1, <1>2, <1>3 DEF ListenersAccept

(* What is known stays known: an event becomes a job, a job is held, what   *)
(* is held becomes a change, a change an event, or the entry goes.          *)
LEMMA StepKnown ==
    ASSUME "Throw" \notin Outcome, IInv, ListenersAccept, NoLostCoroutine, [Next]_vars
    PROVE  NoLostCoroutine'
<1> USE DEF NoLostCoroutine, Armed
<1>1. \A u \in Update : /\ Elements(Append(updates, u)) = Elements(updates) \union {u}
                        /\ Descriptors(Append(updates, u)) = Descriptors(updates) \union {u.fd}
  BY AppendUpdate DEF IInv, TypeInv, TypeOK
<1>2. \A f \in Fd : Elements(Append(jobs, f)) = Elements(jobs) \union {f}
  BY AppendElements DEF IInv, TypeInv, TypeOK
<1>3. ASSUME NEW f \in Fd, requestChange("ExternallyClosed", f) \/ requestChange("CreateServer", f)
                           \/ requestChange("CreateStream", f)
      PROVE  Descriptors(updates') = Descriptors(updates) \union {f}
  <2>1. \A op \in {"CreateServer", "CreateStream", "ExternallyClosed"} :
            [op |-> op, fd |-> f] \in Update
    BY DEF Update
  <2> QED
    BY <1>1, <1>3, <2>1 DEF requestChange
<1>4. ASSUME NEW l \in Listener, Listen(l) PROVE NoLostCoroutine'
  BY <1>3, <1>4 DEF Listen, Fd, eventVars, workerVars, HeldByWorkers
<1>5. ASSUME NEW l \in Listener, handleServerEvent(l) PROVE NoLostCoroutine'
  BY <1>2, <1>5 DEF handleServerEvent, FireRead, addJob, Fd, workerVars, HeldByWorkers
<1>6. ASSUME NEW f \in Stream, handleStreamRead(f) PROVE NoLostCoroutine'
  <2>1. /\ f \in Fd /\ readArmed' = readArmed \ {f}
        /\ UNCHANGED <<writeArmed, co, applying>> /\ HeldByWorkers' = HeldByWorkers
    BY <1>6 DEF handleStreamRead, FireRead, Fd, workerVars, HeldByWorkers
  <2>2. CASE addJob(f) /\ UNCHANGED updates
    BY <1>2, <2>1, <2>2 DEF addJob
  <2>3. CASE requestChange("ExternallyClosed", f) /\ UNCHANGED jobs
    BY <1>3, <2>1, <2>3
  <2> QED
    BY <1>6, <2>2, <2>3 DEF handleStreamRead
<1>7. ASSUME NEW f \in Stream, handleStreamWrite(f) PROVE NoLostCoroutine'
  BY <1>2, <1>7
     DEF handleStreamWrite, addJob, Fd, storeVars, workerVars, HeldByWorkers
<1>8. CASE Tick
  <2>1. \/ UNCHANGED <<updates, applying>>
        \/ applying' = updates /\ updates' = <<>>
    BY <1>8, Zenon DEF Tick
  <2>2. UNCHANGED <<co, readArmed, writeArmed, jobs, held>> /\ applying = <<>>
    BY <1>8, Zenon DEF Tick, InLoop, eventVars, workerVars
  <2>3. Descriptors(<<>>) = {}
    BY EmptyElements DEF Descriptors
  <2> QED
    BY <2>1, <2>2, <2>3 DEF HeldByWorkers
<1>9. CASE ApplyUpdate
  <2>0. PICK f \in Fd : f = Head(applying).fd
    BY <1>9, TailUpdate
       DEF Update, IInv, TypeInv, TypeOK, ApplyUpdate, Applies, ApplyCreate,
           ApplyRestoreRead, ApplyRestoreWrite, ApplyRemove, ApplyExternallyClosed,
           EscapeExternallyClosed
  <2>1. /\ ~EscapeExternallyClosed
        /\ applying # <<>> /\ applying' = Tail(applying) /\ UNCHANGED <<jobs, held, updates>>
    BY <1>9
       DEF ApplyUpdate, Applies, ApplyCreate, ApplyRestoreRead, ApplyRestoreWrite,
           ApplyRemove, ApplyExternallyClosed, EscapeExternallyClosed, workerVars
  <2>2. Descriptors(applying) = Descriptors(applying') \union {f}
    BY <2>0, <2>1, TailUpdate DEF IInv, TypeInv, TypeOK
  <2>3. /\ HeldByWorkers' = HeldByWorkers /\ Elements(jobs') = Elements(jobs)
        /\ Descriptors(updates') = Descriptors(updates)
    BY <2>1 DEF HeldByWorkers
  <2>4. CASE ApplyCreate
    <3>1. /\ f \in readArmed' /\ readArmed \subseteq readArmed' /\ UNCHANGED writeArmed
          /\ \A g \in Fd \ {f} : co'[g] = co[g]
      BY <2>0, <2>4 DEF ApplyCreate, IInv, TypeInv, TypeOK
    <3> QED
      BY <2>2, <2>3, <3>1
  <2>5. CASE ApplyRestoreRead
    BY <2>0, <2>2, <2>3, <2>5 DEF ApplyRestoreRead, eventVars
  <2>6. CASE ApplyRestoreWrite
    <3>1. co[f] = "writing" /\ f \notin Listener
      <4>1. Head(applying).op = "RestoreWrite" /\ Head(applying) \in Elements(applying)
        BY <2>1, <2>6, TailUpdate DEF ApplyRestoreWrite, Applies, IInv, TypeInv, TypeOK
      <4> QED
        BY <2>0, <4>1, PointsOfCases
           DEF IInv, HandOver, StepFitsCoroutine, ListenersAccept
    <3> QED
      BY <2>0, <2>2, <2>3, <2>6, <3>1 DEF ApplyRestoreWrite
  <2>7. CASE ApplyRemove \/ ApplyExternallyClosed
    <3>1. /\ co'[f] = "none" /\ \A g \in Fd \ {f} : co'[g] = co[g]
          /\ readArmed' = readArmed \ {f} /\ writeArmed' = writeArmed \ {f}
      BY <2>0, <2>7
         DEF ApplyRemove, ApplyExternallyClosed, Erase, IInv, TypeInv, TypeOK
    <3> QED
      BY <2>2, <2>3, <3>1
  <2> QED
    BY <1>9, <2>1, <2>4, <2>5, <2>6, <2>7 DEF ApplyUpdate
<1>10. ASSUME NEW w \in Worker, TakeJob(w) PROVE NoLostCoroutine'
  <2>1. Head(jobs) \in Fd /\ Elements(jobs) = Elements(Tail(jobs)) \union {Head(jobs)}
    BY <1>10, TailElements DEF TakeJob, IInv, TypeInv, TypeOK
  <2>2. held'[w] = Head(jobs) /\ held[w] = None
        /\ \A v \in Worker : v # w => held'[v] = held[v]
    BY <1>10 DEF TakeJob, IInv, TypeInv, TypeOK
  <2>3. HeldByWorkers' = HeldByWorkers \union {Head(jobs)}
    BY <2>1, <2>2, FdAssumption DEF HeldByWorkers
  <2> QED
    BY <1>10, <2>1, <2>3 DEF TakeJob, storeVars, eventVars
<1>11. ASSUME NEW w \in Worker, ResumeCoRoutine(w) PROVE NoLostCoroutine'
  <2>1. /\ UNCHANGED <<jobs, held, applying, readArmed, writeArmed>>
        /\ \E p \in Point : co' = [co EXCEPT ![held[w]] = p]
        /\ held[w] \in Fd
    BY <1>11
       DEF ResumeCoRoutine, Accept, AcceptNone, ReadBlocks, WriteBlocks, HandlerMore,
           HandlerDone, HandlerThrows, Resumes, Yields, Point, Fd, eventVars
  <2>2. held[w] \in HeldByWorkers /\ HeldByWorkers' = HeldByWorkers
    BY <2>1, FdAssumption DEF HeldByWorkers
  <2>3. \A g \in Fd \ {held[w]} : co'[g] = co[g]
    BY <2>1 DEF IInv, TypeInv, TypeOK
  <2>4. Descriptors(updates) \subseteq Descriptors(updates')
    <3>1. CASE Accept(w)
      BY <1>3, <3>1 DEF Accept, Fd
    <3>2. CASE ~Accept(w)
      BY <1>11, <3>2
         DEF ResumeCoRoutine, AcceptNone, ReadBlocks, WriteBlocks, HandlerMore,
             HandlerDone, HandlerThrows, Resumes
    <3> QED
      BY <3>1, <3>2
  <2> QED
    BY <2>1, <2>2, <2>3, <2>4
<1>12. ASSUME NEW w \in Worker, PostTask(w) PROVE NoLostCoroutine'
  <2>1. [op |-> IF task[w] = "WaitForMore" THEN "RestoreRead" ELSE task[w],
         fd |-> held[w]] \in Update
    BY <1>12 DEF PostTask, IInv, TypeInv, TypeOK, Update, TaskYieldState
  <2>2. Descriptors(updates') = Descriptors(updates) \union {held[w]}
    BY <1>1, <1>12, <2>1 DEF PostTask, requestChange
  <2>3. HeldByWorkers \subseteq HeldByWorkers' \union {held[w]}
    BY <1>12 DEF PostTask, HeldByWorkers, IInv, TypeInv, TypeOK
  <2> QED
    BY <1>12, <2>2, <2>3 DEF PostTask, eventVars
<1>13. ASSUME \/ \E l \in Listener : Connect(l)
              \/ \E f \in Stream : PeerSends(f) \/ PeerCloses(f)
              \/ Run \/ StopHard \/ StopSoftReads \/ StopSoftSets
              \/ \E w \in Worker : incActive(w) \/ decActive(w)
              \/ UNCHANGED vars
       PROVE  NoLostCoroutine'
  <2>1. UNCHANGED <<co, readArmed, writeArmed, updates, applying, jobs, held>>
    BY <1>13, Zenon
       DEF Connect, PeerSends, PeerCloses, Run, StopHard, StopSoftReads,
           StopSoftSets, incActive, decActive, vars, storeVars, eventVars, workerVars
  <2> QED
    BY <2>1 DEF HeldByWorkers
<1> QED
  BY <1>4, <1>5, <1>6, <1>7, <1>8, <1>9, <1>10, <1>11, <1>12, <1>13 DEF Next, RunJob

(* Every coroutine in the map has a next step, for any threads, connections *)
(* and bounds, if no handler throws: one that throws when its closed        *)
(* connection is torn down is forgotten (Store.cpp:187).                    *)
THEOREM NobodyIsForgotten == "Throw" \notin Outcome => (Spec => []NoLostCoroutine)
<1> SUFFICES ASSUME "Throw" \notin Outcome PROVE Spec => []NoLostCoroutine
  OBVIOUS
<1>1. Init => ListenersAccept /\ NoLostCoroutine
  BY DEF Init, ListenersAccept, NoLostCoroutine, Fd
<1>2. IInv /\ ListenersAccept /\ NoLostCoroutine /\ [Next]_vars
        => (ListenersAccept /\ NoLostCoroutine)'
  BY StepListeners, StepKnown
<1> QED
  BY <1>1, <1>2, Invariance, PTL DEF Spec

-----------------------------------------------------------------------------
(* The active count covers the requests in progress, and a soft stop waits  *)
(* for them.  The count is raised and lowered by two threads for one        *)
(* request, in places far apart; it is at least the size of two sets, and   *)
(* each step changes those by one element at most.                          *)

(* The connections suspended in a request, or between two of them.          *)
InRequest == {f \in Stream : co[f] \in {"reading", "writing", "more"}}

(* The workers whose incActive() is not yet taken back, or made over to the *)
(* connection.                                                              *)
Counting == {w \in Worker :
                \/ stage[w] = "counted"
                \/ stage[w] = "yielded" /\ task[w] \in {"Remove", "WaitForMore"}}

CountInv == openStreamCount >= Cardinality(InRequest) + Cardinality(Counting)

(* The invariant is the property.                                           *)
LEMMA CountIsCovered == CountInv <=> CountCoversRequests
BY DEF CountInv, CountCoversRequests, InProgress, InRequest, Counting

(* Both sets are finite.                                                    *)
LEMMA BothFinite ==
    /\ IsFiniteSet(InRequest) /\ Cardinality(InRequest) \in Nat
    /\ IsFiniteSet(Counting) /\ Cardinality(Counting) \in Nat
<1>1. IsFiniteSet(Stream) /\ InRequest \in SUBSET Stream /\ Counting \in SUBSET Worker
  <2>1. Stream \in SUBSET Fd
    BY DEF Fd
  <2> QED
    BY <2>1, FdAssumption, FS_Subset DEF InRequest, Counting
<1>2. IsFiniteSet(InRequest) /\ IsFiniteSet(Counting)
  BY <1>1, FdAssumption, FS_Subset
<1> QED
  BY <1>2, FS_CardinalityType

LEMMA InitCount == Init => CountInv
<1> SUFFICES ASSUME Init PROVE CountInv
  OBVIOUS
<1>1. InRequest = {} /\ Counting = {}
  BY DEF Init, InRequest, Counting, Fd
<1> QED
  BY <1>1, FS_EmptySet DEF Init, CountInv

(* A step that only shrinks both sets and leaves the count alone.           *)
LEMMA QuietCount ==
    ASSUME CountInv, openStreamCount \in Int, openStreamCount' = openStreamCount,
           InRequest' \subseteq InRequest, Counting' \subseteq Counting
    PROVE  CountInv'
<1>1. /\ Cardinality(InRequest') <= Cardinality(InRequest)
      /\ Cardinality(Counting') <= Cardinality(Counting)
      /\ Cardinality(InRequest') \in Nat /\ Cardinality(Counting') \in Nat
  BY BothFinite, FS_Subset, FS_CardinalityType
<1> QED
  BY <1>1, BothFinite DEF CountInv

(* incActive(): the worker counts itself.                                   *)
LEMMA IncCount ==
    ASSUME IInv, CountInv, NEW w \in Worker, incActive(w) PROVE CountInv'
<1>1. Counting' = Counting \union {w} /\ w \notin Counting
  BY DEF incActive, Counting, IInv, TypeInv, TypeOK
<1>2. InRequest' = InRequest /\ openStreamCount' = openStreamCount + 1
  BY DEF incActive, InRequest
<1>3. Cardinality(Counting') = Cardinality(Counting) + 1
  BY <1>1, BothFinite, FS_AddElement
<1> QED
  BY <1>2, <1>3, BothFinite DEF CountInv, IInv, TypeInv, TypeOK

(* decActive(): what is taken back is what the worker had counted.          *)
LEMMA DecCount ==
    ASSUME IInv, CountInv, NEW w \in Worker, decActive(w) PROVE CountInv'
<1>1. InRequest' = InRequest /\ openStreamCount \in Int
  BY DEF decActive, InRequest, IInv, TypeInv, TypeOK
<1>2. CASE w \in Counting
  <2>1. Counting' = Counting \ {w} /\ openStreamCount' = openStreamCount - 1
    BY <1>2 DEF decActive, Counting, IInv, TypeInv, TypeOK
  <2>2. Cardinality(Counting') = Cardinality(Counting) - 1
    BY <1>2, <2>1, BothFinite, FS_RemoveElement
  <2> QED
    BY <1>1, <2>1, <2>2, BothFinite DEF CountInv
<1>3. CASE w \notin Counting
  <2>1. Counting' = Counting /\ openStreamCount' = openStreamCount
    BY <1>3 DEF decActive, Counting, IInv, TypeInv, TypeOK
  <2> QED
    BY <1>1, <2>1, QuietCount
<1> QED
  BY <1>2, <1>3

(* A listening socket: its worker stays counted, no request is in progress. *)
LEMMA AcceptCount ==
    ASSUME IInv, CountInv, NEW w \in Worker, Accept(w) \/ AcceptNone(w)
    PROVE  CountInv'
<1>1. /\ held[w] \in Listener /\ held[w] \notin Stream
      /\ co' = [co EXCEPT ![held[w]] = "accepting"]
      /\ task' = [task EXCEPT ![w] = "WaitForMore"]
      /\ stage' = [stage EXCEPT ![w] = "yielded"]
      /\ stage[w] = "counted" /\ openStreamCount' = openStreamCount
  BY FdAssumption DEF Accept, AcceptNone, Yields
<1>2. InRequest' = InRequest
  BY <1>1 DEF InRequest, IInv, TypeInv, TypeOK, Fd
<1>3. Counting' = Counting
  BY <1>1 DEF Counting, IInv, TypeInv, TypeOK
<1> QED
  BY <1>1, <1>2, <1>3, QuietCount DEF IInv, TypeInv, TypeOK

(* A connection stays, or comes to be, in a request: its worker's count is  *)
(* made over to it, or taken back if the connection has one already.        *)
LEMMA SuspendCount ==
    ASSUME IInv, CountInv, NEW w \in Worker,
           ReadBlocks(w) \/ WriteBlocks(w) \/ HandlerMore(w)
    PROVE  CountInv'
<1>0. PICK f \in Stream : f = held[w]
  BY DEF ReadBlocks, WriteBlocks, HandlerMore, Resumes
<1>1. /\ \E p \in {"reading", "writing", "more"} : co' = [co EXCEPT ![f] = p]
      /\ \E t \in {"RestoreRead", "RestoreWrite"} : task' = [task EXCEPT ![w] = t]
      /\ stage' = [stage EXCEPT ![w] = "yielded"]
      /\ stage[w] = "counted"
      /\ openStreamCount' = IF co[f] \in {"reading", "writing"}
                            THEN openStreamCount - 1 ELSE openStreamCount
  BY <1>0 DEF ReadBlocks, WriteBlocks, HandlerMore, Resumes, Compensate, Yields
<1>2. InRequest' = InRequest \union {f}
  BY <1>1 DEF InRequest, IInv, TypeInv, TypeOK, Fd
<1>3. Counting' = Counting \ {w} /\ w \in Counting
  BY <1>1 DEF Counting, IInv, TypeInv, TypeOK
<1>4. Cardinality(Counting') = Cardinality(Counting) - 1
  BY <1>3, BothFinite, FS_RemoveElement
<1>5. Cardinality(InRequest') = IF f \in InRequest THEN Cardinality(InRequest)
                                                   ELSE Cardinality(InRequest) + 1
  BY <1>2, BothFinite, FS_AddElement
<1>6. co[f] \in {"reading", "writing"} => f \in InRequest
  BY DEF InRequest
<1> QED
  BY <1>1, <1>4, <1>5, <1>6, BothFinite DEF CountInv, IInv, TypeInv, TypeOK

(* A connection that ends: its own count goes, that of its worker stays.    *)
LEMMA EndCount ==
    ASSUME IInv, CountInv, NEW w \in Worker, HandlerDone(w) \/ HandlerThrows(w)
    PROVE  CountInv'
<1>0. PICK f \in Stream : f = held[w]
  BY DEF HandlerDone, HandlerThrows, Resumes
<1>1. /\ \E p \in {"remove", "done"} : co' = [co EXCEPT ![f] = p]
      /\ task' = [task EXCEPT ![w] = "Remove"]
      /\ stage' = [stage EXCEPT ![w] = "yielded"]
      /\ stage[w] = "counted"
      /\ openStreamCount' = IF co[f] \in {"reading", "writing"}
                            THEN openStreamCount - 1 ELSE openStreamCount
  BY <1>0 DEF HandlerDone, HandlerThrows, Resumes, Compensate, Yields
<1>2. InRequest' = InRequest \ {f}
  BY <1>1 DEF InRequest, IInv, TypeInv, TypeOK, Fd
<1>3. Counting' = Counting
  BY <1>1 DEF Counting, IInv, TypeInv, TypeOK
<1>4. Cardinality(InRequest') = IF f \in InRequest THEN Cardinality(InRequest) - 1
                                                   ELSE Cardinality(InRequest)
  BY <1>2, BothFinite, FS_RemoveElement
<1>5. co[f] \in {"reading", "writing"} => f \in InRequest
  BY DEF InRequest
<1> QED
  BY <1>1, <1>3, <1>4, <1>5, BothFinite DEF CountInv, IInv, TypeInv, TypeOK

(* The main thread resumes a closed connection to its end: a request it was *)
(* in is over and its count is taken back, with or without an exception.    *)
LEMMA ClosedCount ==
    ASSUME IInv, ListenersAccept, CountInv,
           ApplyExternallyClosed \/ EscapeExternallyClosed
    PROVE  CountInv'
<1>0. PICK f \in Fd : f = Head(applying).fd
  BY TailUpdate
     DEF Update, IInv, TypeInv, TypeOK, Applies, ApplyExternallyClosed,
         EscapeExternallyClosed
<1>1. /\ \E p \in {"none", "done"} : co' = [co EXCEPT ![f] = p]
      /\ openStreamCount' = IF co[f] \in {"reading", "writing"}
                            THEN openStreamCount - 1 ELSE openStreamCount
      /\ UNCHANGED workerVars
  BY <1>0 DEF ApplyExternallyClosed, EscapeExternallyClosed, Erase
<1>2. InRequest' = InRequest \ {f}
  BY <1>1 DEF InRequest, IInv, TypeInv, TypeOK, Fd
<1>3. Counting' = Counting
  BY <1>1 DEF Counting, workerVars
<1>4. Cardinality(InRequest') = IF f \in InRequest THEN Cardinality(InRequest) - 1
                                                   ELSE Cardinality(InRequest)
  BY <1>2, BothFinite, FS_RemoveElement
<1>5. co[f] \in {"reading", "writing"} => f \in InRequest
  BY DEF InRequest, ListenersAccept, Fd
<1> QED
  BY <1>1, <1>3, <1>4, <1>5, BothFinite DEF CountInv, IInv, TypeInv, TypeOK

(* The other changes end no request and begin none.                         *)
LEMMA ApplyCount ==
    ASSUME IInv, ListenersAccept, CountInv, ApplyUpdate PROVE CountInv'
<1>1. CASE ApplyExternallyClosed \/ EscapeExternallyClosed
  BY <1>1, ClosedCount
<1>2. CASE ApplyCreate \/ ApplyRemove \/ ApplyRestoreRead \/ ApplyRestoreWrite
  <2>1. /\ \/ \E p \in {"none", "wait"} : co' = [co EXCEPT ![Head(applying).fd] = p]
           \/ co' = co
        /\ UNCHANGED <<openStreamCount, stage, task>>
    BY <1>2 DEF ApplyCreate, ApplyRemove, ApplyRestoreRead, ApplyRestoreWrite,
                Erase, workerVars
  <2>2. InRequest' \subseteq InRequest /\ Counting' = Counting
    BY <2>1 DEF InRequest, Counting, IInv, TypeInv, TypeOK, Fd
  <2> QED
    BY <2>1, <2>2, QuietCount DEF IInv, TypeInv, TypeOK
<1> QED
  BY <1>1, <1>2 DEF ApplyUpdate

LEMMA StepCount ==
    IInv /\ ListenersAccept /\ CountInv /\ [Next]_vars => CountInv'
<1> SUFFICES ASSUME IInv, ListenersAccept, CountInv, [Next]_vars PROVE CountInv'
  OBVIOUS
<1>1. ASSUME NEW w \in Worker, RunJob(w) PROVE CountInv'
  <2>1. CASE PostTask(w)
    <3>1. InRequest' = InRequest /\ Counting' \subseteq Counting
      BY <2>1 DEF PostTask, InRequest, Counting, IInv, TypeInv, TypeOK
    <3> QED
      BY <2>1, <3>1, QuietCount DEF PostTask, IInv, TypeInv, TypeOK
  <2> QED
    BY <1>1, <2>1, IncCount, DecCount, AcceptCount, SuspendCount, EndCount
       DEF RunJob, ResumeCoRoutine
<1>2. ASSUME NEW w \in Worker, TakeJob(w) PROVE CountInv'
  <2>1. InRequest' = InRequest /\ Counting' \subseteq Counting
    BY <1>2 DEF TakeJob, storeVars, InRequest, Counting, IInv, TypeInv, TypeOK
  <2> QED
    BY <1>2, <2>1, QuietCount DEF TakeJob, storeVars, IInv, TypeInv, TypeOK
<1>3. CASE ApplyUpdate
  BY <1>3, ApplyCount
<1>4. ASSUME \/ \E l \in Listener : Listen(l) \/ Connect(l) \/ handleServerEvent(l)
             \/ \E f \in Stream : \/ PeerSends(f) \/ PeerCloses(f)
                                  \/ handleStreamRead(f) \/ handleStreamWrite(f)
             \/ Run \/ StopHard \/ StopSoftReads \/ StopSoftSets \/ Tick
             \/ UNCHANGED vars
      PROVE  CountInv'
  <2>1. UNCHANGED <<co, openStreamCount, stage, task>>
    BY <1>4, Zenon
       DEF Listen, Connect, handleServerEvent, FireRead, PeerSends, PeerCloses,
           handleStreamRead, handleStreamWrite, Run, StopHard, StopSoftReads,
           StopSoftSets, Tick, vars, storeVars, workerVars
  <2> QED
    BY <2>1 DEF CountInv, InRequest, Counting
<1> QED
  BY <1>1, <1>2, <1>3, <1>4 DEF Next

(* No listening socket is ever inside a request, and the count is covered.  *)
LEMMA CountInvariance == Spec => [](IInv /\ ListenersAccept /\ CountInv)
<1>1. Init => ListenersAccept
  BY DEF Init, ListenersAccept, Fd
<1>2. Init => CountInv
  BY InitCount
<1>3. IInv /\ ListenersAccept /\ [Next]_vars => ListenersAccept'
  BY StepListeners
<1>4. IInv /\ ListenersAccept /\ CountInv /\ [Next]_vars => CountInv'
  BY StepCount
<1> QED
  BY <1>1, <1>2, <1>3, <1>4, Invariance, PTL DEF Spec

(* The count a soft stop waits for never misses a request in progress, over *)
(* the increments, decrements and compensations of all threads.             *)
THEOREM CountCovers == Spec => []CountCoversRequests
<1>1. CountInv => CountCoversRequests
  BY CountIsCovered
<1> QED
  BY <1>1, CountInvariance, PTL

(* A loop that ends by a soft stop ends when no request is in progress      *)
(* (EventHandler.cpp:346-355), for any threads, connections and handlers.   *)
THEOREM SoftStopIsPatient == Spec => SoftStopWaits
<1> DEFINE Patient == phase = "looping" /\ phase' = "returned" /\ ~finished
                        => InProgress = 0
<1>1. IInv /\ CountInv /\ [Next]_vars => [Patient]_vars
  <2> SUFFICES ASSUME IInv, CountInv, Next, phase = "looping", phase' = "returned",
                      ~finished
               PROVE  InProgress = 0
    OBVIOUS
  <2>1. Tick
    BY Zenon
       DEF Next, Listen, Connect, handleServerEvent, FireRead, PeerSends, PeerCloses,
           handleStreamRead, handleStreamWrite, Run, StopHard, StopSoftReads,
           StopSoftSets, ApplyUpdate, ApplyCreate, ApplyRestoreRead,
           ApplyRestoreWrite, ApplyRemove, ApplyExternallyClosed,
           EscapeExternallyClosed, TakeJob, RunJob, incActive, ResumeCoRoutine,
           Accept, AcceptNone, ReadBlocks, WriteBlocks, HandlerMore, HandlerDone,
           HandlerThrows, Yields, decActive, PostTask, loopVars
  <2>2. openStreamCount = 0
    BY <2>1 DEF Tick
  <2>3. Cardinality(InRequest) = 0 /\ Cardinality(Counting) = 0
    BY <2>2, BothFinite DEF CountInv
  <2>4. InProgress = Cardinality(InRequest) + Cardinality(Counting)
    BY DEF InProgress, InRequest, Counting
  <2> QED
    BY <2>3, <2>4
<1> QED
  BY <1>1, CountInvariance, PTL DEF Spec, SoftStopWaits
=============================================================================

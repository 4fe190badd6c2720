---------------------------- MODULE NisseServer ----------------------------
(***************************************************************************)
(* The core of src/NisseServer: the Store (what exists), the EventHandler  *)
(* (which file descriptor becomes a job), the coroutines of Server (accept *)
(* loop and connection), and the worker threads that resume them.          *)
(*                                                                         *)
(* Three kinds of thread act.  The main thread runs libevent: it fires the *)
(* one-shot events and, every 10ms, the control timer ("Tick") that        *)
(* applies the changes the other threads asked for; only it touches the    *)
(* map.  The workers take jobs and resume coroutines.  Any thread may ask  *)
(* the server to listen or to stop.                                        *)
(*                                                                         *)
(* A coroutine is its suspension point.  What a handler does between two   *)
(* suspensions is data: it consumes requests that have arrived and ends up *)
(* blocked on a read or a write, finished, or with an exception.  The job  *)
(* queue is its abstract specification, a sequence (see JobQueue).         *)
(***************************************************************************)
EXTENDS Integers, Sequences, FiniteSets

CONSTANTS
    Listener,       \* the descriptors of the listening sockets
    Stream,         \* the descriptors accept() may return; closed ones are reused
    Worker,         \* the threads of the JobQueue
    None,           \* no descriptor: the worker has no job
    Outcome,        \* how Pynt::handleRequest() may leave a worker, reads apart
    MaxConnects,    \* bound: connections the clients open in all
    MaxRequests     \* bound: requests the clients send in all

Fd == Listener \union Stream

ASSUME FdAssumption ==
    /\ Listener \intersect Stream = {}
    /\ None \notin Fd
    /\ IsFiniteSet(Fd) /\ IsFiniteSet(Worker)

(* "More" and "Done" are PyntResult; "Block" is a write the socket cannot   *)
(* take; "Throw" is an exception that leaves handleRequest().               *)
ASSUME OutcomeAssumption == Outcome \subseteq {"More", "Done", "Block", "Throw"}

ASSUME BoundAssumption == MaxConnects \in Nat /\ MaxRequests \in Nat

VARIABLES
    co,             \* [Fd -> suspension point]: Store::data and its coroutines
    readArmed,      \* descriptors whose readEvent is added
    writeArmed,     \* descriptors whose writeEvent is added
    activated,      \* descriptors whose readEvent was activated by hand
    updates,        \* Store::updates
    applying,       \* processUpdateRequest()'s localUpdate, what is left of it
    openStreamCount,
    jobs,           \* the JobQueue
    held,           \* [Worker -> descriptor of the job it runs, or None]
    stage,          \* [Worker -> where it is in the lambda of addJob()]
    task,           \* [Worker -> state of the TaskYieldAction it holds]
    phase,          \* "built", "looping" (inside run()) or "returned"
    finished, stopping,
    softStop,       \* a thread inside stopSoft(): what it read, or "idle"
    open,           \* connections that are open on the server's side
    backlog,        \* [Listener -> connections not yet accepted]
    inKernel,       \* [Stream -> requests received, not yet read]
    inBuffer,       \* [Stream -> requests read into the stream's buffer]
    peerClosed,     \* connections whose client will send nothing more
    connects, sent  \* counters of the bounds

storeVars == <<co, updates, applying, openStreamCount>>
eventVars == <<readArmed, writeArmed, activated>>
workerVars == <<held, stage, task>>
loopVars == <<phase, finished, stopping, softStop>>
socketVars == <<open, backlog, inKernel, inBuffer, peerClosed, connects, sent>>
vars == <<storeVars, eventVars, jobs, workerVars, loopVars, socketVars>>

(* "none": no entry in the map.  Then the yields of the coroutine, in the   *)
(* order of the code: the first WaitForMore, the one of the accept loop,    *)
(* inside a read, inside a write, after PyntResult::More, the final Remove; *)
(* and "done", a coroutine that has run to its end.                         *)
Point == {"none", "wait", "accepting", "reading", "writing", "more",
          "remove", "done"}

(* A worker: no job; the job popped; incActive() done; the coroutine has    *)
(* yielded; the count settled and requestChange() to come.                  *)
Stage == {"idle", "taken", "counted", "yielded", "settled"}

TaskYieldState == {"RestoreRead", "RestoreWrite", "WaitForMore", "Remove"}

Update == [op : {"CreateServer", "CreateStream", "ExternallyClosed",
                 "Remove", "RestoreRead", "RestoreWrite"}, fd : Fd]

requestChange(op, f) == updates' = Append(updates, [op |-> op, fd |-> f])

-----------------------------------------------------------------------------
(* Faults: definitions below with a plausible mistake in them.  No          *)
(* specification uses them; put in place of the definition, each makes a    *)
(* property fail, which shows that the property depends on that line.       *)

(* The event is persistent (EV_PERSIST).                                    *)
FireReadPersistent(f) ==
    /\ phase = "looping" /\ applying = <<>>
    /\ f \in readArmed
    /\ activated' = activated \ {f}
    /\ UNCHANGED <<readArmed, writeArmed, co, applying, openStreamCount,
                   workerVars, loopVars, socketVars>>

(* A closed connection is noticed but its removal is not requested.         *)
handleStreamReadForgets(f) ==
    /\ f \in Stream
    /\ f \in activated \union peerClosed \/ inKernel[f] > 0
    /\ phase = "looping" /\ applying = <<>>
    /\ f \in readArmed
    /\ readArmed' = readArmed \ {f}
    /\ activated' = activated \ {f}
    /\ jobs' = IF inKernel[f] > 0 \/ f \notin peerClosed
               THEN Append(jobs, f) ELSE jobs
    /\ UNCHANGED <<writeArmed, storeVars, workerVars, loopVars, socketVars>>

(* A soft stop that does not look at the count.                             *)
TickImpatient ==
    /\ phase = "looping" /\ applying = <<>>
    /\ IF finished \/ stopping
       THEN /\ phase' = "returned"
            /\ UNCHANGED <<updates, applying>>
       ELSE /\ applying' = updates
            /\ updates' = <<>>
            /\ UNCHANGED phase
    /\ UNCHANGED <<finished, stopping, softStop, co, openStreamCount, eventVars,
                   jobs, workerVars, socketVars>>

(* `finished` is tested inside the `if (stopping)` block.                   *)
TickOnlyWhenStopping ==
    /\ phase = "looping" /\ applying = <<>>
    /\ finished' = (finished \/ (stopping /\ openStreamCount = 0))
    /\ IF stopping /\ finished'
       THEN /\ phase' = "returned"
            /\ UNCHANGED <<updates, applying>>
       ELSE /\ applying' = updates
            /\ updates' = <<>>
            /\ UNCHANGED phase
    /\ UNCHANGED <<stopping, softStop, co, openStreamCount, eventVars, jobs,
                   workerVars, socketVars>>

(* The count is not looked at again after stopSoft().                       *)
TickForgetsSoft ==
    /\ phase = "looping" /\ applying = <<>>
    /\ IF finished
       THEN /\ phase' = "returned"
            /\ UNCHANGED <<updates, applying>>
       ELSE /\ applying' = updates
            /\ updates' = <<>>
            /\ UNCHANGED phase
    /\ UNCHANGED <<finished, stopping, softStop, co, openStreamCount, eventVars,
                   jobs, workerVars, socketVars>>

(* RestoreRead without the activation for what is already buffered.         *)
ApplyRestoreReadOnlyAdds ==
    /\ applying # <<>>
    /\ Head(applying).op = "RestoreRead"
    /\ applying' = Tail(applying)
    /\ readArmed' = readArmed \union
            {f \in {Head(applying).fd} : co[f] # "none"}
    /\ UNCHANGED <<writeArmed, activated, co, updates, openStreamCount, jobs,
                   workerVars, loopVars, socketVars>>

(* decActive() after every yield, not only at the end of a request.         *)
decActiveAlways(w) ==
    /\ stage[w] = "yielded"
    /\ openStreamCount' = openStreamCount - 1
    /\ stage' = [stage EXCEPT ![w] = "settled"]
    /\ UNCHANGED <<held, task, co, updates, applying, eventVars, jobs, loopVars,
                   socketVars>>

(* RestoreWrite asks for the read event.                                    *)
PostTaskReads(w) ==
    /\ stage[w] = "settled"
    /\ requestChange(IF task[w] = "Remove" THEN "Remove" ELSE "RestoreRead",
                     held[w])
    /\ held' = [held EXCEPT ![w] = None]
    /\ stage' = [stage EXCEPT ![w] = "idle"]
    /\ task' = [task EXCEPT ![w] = "Remove"]
    /\ UNCHANGED <<co, applying, openStreamCount, eventVars, jobs, loopVars,
                   socketVars>>

-----------------------------------------------------------------------------
(* The Server has been constructed: its control timer exists already.       *)
Init ==
    /\ co = [f \in Fd |-> "none"]
    /\ readArmed = {} /\ writeArmed = {} /\ activated = {}
    /\ updates = <<>> /\ applying = <<>>
    /\ openStreamCount = 0
    /\ jobs = <<>>
    /\ held = [w \in Worker |-> None]
    /\ stage = [w \in Worker |-> "idle"]
    /\ task = [w \in Worker |-> "Remove"]
    /\ phase = "built"
    /\ finished = FALSE /\ stopping = FALSE /\ softStop = "idle"
    /\ open = {} /\ peerClosed = {}
    /\ backlog = [f \in Listener |-> 0]
    /\ inKernel = [f \in Stream |-> 0]
    /\ inBuffer = [f \in Stream |-> 0]
    /\ connects = 0 /\ sent = 0

-----------------------------------------------------------------------------
(* The application: listen(), run(), stopHard(), stopSoft().                *)

Elements(s) == {s[i] : i \in DOMAIN s}
Descriptors(s) == {u.fd : u \in Elements(s)}

Listened(l) ==
    co[l] # "none" \/ l \in Descriptors(updates) \union Descriptors(applying)

Listen(l) ==
    /\ ~Listened(l)
    /\ requestChange("CreateServer", l)
    /\ UNCHANGED <<co, applying, openStreamCount, eventVars, jobs, workerVars,
                   loopVars, socketVars>>

(* run() clears both flags: a stop asked for before is forgotten.           *)
Run ==
    /\ phase # "looping"
    /\ phase' = "looping"
    /\ finished' = FALSE
    /\ stopping' = FALSE
    /\ UNCHANGED <<softStop, storeVars, eventVars, jobs, workerVars, socketVars>>

StopHard ==
    /\ finished' = TRUE
    /\ UNCHANGED <<phase, stopping, softStop, storeVars, eventVars, jobs,
                   workerVars, socketVars>>

(* stopSoft() reads the count, and only then sets one of the flags.         *)
StopSoftReads ==
    /\ softStop = "idle"
    /\ softStop' = IF openStreamCount = 0 THEN "sawNone" ELSE "sawSome"
    /\ UNCHANGED <<phase, finished, stopping, storeVars, eventVars, jobs,
                   workerVars, socketVars>>

StopSoftSets ==
    /\ softStop # "idle"
    /\ softStop' = "idle"
    /\ finished' = (finished \/ softStop = "sawNone")
    /\ stopping' = (stopping \/ softStop = "sawSome")
    /\ UNCHANGED <<phase, storeVars, eventVars, jobs, workerVars, socketVars>>

-----------------------------------------------------------------------------
(* The clients.                                                             *)

Connect(l) ==
    /\ connects < MaxConnects
    /\ Listened(l)
    /\ connects' = connects + 1
    /\ backlog' = [backlog EXCEPT ![l] = @ + 1]
    /\ UNCHANGED <<open, inKernel, inBuffer, peerClosed, sent, storeVars,
                   eventVars, jobs, workerVars, loopVars>>

PeerSends(f) ==
    /\ f \in open \ peerClosed
    /\ sent < MaxRequests
    /\ sent' = sent + 1
    /\ inKernel' = [inKernel EXCEPT ![f] = @ + 1]
    /\ UNCHANGED <<open, backlog, inBuffer, peerClosed, connects, storeVars,
                   eventVars, jobs, workerVars, loopVars>>

PeerCloses(f) ==
    /\ f \in open \ peerClosed
    /\ peerClosed' = peerClosed \union {f}
    /\ UNCHANGED <<open, backlog, inKernel, inBuffer, connects, sent, storeVars,
                   eventVars, jobs, workerVars, loopVars>>

-----------------------------------------------------------------------------
(* The main thread inside eventBase.run().  It does one thing at a time: no *)
(* event fires while a tick is applying its updates.                        *)

InLoop == phase = "looping" /\ applying = <<>>

addJob(f) == jobs' = Append(jobs, f)

(* The read event is one-shot: firing removes it, added or activated.       *)
FireRead(f) ==
    /\ InLoop
    /\ f \in readArmed
    /\ readArmed' = readArmed \ {f}
    /\ activated' = activated \ {f}
    /\ UNCHANGED <<writeArmed, co, applying, openStreamCount, workerVars,
                   loopVars, socketVars>>

handleServerEvent(f) ==
    /\ f \in Listener
    /\ backlog[f] > 0
    /\ FireRead(f)
    /\ addJob(f)
    /\ UNCHANGED updates

(* checkFileDescriptorOK() peeks at the socket, not at the stream's buffer. *)
handleStreamRead(f) ==
    /\ f \in Stream
    /\ f \in activated \union peerClosed \/ inKernel[f] > 0
    /\ FireRead(f)
    /\ IF inKernel[f] > 0 \/ f \notin peerClosed
       THEN addJob(f) /\ UNCHANGED updates
       ELSE requestChange("ExternallyClosed", f) /\ UNCHANGED jobs

(* The socket can take data again (or has failed): no check is made.        *)
handleStreamWrite(f) ==
    /\ InLoop
    /\ f \in writeArmed
    /\ writeArmed' = writeArmed \ {f}
    /\ addJob(f)
    /\ UNCHANGED <<readArmed, activated, storeVars, workerVars, loopVars,
                   socketVars>>

(* controlTimerAction(), up to the swap of processUpdateRequest().          *)
Tick ==
    /\ InLoop
    /\ finished' = (finished \/ (stopping /\ openStreamCount = 0))
    /\ IF finished'
       THEN /\ phase' = "returned"
            /\ UNCHANGED <<updates, applying>>
       ELSE /\ applying' = updates
            /\ updates' = <<>>
            /\ UNCHANGED phase
    /\ UNCHANGED <<stopping, softStop, co, openStreamCount, eventVars, jobs,
                   workerVars, socketVars>>

(* processUpdateRequest(): the next element of localUpdate.                 *)
Applies(ops) ==
    /\ applying # <<>>
    /\ Head(applying).op \in ops
    /\ applying' = Tail(applying)

(* The new coroutine runs up to its first yield, on the main thread.        *)
ApplyCreate ==
    /\ Applies({"CreateServer", "CreateStream"})
    /\ co' = [co EXCEPT ![Head(applying).fd] = "wait"]
    /\ readArmed' = readArmed \union {Head(applying).fd}
    /\ UNCHANGED <<updates, openStreamCount, writeArmed, activated, jobs,
                   workerVars, loopVars, socketVars>>

(* What the stream has buffered raises no event: it is activated by hand.   *)
ApplyRestoreRead ==
    /\ Applies({"RestoreRead"})
    /\ LET f == Head(applying).fd IN
        IF co[f] = "none" THEN UNCHANGED eventVars
        ELSE /\ readArmed' = readArmed \union {f}
             /\ activated' = IF f \in Stream /\ inBuffer[f] > 0
                             THEN activated \union {f} ELSE activated
             /\ UNCHANGED writeArmed
    /\ UNCHANGED <<co, updates, openStreamCount, jobs, workerVars, loopVars,
                   socketVars>>

ApplyRestoreWrite ==
    /\ Applies({"RestoreWrite"})
    /\ LET f == Head(applying).fd IN
        IF co[f] = "none" \/ f \in Listener THEN UNCHANGED writeArmed
        ELSE writeArmed' = writeArmed \union {f}
    /\ UNCHANGED <<co, updates, openStreamCount, readArmed, activated, jobs,
                   workerVars, loopVars, socketVars>>

(* data.erase(fd): the events are freed and the socket is closed.           *)
Erase(f) ==
    /\ co' = [co EXCEPT ![f] = "none"]
    /\ readArmed' = readArmed \ {f}
    /\ writeArmed' = writeArmed \ {f}
    /\ activated' = activated \ {f}
    /\ open' = open \ {f}
    /\ peerClosed' = peerClosed \ {f}
    /\ inKernel' = [g \in Stream |-> IF g = f THEN 0 ELSE inKernel[g]]
    /\ inBuffer' = [g \in Stream |-> IF g = f THEN 0 ELSE inBuffer[g]]
    /\ UNCHANGED <<backlog, connects, sent>>

ApplyRemove ==
    /\ Applies({"Remove"})
    /\ Erase(Head(applying).fd)
    /\ UNCHANGED <<updates, openStreamCount, jobs, workerVars, loopVars>>

(* The coroutine is resumed until it ends, on the main thread.  Suspended   *)
(* in a read or a write it compensates the count, then its handler runs on. *)
ApplyExternallyClosed ==
    /\ Applies({"ExternallyClosed"})
    /\ LET f == Head(applying).fd IN
        /\ Erase(f)
        /\ openStreamCount' = IF co[f] \in {"reading", "writing"}
                              THEN openStreamCount - 1 ELSE openStreamCount
    /\ UNCHANGED <<updates, jobs, workerVars, loopVars>>

(* As above, but the handler throws.  Nothing on the way up catches before  *)
(* eventAction() does: the entry is not erased and localUpdate is destroyed *)
(* with what is left in it.                                                 *)
EscapeExternallyClosed ==
    /\ "Throw" \in Outcome
    /\ applying # <<>>
    /\ Head(applying).op = "ExternallyClosed"
    /\ LET f == Head(applying).fd IN
        /\ co[f] \in {"reading", "writing"}
        /\ co' = [co EXCEPT ![f] = "done"]
    /\ openStreamCount' = openStreamCount - 1
    /\ applying' = <<>>
    /\ UNCHANGED <<updates, eventVars, jobs, workerVars, loopVars, socketVars>>

-----------------------------------------------------------------------------
(* A worker: JobQueue::processWork() and the lambda of addJob().            *)

TakeJob(w) ==
    /\ stage[w] = "idle"
    /\ jobs # <<>>
    /\ jobs' = Tail(jobs)
    /\ held' = [held EXCEPT ![w] = Head(jobs)]
    /\ stage' = [stage EXCEPT ![w] = "taken"]
    /\ UNCHANGED <<task, storeVars, eventVars, loopVars, socketVars>>

incActive(w) ==
    /\ stage[w] = "taken"
    /\ openStreamCount' = openStreamCount + 1
    /\ stage' = [stage EXCEPT ![w] = "counted"]
    /\ UNCHANGED <<held, task, co, updates, applying, eventVars, jobs, loopVars,
                   socketVars>>

(* The coroutine of w's job reaches the point p and yields the state t.     *)
Yields(w, p, t) ==
    /\ co' = [co EXCEPT ![held[w]] = p]
    /\ task' = [task EXCEPT ![w] = t]
    /\ stage' = [stage EXCEPT ![w] = "yielded"]
    /\ UNCHANGED <<held, applying, eventVars, jobs, loopVars>>

(* createAcceptJob(): a connection is accepted and handed to the event      *)
(* handler, which refuses it (so that it is closed) while stopping.         *)
Accept(w) ==
    /\ stage[w] = "counted" /\ held[w] \in Listener
    /\ backlog[held[w]] > 0
    /\ backlog' = [backlog EXCEPT ![held[w]] = @ - 1]
    /\ IF stopping THEN UNCHANGED <<open, updates>>
       ELSE \E f \in Stream \ open :
                /\ open' = open \union {f}
                /\ requestChange("CreateStream", f)
    /\ Yields(w, "accepting", "WaitForMore")
    /\ UNCHANGED <<openStreamCount, inKernel, inBuffer, peerClosed, connects, sent>>

(* accept() finds nobody (the model's Stream is used up counts as that): it *)
(* waits for the next event of the listening socket.                        *)
AcceptNone(w) ==
    /\ stage[w] = "counted" /\ held[w] \in Listener
    /\ backlog[held[w]] = 0 \/ (~stopping /\ Stream \subseteq open)
    /\ Yields(w, "accepting", "WaitForMore")
    /\ UNCHANGED <<updates, openStreamCount, socketVars>>

(* A handler that takes n requests empties the socket into the buffer when  *)
(* the buffer alone does not hold them.                                     *)
Consume(f, n) ==
    IF n <= inBuffer[f]
    THEN /\ inBuffer' = [inBuffer EXCEPT ![f] = @ - n]
         /\ UNCHANGED inKernel
    ELSE /\ inBuffer' = [inBuffer EXCEPT ![f] = @ + inKernel[f] - n]
         /\ inKernel' = [inKernel EXCEPT ![f] = 0]

Received(f) == inKernel[f] + inBuffer[f]

(* Resuming a read or a write undoes the second incActive() of the request. *)
Compensate(f) ==
    openStreamCount' = IF co[f] \in {"reading", "writing"}
                       THEN openStreamCount - 1 ELSE openStreamCount

Resumes(w) ==
    /\ stage[w] = "counted" /\ held[w] \in Stream
    /\ Compensate(held[w])
    /\ UNCHANGED <<updates, open, backlog, peerClosed, connects, sent>>

(* The handler reads everything that has come and needs more.               *)
ReadBlocks(w) ==
    /\ Resumes(w)
    /\ held[w] \notin peerClosed
    /\ Consume(held[w], Received(held[w]))
    /\ Yields(w, "reading", "RestoreRead")

(* The handler goes on: one request, or, the client gone, all there is.     *)
HandlerTakes(f) ==
    (IF co[f] = "writing" THEN {0} ELSE {}) \union
    (IF Received(f) > 0 THEN {1} ELSE {}) \union
    (IF f \in peerClosed THEN {Received(f)} ELSE {})

WriteBlocks(w) ==
    /\ "Block" \in Outcome
    /\ Resumes(w)
    /\ \E n \in HandlerTakes(held[w]) : Consume(held[w], n)
    /\ Yields(w, "writing", "RestoreWrite")

HandlerMore(w) ==
    /\ "More" \in Outcome
    /\ Resumes(w)
    /\ \E n \in HandlerTakes(held[w]) : Consume(held[w], n)
    /\ Yields(w, "more", "RestoreRead")

HandlerDone(w) ==
    /\ "Done" \in Outcome
    /\ Resumes(w)
    /\ \E n \in HandlerTakes(held[w]) : Consume(held[w], n)
    /\ Yields(w, "remove", "Remove")

(* The exception is caught by addJob(); the coroutine is over.              *)
HandlerThrows(w) ==
    /\ "Throw" \in Outcome
    /\ Resumes(w)
    /\ \E n \in HandlerTakes(held[w]) : Consume(held[w], n)
    /\ Yields(w, "done", "Remove")

(* The switch of addJob(): the count ...                                    *)
decActive(w) ==
    /\ stage[w] = "yielded"
    /\ openStreamCount' = IF task[w] \in {"Remove", "WaitForMore"}
                          THEN openStreamCount - 1 ELSE openStreamCount
    /\ stage' = [stage EXCEPT ![w] = "settled"]
    /\ UNCHANGED <<held, task, co, updates, applying, eventVars, jobs, loopVars,
                   socketVars>>

(* ... and the change it asks for; the worker is free again.                *)
PostTask(w) ==
    /\ stage[w] = "settled"
    /\ requestChange(IF task[w] = "WaitForMore" THEN "RestoreRead" ELSE task[w],
                     held[w])
    /\ held' = [held EXCEPT ![w] = None]
    /\ stage' = [stage EXCEPT ![w] = "idle"]
    /\ task' = [task EXCEPT ![w] = "Remove"]
    /\ UNCHANGED <<co, applying, openStreamCount, eventVars, jobs, loopVars,
                   socketVars>>

ResumeCoRoutine(w) ==
    \/ Accept(w) \/ AcceptNone(w)
    \/ ReadBlocks(w) \/ WriteBlocks(w)
    \/ HandlerMore(w) \/ HandlerDone(w) \/ HandlerThrows(w)

RunJob(w) == incActive(w) \/ ResumeCoRoutine(w) \/ decActive(w) \/ PostTask(w)

ApplyUpdate ==
    \/ ApplyCreate \/ ApplyRestoreRead \/ ApplyRestoreWrite
    \/ ApplyRemove \/ ApplyExternallyClosed \/ EscapeExternallyClosed

-----------------------------------------------------------------------------
Next ==
    \/ \E l \in Listener : Listen(l) \/ Connect(l) \/ handleServerEvent(l)
    \/ \E f \in Stream : PeerSends(f) \/ PeerCloses(f)
                         \/ handleStreamRead(f) \/ handleStreamWrite(f)
    \/ Run \/ StopHard \/ StopSoftReads \/ StopSoftSets
    \/ Tick \/ ApplyUpdate
    \/ \E w \in Worker : TakeJob(w) \/ RunJob(w)

(* Threads are scheduled, and handleRequest() returns or blocks.  The loop  *)
(* of libevent polls and runs every ready event between two runs of the     *)
(* control timer, hence strong fairness of the events that a tick disables  *)
(* again and again.  Nothing is promised of clients: they need not send,    *)
(* close, or ever take data (a blocked write may block for ever).           *)
Fairness ==
    /\ WF_vars(Tick) /\ WF_vars(ApplyUpdate)
    /\ \A f \in Listener : SF_vars(handleServerEvent(f))
    /\ \A f \in Stream : SF_vars(handleStreamRead(f))
    /\ WF_vars(\E w \in Worker : TakeJob(w))
    /\ \A w \in Worker : WF_vars(RunJob(w))
    /\ WF_vars(StopSoftSets)

Spec == Init /\ [][Next]_vars
FairSpec == Spec /\ Fairness

-----------------------------------------------------------------------------
(* Every variable has its type; in particular only an added event can have  *)
(* been activated by hand, and only an open connection can lose its client. *)
TypeOK ==
    /\ co \in [Fd -> Point]
    /\ readArmed \subseteq Fd /\ writeArmed \subseteq Stream
    /\ activated \subseteq readArmed
    /\ updates \in Seq(Update) /\ applying \in Seq(Update)
    /\ openStreamCount \in Int
    /\ jobs \in Seq(Fd)
    /\ held \in [Worker -> Fd \union {None}]
    /\ stage \in [Worker -> Stage]
    /\ task \in [Worker -> TaskYieldState]
    /\ phase \in {"built", "looping", "returned"}
    /\ finished \in BOOLEAN /\ stopping \in BOOLEAN
    /\ softStop \in {"idle", "sawNone", "sawSome"}
    /\ open \subseteq Stream /\ peerClosed \subseteq open
    /\ backlog \in [Listener -> Nat]
    /\ inKernel \in [Stream -> Nat] /\ inBuffer \in [Stream -> Nat]
    /\ connects \in Nat /\ sent \in Nat

HeldByWorkers == {held[w] : w \in Worker} \ {None}
Armed == readArmed \union writeArmed

Distinct(s) == \A i, j \in DOMAIN s : s[i] = s[j] => i = j
DistinctFd(s) == \A i, j \in DOMAIN s : s[i].fd = s[j].fd => i = j

(* Every descriptor has at most one next step: an added event, a queued     *)
(* job, a worker, or a requested change.  This is what lets the coroutines  *)
(* and the map do without locks: no two threads are ever inside the same    *)
(* coroutine, and the main thread erases or ends none that a job or a       *)
(* worker still refers to (Server.h:9-11).                                  *)
OneOwner ==
    /\ Distinct(jobs) /\ DistinctFd(updates) /\ DistinctFd(applying)
    /\ readArmed \intersect writeArmed = {}
    /\ Elements(jobs) \intersect Armed = {}
    /\ Descriptors(updates) \intersect (Armed \union Elements(jobs)) = {}
    /\ Descriptors(applying) \intersect
            (Armed \union Elements(jobs) \union Descriptors(updates)) = {}
    /\ \A v, w \in Worker : held[v] = held[w] /\ held[v] # None => v = w
    /\ \A w \in Worker :
        held[w] \notin Armed \union Elements(jobs)
                             \union Descriptors(updates) \union Descriptors(applying)

AwaitsRead == {"wait", "accepting", "reading", "more"}
Suspended == AwaitsRead \union {"writing"}

(* The points a coroutine can be at while a change of its entry is pending. *)
PointsOf(op) ==
    CASE op \in {"CreateServer", "CreateStream"} -> {"none"}
      [] op \in {"RestoreRead", "ExternallyClosed"} -> AwaitsRead
      [] op = "RestoreWrite" -> {"writing"}
      [] op = "Remove" -> {"remove", "done"}

(* A pending step always fits the coroutine it is for: a read event finds   *)
(* it waiting for input and a write event in a write; a job resumes one     *)
(* that is suspended and not one that has ended; a new entry never replaces *)
(* a live one, although descriptors are reused; only a connection that has  *)
(* finished is removed.                                                     *)
StepFitsCoroutine ==
    /\ \A f \in readArmed : co[f] \in AwaitsRead
    /\ \A f \in writeArmed : co[f] = "writing"
    /\ \A f \in Elements(jobs) : co[f] \in Suspended
    /\ \A w \in Worker :
        stage[w] \in {"taken", "counted"} => co[held[w]] \in Suspended
    /\ \A u \in Elements(updates) \union Elements(applying) :
        co[u.fd] \in PointsOf(u.op)

(* Every coroutine in the map has a next step: none is forgotten, so every  *)
(* connection is served again, or removed, when its client does something.  *)
NoLostCoroutine ==
    \A f \in Fd : co[f] # "none" =>
        f \in Armed \union Elements(jobs) \union HeldByWorkers
              \union Descriptors(updates) \union Descriptors(applying)

(* The requests in progress: suspended in the middle, or being run by a     *)
(* worker that has counted itself and not yet taken that back.              *)
InProgress ==
    Cardinality({f \in Stream : co[f] \in {"reading", "writing", "more"}})
    + Cardinality({w \in Worker :
        \/ stage[w] = "counted"
        \/ stage[w] = "yielded" /\ task[w] \in {"Remove", "WaitForMore"}})

(* The count that a soft stop waits for never misses a request in progress, *)
(* over all the increments, decrements and compensations of the two threads *)
(* that a request visits.                                                   *)
CountCoversRequests == openStreamCount >= InProgress

(* The comment at EventHandler.cpp:315-321: the yield return point takes    *)
(* the second increment of a resumed job back "so we don't overcount".      *)
CountNeverOver == openStreamCount <= InProgress

(* A loop that ends by a soft stop ends when no request is in progress      *)
(* (EventHandler.cpp:346-355), whatever the workers do meanwhile.           *)
SoftStopWaits ==
    [][phase = "looping" /\ phase' = "returned" /\ ~finished
            => InProgress = 0]_vars

(* Server.cpp:113-114: after PyntResult::More the task is re-scheduled "if  *)
(* there is still more data available".  Data is available when the buffer  *)
(* of the stream holds a request: such a connection is not torn down.       *)
BufferedRequestKept ==
    \A i \in DOMAIN applying :
        applying[i].op = "ExternallyClosed" /\ co[applying[i].fd] = "more"
            => inBuffer[applying[i].fd] = 0

(* The requests that have arrived on a connection, those already in the     *)
(* buffer of its stream included, are all taken by its handler, unless the  *)
(* connection ends, the loop is stopped, or the client does not take what   *)
(* is written to it.                                                        *)
RequestServed ==
    \A f \in Stream :
        (phase = "looping" /\ Received(f) > 0)
            ~> (Received(f) = 0 \/ co[f] = "writing" \/ phase = "returned")

(* stopHard() on a running server ends run().                               *)
HardStopStops == (phase = "looping" /\ finished) ~> phase = "returned"

(* README.md:37: "Call stopSoft() / stopHard() to stop the event loop."     *)
(* Asked of stopSoft() once the last connection is gone, and unless the     *)
(* count is above the requests in progress (CountNeverOver).                *)
SoftStopStops ==
    (phase = "looping" /\ stopping /\ open = {})
        ~> (phase = "returned" \/ openStreamCount > InProgress)

-----------------------------------------------------------------------------
(* The flow of control of a descriptor, as its handler sees it.             *)
FlowOf(f) ==
    CASE f \in HeldByWorkers -> "running"
      [] f \in Elements(jobs) /\ f \notin HeldByWorkers -> "ready"
      [] co[f] = "none" /\ f \notin HeldByWorkers \union Elements(jobs)
            -> "closed"
      [] co[f] \in {"remove", "done"}
            /\ f \notin HeldByWorkers \union Elements(jobs) -> "ended"
      [] OTHER -> "asleep"

Flows == [f \in Fd |-> FlowOf(f)]

Abstract ==
    INSTANCE Connection WITH
        Threads <- Cardinality(Worker),
        flow    <- Flows

(* Straight-line handler code is what it looks like: every descriptor's     *)
(* coroutine is one flow of control, although the suspensions and the       *)
(* resumptions of it happen on different threads.                           *)
ImplementsConnection == Abstract!Spec
=============================================================================

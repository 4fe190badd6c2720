---------------------------- MODULE Descriptors ----------------------------
(***************************************************************************)
(* The descriptors a request may wait for besides its own connection:      *)
(* those it owns (AsyncStream, AsyncSocket) and those the connections of a *)
(* server share (AsyncSharedSocket, as the pool of MongoServer.h uses it). *)
(* Context.cpp, and the OwnedFD and SharedFD of Store and EventHandler.    *)
(*                                                                         *)
(* NisseServer models the rest of these classes.  Here the coroutine of a  *)
(* connection is closed, asleep on one descriptor, running or ended; read  *)
(* and write events, which are treated alike, are one; a worker takes its  *)
(* job and resumes the coroutine in one step; the active count is left out.*)
(***************************************************************************)
EXTENDS Integers, Sequences, FiniteSets

CONSTANTS
    Conn,           \* the descriptors of connections, one coroutine each
    Owned,          \* the descriptors handlers open; closed ones are reused
    Shared,         \* the pipes of connection pools
    PoolSize,       \* what a pool holds at first
    Worker,
    None,
    PromptYield,    \* a worker that registers a descriptor has yielded before
                    \* the control timer runs: likely, but not guaranteed
    StrayThrow      \* a handler may throw in a job of another descriptor

Fd == Conn \union Owned \union Shared

ASSUME FdAssumption ==
    /\ Conn \intersect (Owned \union Shared) = {}
    /\ Owned \intersect Shared = {}
    /\ None \notin Fd
    /\ IsFiniteSet(Fd) /\ IsFiniteSet(Worker)

ASSUME SwitchAssumption ==
    PoolSize \in Nat /\ PromptYield \in BOOLEAN /\ StrayThrow \in BOOLEAN

VARIABLES
    kind,           \* [Fd -> the kind of its entry in Store::data, or "none"]
    link,           \* [Owned -> OwnedFD::linkedStreamCoRoutine]
    waiting,        \* [Shared -> SharedFD::readWaiting]
    armed,          \* descriptors whose event is added
    updates, applying,  \* as in NisseServer
    jobs,           \* the queue: which coroutine, for which descriptor
    held,           \* [Worker -> the job it runs]
    stage,          \* [Worker -> where it is with it]
    task,           \* [Worker -> the TaskYieldAction its coroutine yielded]
    at,             \* [Conn -> state of the coroutine]
    awaits,         \* [Conn -> the descriptor it sleeps on]
    owns,           \* [Conn -> the Owned its handler has registered]
    leased,         \* [Conn -> the pool its handler has taken from, or None]
    strayed,        \* coroutines that wait for a pool again in a job of it
    ready,          \* connections and owned descriptors with data to read
    pool,           \* [Shared -> what is in the pipe]
    peerClosed

dataVars == <<kind, link, waiting, armed>>
workerVars == <<held, stage, task>>
coVars == <<at, awaits, owns, leased, strayed>>
worldVars == <<ready, pool, peerClosed>>
vars == <<dataVars, updates, applying, jobs, workerVars, coVars, worldVars>>

Job == [co : Conn, fd : Fd]
NoJob == [co |-> None, fd |-> None]
Task == [op : {"Restore", "Remove"}, fd : Fd]
Update == [op : {"CreateStream", "CreateOwned", "CreateShared",
                 "ExternallyClosed", "Remove", "Restore"},
           fd : Fd, owner : Fd \union {None}]

Requested(op, f, owner) == [op |-> op, fd |-> f, owner |-> owner]
requestChange(op, f, owner) == updates' = Append(updates, Requested(op, f, owner))

Elements(s) == {s[i] : i \in DOMAIN s}
Pending == Elements(updates) \union Elements(applying)
Mentioned == {u.fd : u \in Pending}

Init ==
    /\ kind = [f \in Fd |-> "none"]
    /\ link = [o \in Owned |-> None]
    /\ waiting = [s \in Shared |-> <<>>]
    /\ armed = {}
    /\ updates = <<>> /\ applying = <<>> /\ jobs = <<>>
    /\ held = [w \in Worker |-> NoJob]
    /\ stage = [w \in Worker |-> "idle"]
    /\ task = [w \in Worker |-> None]
    /\ at = [c \in Conn |-> "closed"]
    /\ awaits = [c \in Conn |-> c]
    /\ owns = [c \in Conn |-> {}]
    /\ leased = [c \in Conn |-> None]
    /\ strayed = {}
    /\ ready = {} /\ peerClosed = {}
    /\ pool = [s \in Shared |-> PoolSize]

-----------------------------------------------------------------------------
(* Accepted connections, pools, clients and other peers.  The application   *)
(* makes its pools before it listens.                                       *)

Connected(c) ==
    /\ at[c] = "closed"
    /\ \A s \in Shared : kind[s] = "shared" \/ s \in Mentioned
    /\ at' = [at EXCEPT ![c] = "asleep"]
    /\ awaits' = [awaits EXCEPT ![c] = c]
    /\ requestChange("CreateStream", c, None)
    /\ UNCHANGED <<dataVars, applying, jobs, workerVars, owns, leased, strayed,
                   worldVars>>

registerSharedSocket(s) ==
    /\ kind[s] = "none" /\ s \notin Mentioned
    /\ requestChange("CreateShared", s, None)
    /\ UNCHANGED <<dataVars, applying, jobs, workerVars, coVars, worldVars>>

Readable(f) == IF f \in Shared THEN pool[f] > 0 ELSE f \in ready \union peerClosed

BecomesReady(f) ==
    /\ f \in {c \in Conn : at[c] # "closed"} \union UNION {owns[c] : c \in Conn}
    /\ ready' = ready \union {f}
    /\ UNCHANGED <<dataVars, updates, applying, jobs, workerVars, coVars, pool,
                   peerClosed>>

PeerCloses(c) ==
    /\ at[c] # "closed"
    /\ peerClosed' = peerClosed \union {c}
    /\ UNCHANGED <<dataVars, updates, applying, jobs, workerVars, coVars, pool,
                   ready>>

-----------------------------------------------------------------------------
(* A worker: the job, the handler inside the coroutine, and the change.     *)

Resume(w) ==
    /\ stage[w] = "idle"
    /\ jobs # <<>>
    /\ jobs' = Tail(jobs)
    /\ held' = [held EXCEPT ![w] = Head(jobs)]
    /\ stage' = [stage EXCEPT ![w] = "running"]
    /\ at' = [at EXCEPT ![Head(jobs).co] = "running"]
    /\ UNCHANGED <<dataVars, updates, applying, task, awaits, owns, leased,
                   strayed, worldVars>>

Runs(w, c) == stage[w] = "running" /\ held[w].co = c

(* yield({RestoreRead, f}): the coroutine sleeps on f. *)
Sleeps(w, f, next) ==
    /\ at' = [at EXCEPT ![held[w].co] = "asleep"]
    /\ awaits' = [awaits EXCEPT ![held[w].co] = f]
    /\ task' = [task EXCEPT ![w] = [op |-> "Restore", fd |-> f]]
    /\ stage' = [stage EXCEPT ![w] = next]
    /\ UNCHANGED <<dataVars, updates, applying, jobs, held, owns>>

(* registerYield() requests the event of a descriptor that has just been    *)
(* opened, and has not yielded yet ...                                      *)
registerYield(w) ==
    \E c \in Conn, o \in Owned \ UNION {owns[d] : d \in Conn} :
        /\ Runs(w, c)
        /\ owns' = [owns EXCEPT ![c] = @ \union {o}]
        /\ task' = [task EXCEPT ![w] = [op |-> "Restore", fd |-> o]]
        /\ stage' = [stage EXCEPT ![w] = "registering"]
        /\ requestChange("CreateOwned", o, c)
        /\ UNCHANGED <<dataVars, applying, jobs, held, at, awaits, leased,
                       strayed, worldVars>>

(* ... which it does next, whether the descriptor is ready or not.          *)
YieldRegistered(w) ==
    /\ stage[w] = "registering"
    /\ Sleeps(w, task[w].fd, "registered")
    /\ UNCHANGED <<leased, strayed, worldVars>>

(* A read of the connection or of an owned descriptor finds nothing more.   *)
Await(w) ==
    \E c \in Conn : \E f \in {c} \union owns[c] :
        /\ Runs(w, c)
        /\ f \notin peerClosed
        /\ ready' = ready \ {f}
        /\ Sleeps(w, f, "yielded")
        /\ UNCHANGED <<leased, strayed, pool, peerClosed>>

(* MongoConnectionPool::getConnection() with something in the pipe.         *)
Lease(w) ==
    \E c \in Conn, s \in Shared :
        /\ Runs(w, c)
        /\ leased[c] = None
        /\ pool[s] > 0
        /\ pool' = [pool EXCEPT ![s] = @ - 1]
        /\ leased' = [leased EXCEPT ![c] = s]
        /\ UNCHANGED <<dataVars, updates, applying, jobs, workerVars, at, awaits,
                       owns, strayed, ready, peerClosed>>

(* The same with an empty pipe, at the first and at any later attempt.      *)
AwaitShared(w) ==
    \E c \in Conn, s \in Shared :
        /\ Runs(w, c)
        /\ leased[c] = None
        /\ pool[s] = 0
        /\ strayed' = IF held[w].fd = c THEN strayed ELSE strayed \union {c}
        /\ Sleeps(w, s, "yielded")
        /\ UNCHANGED <<leased, worldVars>>

(* ~LeaseConnection() *)
ReturnLease(w) ==
    \E c \in Conn :
        /\ Runs(w, c)
        /\ leased[c] # None
        /\ pool' = [pool EXCEPT ![leased[c]] = @ + 1]
        /\ leased' = [leased EXCEPT ![c] = None]
        /\ UNCHANGED <<dataVars, updates, applying, jobs, workerVars, at, awaits,
                       owns, strayed, ready, peerClosed>>

(* ~AsyncStream() or ~AsyncSocket(); then the handler closes the descriptor.*)
unregisterYield(w) ==
    \E c \in Conn : \E o \in owns[c] :
        /\ Runs(w, c)
        /\ owns' = [owns EXCEPT ![c] = @ \ {o}]
        /\ ready' = ready \ {o}
        /\ requestChange("Remove", o, None)
        /\ UNCHANGED <<dataVars, applying, jobs, workerVars, at, awaits, leased,
                       strayed, pool, peerClosed>>

Ends(w, f) ==
    /\ at' = [at EXCEPT ![held[w].co] = "ended"]
    /\ task' = [task EXCEPT ![w] = [op |-> "Remove", fd |-> f]]
    /\ stage' = [stage EXCEPT ![w] = "yielded"]
    /\ UNCHANGED <<dataVars, applying, jobs, held, awaits, strayed>>

(* handleRequest() returns Done: its scoped objects are gone by then.       *)
Finish(w) ==
    \E c \in Conn :
        /\ Runs(w, c)
        /\ owns[c] = {} /\ leased[c] = None
        /\ Ends(w, c)
        /\ UNCHANGED <<updates, owns, leased, worldVars>>

(* What the destructors of the handler of c do, wherever it is left.        *)
RemovalOf(set) ==
    {s \in [1 .. Cardinality(set) -> {Requested("Remove", o, None) : o \in set}] :
        Elements(s) = {Requested("Remove", o, None) : o \in set}}

Unwinds(c) ==
    /\ \E removals \in RemovalOf(owns[c]) : updates' = updates \o removals
    /\ owns' = [owns EXCEPT ![c] = {}]
    /\ leased' = [leased EXCEPT ![c] = None]
    /\ pool' = [s \in Shared |-> IF s = leased[c] THEN pool[s] + 1 ELSE pool[s]]
    /\ ready' = ready \ (owns[c] \union {c})

(* It throws: what is removed is the descriptor the job was for.            *)
HandlerThrows(w) ==
    \E c \in Conn :
        /\ Runs(w, c)
        /\ StrayThrow \/ held[w].fd = c
        /\ Unwinds(c)
        /\ Ends(w, held[w].fd)
        /\ UNCHANGED peerClosed

(* The descriptor of the job is removed at the end of a handler, too.       *)
PostTaskOfJob(w) ==
    /\ stage[w] \in {"yielded", "registered"}
    /\ requestChange(task[w].op, IF task[w].op = "Remove" THEN held[w].fd
                                 ELSE task[w].fd, held[w].fd)
    /\ held' = [held EXCEPT ![w] = NoJob]
    /\ stage' = [stage EXCEPT ![w] = "idle"]
    /\ task' = [task EXCEPT ![w] = None]
    /\ UNCHANGED <<dataVars, applying, jobs, coVars, worldVars>>

(* The switch at the end of addJob()'s lambda.  The owner of a wait is the  *)
(* descriptor of the job, not the connection of the coroutine.              *)
PostTask(w) ==
    /\ stage[w] \in {"yielded", "registered"}
    /\ requestChange(task[w].op, task[w].fd, held[w].fd)
    /\ held' = [held EXCEPT ![w] = NoJob]
    /\ stage' = [stage EXCEPT ![w] = "idle"]
    /\ task' = [task EXCEPT ![w] = None]
    /\ UNCHANGED <<dataVars, applying, jobs, coVars, worldVars>>

-----------------------------------------------------------------------------
(* The main thread: events, and the changes the control timer applies.      *)

addJob(c, f) == jobs' = Append(jobs, [co |-> c, fd |-> f])

Fires(f, k) ==
    /\ applying = <<>>
    /\ f \in armed
    /\ kind[f] = k
    /\ Readable(f)
    /\ UNCHANGED <<kind, link, applying, workerVars, coVars, worldVars>>

(* checkFileDescriptorOK() without `return false`.                          *)
handleClosedToo(c) ==
    /\ Fires(c, "stream")
    /\ armed' = armed \ {c}
    /\ addJob(c, c)
    /\ IF c \in ready THEN UNCHANGED updates
       ELSE requestChange("ExternallyClosed", c, None)
    /\ UNCHANGED waiting

handleStreamEvent(c) ==
    /\ Fires(c, "stream")
    /\ armed' = armed \ {c}
    /\ IF c \in ready
       THEN addJob(c, c) /\ UNCHANGED updates
       ELSE requestChange("ExternallyClosed", c, None) /\ UNCHANGED jobs
    /\ UNCHANGED waiting

(* A persistent event (EV_PERSIST).                                         *)
handleLinkPersistent(o) ==
    /\ Fires(o, "owned")
    /\ addJob(link[o], o)
    /\ UNCHANGED <<armed, waiting, updates>>

handleLinkStreamEvent(o) ==
    /\ Fires(o, "owned")
    /\ armed' = armed \ {o}
    /\ addJob(link[o], o)
    /\ UNCHANGED <<waiting, updates>>

(* handlePipeStreamEvent() without the pop_front().                         *)
handlePipeKeeps(s) ==
    /\ Fires(s, "shared")
    /\ armed' = IF waiting[s] # <<>> THEN armed ELSE armed \ {s}
    /\ IF waiting[s] = <<>> THEN UNCHANGED jobs ELSE addJob(Head(waiting[s]), s)
    /\ UNCHANGED <<waiting, updates>>

(* The first waiter goes; the event is added again for the others.          *)
handlePipeStreamEvent(s) ==
    /\ Fires(s, "shared")
    /\ armed' = IF Len(waiting[s]) > 1 THEN armed ELSE armed \ {s}
    /\ IF waiting[s] = <<>> THEN UNCHANGED <<waiting, jobs>>
       ELSE /\ addJob(Head(waiting[s]), s)
            /\ waiting' = [waiting EXCEPT ![s] = Tail(@)]
    /\ UNCHANGED updates

MayTick ==
    PromptYield => \A w \in Worker : stage[w] \notin {"registering", "registered"}

Tick ==
    /\ applying = <<>> /\ updates # <<>>
    /\ MayTick
    /\ applying' = updates
    /\ updates' = <<>>
    /\ UNCHANGED <<dataVars, jobs, workerVars, coVars, worldVars>>

Applies(op) ==
    /\ applying # <<>>
    /\ Head(applying).op = op
    /\ applying' = Tail(applying)
    /\ UNCHANGED <<jobs, workerVars>>

ApplyCreateStream ==
    /\ Applies("CreateStream")
    /\ LET c == Head(applying).fd IN
        /\ kind' = [kind EXCEPT ![c] = "stream"]
        /\ armed' = armed \union {c}
    /\ UNCHANGED <<link, waiting, updates, coVars, worldVars>>

(* Only for a connection that is still there; the wait begins here.         *)
ApplyCreateOwned ==
    /\ Applies("CreateOwned")
    /\ LET u == Head(applying) IN
        IF kind[u.owner] = "none" THEN UNCHANGED dataVars
        ELSE /\ kind' = [kind EXCEPT ![u.fd] = "owned"]
             /\ link' = [link EXCEPT ![u.fd] = u.owner]
             /\ armed' = armed \union {u.fd}
             /\ UNCHANGED waiting
    /\ UNCHANGED <<updates, coVars, worldVars>>

ApplyCreateShared ==
    /\ Applies("CreateShared")
    /\ LET s == Head(applying).fd IN
        /\ kind' = [kind EXCEPT ![s] = "shared"]
        /\ waiting' = [waiting EXCEPT ![s] = <<>>]
    /\ UNCHANGED <<link, armed, updates, coVars, worldVars>>

(* data.erase(): the events of the descriptor are freed with its entry.     *)
Erase(f) ==
    /\ kind' = [kind EXCEPT ![f] = "none"]
    /\ armed' = armed \ {f}
    /\ link' = [o \in Owned |-> IF o = f THEN None ELSE link[o]]
    /\ waiting' = [s \in Shared |-> IF s = f THEN <<>> ELSE waiting[s]]
    /\ at' = [c \in Conn |-> IF c = f THEN "closed" ELSE at[c]]
    /\ strayed' = strayed \ {f}
    /\ peerClosed' = peerClosed \ {f}
    /\ UNCHANGED awaits

ApplyRemove ==
    /\ Applies("Remove")
    /\ Erase(Head(applying).fd)
    \* a removed descriptor that was owned is closed already, perhaps reused
    /\ ready' = ready \ ({Head(applying).fd} \intersect Conn)
    /\ UNCHANGED <<updates, owns, leased, pool>>

(* The coroutine runs to its end on the main thread, then its entry goes.   *)
ApplyExternallyClosed ==
    /\ Applies("ExternallyClosed")
    /\ Erase(Head(applying).fd)
    /\ Unwinds(Head(applying).fd)

(* SharedFD without the readEvent.add().                                    *)
ApplyRestoreQueuesOnly ==
    /\ Applies("Restore")
    /\ LET u == Head(applying)
           queued == u.fd \in Shared /\ kind[u.owner] = "stream"
       IN
        IF kind[u.fd] = "none" \/ (kind[u.fd] = "shared" /\ ~queued)
        THEN UNCHANGED <<waiting, armed>>
        ELSE /\ waiting' = [s \in Shared |->
                    IF s = u.fd THEN Append(waiting[s], u.owner) ELSE waiting[s]]
             /\ armed' = armed \union ({u.fd} \ Shared)
    /\ UNCHANGED <<kind, link, updates, coVars, worldVars>>

(* A wait for a shared descriptor is kept only when its owner is a stream.  *)
ApplyRestore ==
    /\ Applies("Restore")
    /\ LET u == Head(applying)
           queued == u.fd \in Shared /\ kind[u.owner] = "stream"
       IN
        IF kind[u.fd] = "none" \/ (kind[u.fd] = "shared" /\ ~queued)
        THEN UNCHANGED <<waiting, armed>>
        ELSE /\ waiting' = [s \in Shared |->
                    IF s = u.fd THEN Append(waiting[s], u.owner) ELSE waiting[s]]
             /\ armed' = armed \union {u.fd}
    /\ UNCHANGED <<kind, link, updates, coVars, worldVars>>

-----------------------------------------------------------------------------
Handler(w) ==
    \/ registerYield(w) \/ YieldRegistered(w) \/ Await(w)
    \/ Lease(w) \/ AwaitShared(w) \/ ReturnLease(w)
    \/ unregisterYield(w) \/ Finish(w) \/ HandlerThrows(w)

Apply ==
    \/ ApplyCreateStream \/ ApplyCreateOwned \/ ApplyCreateShared
    \/ ApplyRemove \/ ApplyExternallyClosed \/ ApplyRestore

Next ==
    \/ \E c \in Conn : Connected(c) \/ PeerCloses(c) \/ handleStreamEvent(c)
    \/ \E f \in Conn \union Owned : BecomesReady(f)
    \/ \E o \in Owned : handleLinkStreamEvent(o)
    \/ \E s \in Shared : registerSharedSocket(s) \/ handlePipeStreamEvent(s)
    \/ Tick \/ Apply
    \/ \E w \in Worker : Resume(w) \/ Handler(w) \/ PostTask(w)

Spec == Init /\ [][Next]_vars

-----------------------------------------------------------------------------
(* Every variable has its type.                                             *)
TypeOK ==
    /\ kind \in [Fd -> {"none", "stream", "owned", "shared"}]
    /\ link \in [Owned -> Conn \union {None}]
    /\ waiting \in [Shared -> Seq(Conn)]
    /\ armed \subseteq Fd
    /\ updates \in Seq(Update) /\ applying \in Seq(Update)
    /\ jobs \in Seq(Job)
    /\ held \in [Worker -> Job \union {NoJob}]
    /\ stage \in [Worker -> {"idle", "running", "registering", "registered",
                             "yielded"}]
    /\ task \in [Worker -> Task \union {None}]
    /\ at \in [Conn -> {"closed", "asleep", "running", "ended"}]
    /\ awaits \in [Conn -> Fd]
    /\ owns \in [Conn -> SUBSET Owned]
    /\ leased \in [Conn -> Shared \union {None}]
    /\ strayed \subseteq Conn
    /\ ready \subseteq Conn \union Owned
    /\ pool \in [Shared -> Nat]
    /\ peerClosed \subseteq Conn

Inside == {w \in Worker : stage[w] \in {"running", "registering"}}

(* Server.h:9-11: "Each thread only reads the object that it is acting on": *)
(* although a coroutine can be resumed through its own descriptor, through  *)
(* those it owns and through shared ones, no two threads are ever in it.    *)
OneRunner ==
    \A v, w \in Inside : held[v].co = held[w].co => v = w

(* A job resumes a coroutine where it sleeps, for the descriptor it sleeps  *)
(* on, and once: neither an event of a descriptor that was closed and whose *)
(* number was reused, nor one of a descriptor the coroutine did wait for    *)
(* before, wakes it.                                                        *)
ResumesItsWait ==
    /\ \A j \in Elements(jobs) : at[j.co] = "asleep" /\ awaits[j.co] = j.fd
    /\ \A i, k \in DOMAIN jobs : jobs[i].co = jobs[k].co => i = k

(* The plain pointers to the coroutine of a connection that OwnedFD,        *)
(* SharedFD and a job keep (Store.h:64-76) are never used when its entry is *)
(* gone: an event that could follow one is not added any more.              *)
NoDangling ==
    /\ \A o \in armed \intersect Owned : kind[link[o]] = "stream"
    /\ \A s \in Shared : \A c \in Elements(waiting[s]) : kind[c] = "stream"
    /\ \A j \in Elements(jobs) \union {held[w] : w \in Worker} :
        j # NoJob => kind[j.co] = "stream"

WaitPends(c) ==
    \/ \E j \in Elements(jobs) : j.co = c
    \/ \E w \in Worker : held[w].co = c
    \/ \E u \in Pending :
        /\ u.fd = awaits[c]
        /\ u.op \in {"CreateStream", "ExternallyClosed", "Restore"}
        /\ u.op = "Restore" /\ u.fd \in Shared => u.owner = c
    \/ awaits[c] \in armed /\
        \/ awaits[c] = c
        \/ awaits[c] \in Owned /\ link[awaits[c]] = c
        \/ awaits[c] \in Shared /\ c \in Elements(waiting[awaits[c]])

(* Whoever sleeps is known to what will wake it, except one that waits for  *)
(* a shared descriptor in a job that is not one of its own stream: its      *)
(* owner is not a stream then and the wait is dropped (Store.cpp:239).      *)
SleeperKnown ==
    \A c \in Conn : at[c] = "asleep" => WaitPends(c) \/ c \in strayed

(* A coroutine that has ended leaves the map, also when its last job came   *)
(* from another descriptor (TaskYieldAction::fd, not the job's).            *)
EndedLeaves ==
    \A c \in Conn : at[c] = "ended" =>
        \/ \E w \in Worker : held[w].co = c
        \/ \E u \in Pending : u.op = "Remove" /\ u.fd = c
=============================================================================

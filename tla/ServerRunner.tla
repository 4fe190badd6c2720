---------------------------- MODULE ServerRunner ----------------------------
(***************************************************************************)
(* The life of a Server that a ServerRunner runs in a thread of its own: it *)
(* is made known to the owner's thread, called, stopped (by its owner, or   *)
(* by a handler such as PyntControl), and destroyed member by member while  *)
(* workers may still run.  What the loop does meanwhile is the subject of   *)
(* NisseServer: here a connection is where its coroutine is suspended.      *)
(***************************************************************************)
EXTENDS Integers, Sequences

CONSTANTS
    Worker,
    Connections,    \* how many connections there are, numbered from 1
    MaxEvents,      \* bound: requests, and parts of requests, that arrive
    MaxCalls        \* bound: uses of callServer()

ASSUME RunnerAssumption ==
    Connections \in Nat /\ MaxEvents \in Nat /\ MaxCalls \in Nat

Connection == 1 .. Connections
Idle == 0
Exited == -1

VARIABLES
    owner,          \* where the thread is that owns the ServerRunner
    mutex,          \* "owner" while that thread holds it; the runner
                    \* releases it in the step that takes it
    activeServer,   \* is it set?
    calls,          \* uses of callServer() so far
    runner,         \* where the thread is that runs the server
    alive,          \* the members of the server that exist
    finished,       \* EventHandler::finished
    co,             \* where the coroutine of a connection is suspended: before
                    \* its first request ("wait"), inside one ("mid"), behind
                    \* one ("more") or at its end ("remove"); or it has "ended"
    input,          \* the client has sent what the connection waits for
    events,         \* how often a client has sent something
    jobs,           \* JobQueue::workQueue, as connections
    held,           \* the connection whose job a worker runs, Idle, or Exited
    jobsFinished,   \* JobQueue::finished
    clashed         \* a coroutine was resumed by two threads at once, or a job
                    \* of a connection that is gone was run: undefined behaviour

workVars == <<co, input, events, jobs, held>>
vars == <<owner, mutex, activeServer, calls, runner, alive, finished,
          co, input, events, jobs, held, jobsFinished, clashed>>

Members == {"jobQueue", "store", "eventHandler"}

Init ==
    /\ owner = "starting" /\ mutex = "none" /\ calls = 0
    /\ activeServer = FALSE
    /\ runner = "building" /\ alive = {}
    \* ~Store() finds what the flag was when the object was made
    /\ finished = FALSE /\ jobsFinished = FALSE
    /\ co = [c \in Connection |-> "none"]
    /\ input = [c \in Connection |-> FALSE]
    /\ events = 0
    /\ jobs = <<>>
    /\ held = [w \in Worker |-> Idle]
    /\ clashed = FALSE

Refers(c) == (\E i \in DOMAIN jobs : jobs[i] = c) \/ \E w \in Worker : held[w] = c

-----------------------------------------------------------------------------
(* The owner: the constructor, callServer() and the destructor.             *)

OwnerStep(from, to) ==
    /\ owner = from /\ owner' = to
    /\ UNCHANGED <<runner, alive, activeServer, workVars, jobsFinished, clashed>>

(* The constructor looks, under the lock, whether the server is known, and  *)
(* else falls asleep, which releases the lock.                              *)
Looks(from) ==
    /\ mutex = "none"
    /\ \/ activeServer /\ OwnerStep(from, "ready") /\ UNCHANGED mutex
       \/ ~activeServer /\ OwnerStep(from, "falling") /\ mutex' = "owner"
    /\ UNCHANGED <<calls, finished>>

FallsAsleep ==
    /\ OwnerStep("falling", "asleep")
    /\ mutex' = "none"
    /\ UNCHANGED <<calls, finished>>

(* callServer() and ~ServerRunner() hold the lock while they use the server.*)
CallBegins ==
    /\ mutex = "none" /\ activeServer
    /\ calls < MaxCalls
    /\ OwnerStep("ready", "calling")
    /\ mutex' = "owner"
    /\ calls' = calls + 1
    /\ UNCHANGED finished

\* one of the calls is stopHard()
CallEnds ==
    /\ OwnerStep("calling", "ready")
    /\ mutex' = "none"
    /\ finished' \in {finished, TRUE}
    /\ UNCHANGED calls

DestroyBegins ==
    /\ mutex = "none"
    /\ \/ activeServer /\ OwnerStep("ready", "halting") /\ mutex' = "owner"
       \/ ~activeServer /\ OwnerStep("ready", "joining") /\ UNCHANGED mutex
    /\ UNCHANGED <<calls, finished>>

DestroyStops ==
    /\ OwnerStep("halting", "joining")
    /\ finished' = TRUE
    /\ mutex' = "none"
    /\ UNCHANGED calls

Joined ==
    /\ runner = "ended"
    /\ OwnerStep("joining", "gone")
    /\ UNCHANGED <<mutex, calls, finished>>

Owner ==
    \/ Looks("starting") \/ FallsAsleep \/ Looks("woken")
    \/ CallBegins \/ CallEnds
    \/ DestroyBegins \/ DestroyStops \/ Joined

-----------------------------------------------------------------------------
(* The runner.                                                              *)

RunnerStep(from, to) ==
    runner = from /\ runner' = to /\ UNCHANGED <<calls, input, events, jobs, held>>

Build ==
    /\ RunnerStep("building", "starting")
    /\ alive' = Members
    /\ UNCHANGED <<owner, mutex, activeServer, finished, co, jobsFinished, clashed>>

Notified == owner' = IF owner = "asleep" THEN "woken" ELSE owner

(* run() that makes the server known and clears the flags then.             *)
RunNoticesFirst ==
    /\ \/ /\ RunnerStep("starting", "noticing")
          /\ mutex = "none"
          /\ activeServer' = TRUE
          /\ Notified
          /\ UNCHANGED finished
       \/ /\ RunnerStep("noticing", "looping")
          /\ finished' = FALSE
          /\ UNCHANGED <<activeServer, owner>>
    /\ UNCHANGED <<alive, mutex, co, jobsFinished, clashed>>

(* A notice that takes no lock.                                             *)
RunNoticesUnlocked ==
    /\ \/ /\ RunnerStep("starting", "noticing")
          /\ finished' = FALSE
          /\ UNCHANGED <<activeServer, owner>>
       \/ /\ RunnerStep("noticing", "looping")
          /\ activeServer' = TRUE
          /\ Notified
          /\ UNCHANGED finished
    /\ UNCHANGED <<alive, mutex, co, jobsFinished, clashed>>

(* EventHandler::run(): the flags are cleared; then the server is made      *)
(* known, under the lock, and the loop begins.                              *)
Run ==
    /\ \/ /\ RunnerStep("starting", "noticing")
          /\ finished' = FALSE
          /\ UNCHANGED <<activeServer, owner>>
       \/ /\ RunnerStep("noticing", "looping")
          /\ mutex = "none"
          /\ activeServer' = TRUE
          /\ Notified
          /\ UNCHANGED finished
    /\ UNCHANGED <<alive, mutex, co, jobsFinished, clashed>>

(* controlTimerAction(): whatever the workers do, the loop ends.            *)
LoopBreaks ==
    /\ finished
    /\ RunnerStep("looping", "returned")
    /\ UNCHANGED <<owner, mutex, activeServer, alive, finished, co, jobsFinished, clashed>>

(* A server that is destroyed before it is made unknown.                    *)
LeaveLate ==
    /\ \/ /\ RunnerStep("returned", "leaving")
          /\ alive' = Members \ {"eventHandler"}
          /\ UNCHANGED activeServer
       \/ /\ RunnerStep("leaving", "unwinding")
          /\ mutex = "none"
          /\ activeServer' = FALSE
          /\ UNCHANGED alive
    /\ UNCHANGED <<owner, mutex, finished, co, jobsFinished, clashed>>

(* The server is made unknown under the lock; then its members go, the one  *)
(* that was made last first.                                                *)
Leave ==
    /\ \/ /\ RunnerStep("returned", "leaving")
          /\ mutex = "none"
          /\ activeServer' = FALSE
          /\ UNCHANGED alive
       \/ /\ RunnerStep("leaving", "unwinding")
          /\ alive' = Members \ {"eventHandler"}
          /\ UNCHANGED activeServer
    /\ UNCHANGED <<owner, mutex, finished, co, jobsFinished, clashed>>

Unended == {c \in Connection : co[c] \notin {"none", "ended"}}
First(places) == CHOOSE c \in places : \A d \in places : c <= d

(* Where a resumed coroutine of a server that is being destroyed gets to.   *)
(* Inside a request nothing tells it so: it tries to read again.            *)
Unwound(c) ==
    CASE co[c] \in {"wait", "remove"} -> {"ended"}
      [] co[c] = "more" -> {"remove"}
      [] OTHER -> IF input[c] THEN {"more", "remove"} ELSE {"mid"}

(* ~Store(): each coroutine is resumed until it ends.                       *)
Unwind ==
    LET c == First(Unended) IN
    /\ Unended # {}
    /\ RunnerStep("unwinding", "unwinding")
    /\ \E to \in Unwound(c) : co' = [co EXCEPT ![c] = to]
    /\ clashed' = (clashed \/ \E w \in Worker : held[w] = c)
    /\ UNCHANGED <<owner, mutex, activeServer, alive, finished, jobsFinished>>

(* ~Store() is done.                                                        *)
DestroyStore ==
    /\ Unended = {}
    /\ RunnerStep("unwinding", "stopping")
    /\ alive' = alive \ {"store"}
    /\ UNCHANGED <<owner, mutex, activeServer, finished, co, jobsFinished, clashed>>

(* ~JobQueue(): the workers are told, whatever is queued, and waited for.   *)
StopJobs ==
    /\ RunnerStep("stopping", "waiting")
    /\ jobsFinished' = TRUE
    /\ UNCHANGED <<owner, mutex, activeServer, alive, finished, co, clashed>>

JoinJobs ==
    /\ \A w \in Worker : held[w] = Exited
    /\ RunnerStep("waiting", "ended")
    /\ alive' = {}
    /\ UNCHANGED <<owner, mutex, activeServer, finished, co, jobsFinished, clashed>>

Runner ==
    \/ Build \/ Run \/ LoopBreaks \/ Leave
    \/ Unwind \/ DestroyStore \/ StopJobs \/ JoinJobs

-----------------------------------------------------------------------------
(* Connections and workers.                                                 *)

WorkStep == UNCHANGED <<owner, mutex, activeServer, calls, runner, alive, jobsFinished>>

Connect(c) ==
    /\ WorkStep
    /\ runner = "looping" /\ co[c] = "none"
    /\ co' = [co EXCEPT ![c] = "wait"]
    /\ UNCHANGED <<input, events, jobs, held, finished, clashed>>

ClientSends(c) ==
    /\ WorkStep
    /\ events < MaxEvents
    /\ co[c] \notin {"none", "ended"} /\ ~input[c]
    /\ input' = [input EXCEPT ![c] = TRUE]
    /\ events' = events + 1
    /\ UNCHANGED <<co, jobs, held, finished, clashed>>

(* The loop turns the event into a job.                                     *)
Event(c) ==
    /\ WorkStep
    /\ runner = "looping"
    /\ input[c] /\ ~Refers(c) /\ co[c] \in {"wait", "mid", "more"}
    /\ jobs' = Append(jobs, c)
    /\ UNCHANGED <<co, input, events, held, finished, clashed>>

Takes(w) ==
    /\ WorkStep
    /\ held[w] = Idle /\ ~jobsFinished /\ jobs # <<>>
    /\ held' = [held EXCEPT ![w] = Head(jobs)]
    /\ jobs' = Tail(jobs)
    /\ UNCHANGED <<co, input, events, finished, clashed>>

(* The job runs until the coroutine is suspended again, or has ended.  The  *)
(* handler may be one that stops the server.                                *)
Runs(w) ==
    LET c == held[w] IN
    /\ WorkStep
    /\ c \notin {Idle, Exited}
    /\ held' = [held EXCEPT ![w] = Idle]
    /\ IF co[c] = "ended"
       THEN clashed' = TRUE /\ UNCHANGED <<co, input, finished>>
       ELSE /\ \E to \in {"mid", "more", "ended"} : co' = [co EXCEPT ![c] = to]
            /\ input' = [input EXCEPT ![c] = FALSE]
            /\ finished' \in {finished, TRUE}
            /\ UNCHANGED clashed
    /\ UNCHANGED <<events, jobs>>

Exits(w) ==
    /\ WorkStep
    /\ held[w] = Idle /\ jobsFinished
    /\ held' = [held EXCEPT ![w] = Exited]
    /\ UNCHANGED <<co, input, events, jobs, finished, clashed>>

Works(w) == Takes(w) \/ Runs(w) \/ Exits(w)

Next ==
    \/ Owner \/ Runner
    \/ \E c \in Connection : Connect(c) \/ ClientSends(c) \/ Event(c)
    \/ \E w \in Worker : Works(w)

(* Threads run, handlers return, the loop turns.  Nobody has to call the    *)
(* server, to destroy it or to send anything.                               *)
Fairness ==
    /\ WF_vars(Looks("starting") \/ FallsAsleep \/ Looks("woken"))
    /\ WF_vars(CallEnds) /\ WF_vars(DestroyStops \/ Joined)
    /\ WF_vars(Runner)
    /\ \A w \in Worker : WF_vars(Works(w))

Spec == Init /\ [][Next]_vars /\ Fairness

-----------------------------------------------------------------------------
(* Every variable has its type.                                             *)
TypeOK ==
    /\ owner \in {"starting", "falling", "asleep", "woken", "ready", "calling",
                  "halting", "joining", "gone"}
    /\ mutex \in {"none", "owner"}
    /\ calls \in 0 .. MaxCalls /\ events \in 0 .. MaxEvents
    /\ runner \in {"building", "starting", "noticing", "looping", "returned",
                   "leaving", "unwinding", "stopping", "waiting", "ended"}
    /\ alive \subseteq Members
    /\ activeServer \in BOOLEAN /\ finished \in BOOLEAN
    /\ jobsFinished \in BOOLEAN /\ clashed \in BOOLEAN
    /\ co \in [Connection -> {"none", "wait", "mid", "more", "remove", "ended"}]
    /\ input \in [Connection -> BOOLEAN]
    /\ jobs \in Seq(Connection)
    /\ held \in [Worker -> Connection \union {Idle, Exited}]

(* Whoever calls the server through its runner, and the destructor that     *)
(* stops it, meets a whole server, though the thread that owns it may be    *)
(* told to stop by a handler and destroy it at any moment (Server.h:87-113);*)
(* and a worker that runs a job works for a queue that still exists.        *)
CallsMeetServer ==
    /\ owner \in {"calling", "halting"} => alive = Members
    /\ (\E w \in Worker : held[w] \in Connection) => "jobQueue" \in alive

(* ~Store() waits for a client inside a request.                            *)
AwaitsClient ==
    /\ runner = "unwinding" /\ Unended # {}
    /\ co[First(Unended)] = "mid" /\ ~input[First(Unended)]

(* A server that its owner stops ends, and with it the destructor, unless a *)
(* client is silent in the middle of a request: a stop is not lost between  *)
(* the moment the server is known and the loop (EventHandler.cpp:59-62).    *)
StopEnds == (owner = "joining") ~> (owner = "gone" \/ AwaitsClient \/ clashed)

(* The constructor returns, unless the server was stopped by a handler      *)
(* before its owner woke up (Server.h:92-93).                               *)
ConstructorReturns ==
    (owner \in {"starting", "falling", "asleep", "woken"})
        ~> (owner = "ready" \/ finished)

(* Server.h:9-11: the store is thread safe as "each thread only reads the   *)
(* object that it is acting on".                                            *)
TeardownAlone == ~clashed
=============================================================================

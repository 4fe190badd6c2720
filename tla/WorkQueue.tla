----------------------------- MODULE WorkQueue -----------------------------
(***************************************************************************)
(* What NisseServer's JobQueue promises to the rest of the server, without *)
(* threads, mutex or condition variable: jobs wait in the order they were  *)
(* added, they are started in that order and each at most once, no more    *)
(* than one per worker is in progress, none is started once the queue is   *)
(* closed, and when stop() has returned none is in progress any more.      *)
(* JobQueue implements this specification (see ImplementsWorkQueue there). *)
(***************************************************************************)
EXTENDS Naturals, Sequences, FiniteSets

CONSTANTS
    Job,            \* the jobs that may be handed to the queue
    Capacity        \* how many jobs may be in progress together

VARIABLES
    pending,        \* the jobs added and not yet started, oldest first
    running,        \* the jobs in progress
    done,           \* the jobs that have run to their end
    phase           \* "open", then "closed" once a stop began, then "joined"

workQueueVars == <<pending, running, done, phase>>

Init ==
    /\ pending = <<>>
    /\ running = {}
    /\ done = {}
    /\ phase = "open"

(* A job enters the queue; even a closed queue accepts it (and keeps it).   *)
Add(job) ==
    /\ job \notin running \union done
    /\ \A i \in DOMAIN pending : pending[i] # job
    /\ pending' = Append(pending, job)
    /\ UNCHANGED <<running, done, phase>>

(* The oldest job starts, if a worker is free and the queue is open.        *)
Start ==
    /\ phase = "open"
    /\ pending # <<>>
    /\ Cardinality(running) < Capacity
    /\ running' = running \union {Head(pending)}
    /\ pending' = Tail(pending)
    /\ UNCHANGED <<done, phase>>

Finish(job) ==
    /\ job \in running
    /\ running' = running \ {job}
    /\ done' = done \union {job}
    /\ UNCHANGED <<pending, phase>>

Close ==
    /\ phase = "open"
    /\ phase' = "closed"
    /\ UNCHANGED <<pending, running, done>>

(* stop() returns: every worker has been joined.                            *)
Join ==
    /\ phase = "closed"
    /\ running = {}
    /\ phase' = "joined"
    /\ UNCHANGED <<pending, running, done>>

Next ==
    \/ Start \/ Close \/ Join
    \/ \E job \in Job : Add(job) \/ Finish(job)

Spec == Init /\ [][Next]_workQueueVars
=============================================================================

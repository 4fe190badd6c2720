----------------------------- MODULE Connection -----------------------------
(***************************************************************************)
(* What the server promises to whoever writes a handler as straight-line   *)
(* blocking code: each descriptor has one flow of control, which sleeps,   *)
(* waits for a thread, runs on one thread, or has ended.  It is run by at  *)
(* most one thread at a time and never by more threads than there are,     *)
(* it is woken before it runs again, and it disappears only while it       *)
(* sleeps or when it has ended.  NisseServer implements this specification *)
(* (see ImplementsConnection there).                                       *)
(***************************************************************************)
EXTENDS Naturals, FiniteSets

CONSTANTS
    Fd,             \* the descriptors
    Threads         \* how many threads run flows of control

VARIABLE flow       \* [Fd -> the state of its flow of control]

Flow == {"closed", "asleep", "ready", "running", "ended"}

Init == flow = [f \in Fd |-> "closed"]

Moves(f, from, to) ==
    /\ flow[f] \in from
    /\ flow' = [flow EXCEPT ![f] = to]

Register(f) == Moves(f, {"closed"}, "asleep")

Wake(f) == Moves(f, {"asleep"}, "ready")

Dispatch(f) ==
    /\ Cardinality({g \in Fd : flow[g] = "running"}) < Threads
    /\ Moves(f, {"ready"}, "running")

Suspend(f) == Moves(f, {"running"}, "asleep")

(* The handler returns or throws, on a worker or, its client gone, without. *)
End(f) == Moves(f, {"running", "asleep"}, "ended")

Close(f) == Moves(f, {"asleep", "ended"}, "closed")

Next ==
    \E f \in Fd :
        \/ Register(f) \/ Wake(f) \/ Dispatch(f)
        \/ Suspend(f) \/ End(f) \/ Close(f)

Spec == Init /\ [][Next]_flow
=============================================================================

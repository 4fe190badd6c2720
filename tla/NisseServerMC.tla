--------------------------- MODULE NisseServerMC ---------------------------
(* Instances of NisseServer small enough for TLC.                           *)
EXTENDS NisseServer, TLC

Symmetry == Permutations(Worker) \union Permutations(Stream)
=============================================================================

------------------------------ MODULE MCRunFeed ------------------------------
(* Instances of RunFeed for TLC. *)
EXTENDS RunFeed, TLC

\* Runs are interchangeable, and so are clients: sound for the safety runs.
Symmetry == Permutations(Runs) \cup Permutations(Clients)
=============================================================================

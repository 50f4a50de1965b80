------------------------- MODULE MCRuntimeRegistry -------------------------
(* Small instances of RuntimeRegistry for TLC. *)
EXTENDS RuntimeRegistry, TLC

Symmetry == Permutations(Procs) \cup Permutations(Runtimes)
=============================================================================

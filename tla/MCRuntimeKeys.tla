--------------------------- MODULE MCRuntimeKeys ---------------------------
(* Small instances of RuntimeKeys for TLC. *)
EXTENDS RuntimeKeys, TLC

Symmetry ==
    Permutations(Procs) \cup Permutations(Keys) \cup Permutations(Runtimes)
=============================================================================

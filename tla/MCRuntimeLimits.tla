--------------------------- MODULE MCRuntimeLimits ---------------------------
(* Small instances of RuntimeLimits for TLC. *)
EXTENDS RuntimeLimits, TLC

Symmetry == Permutations(Procs) \cup Permutations(Runtimes)
                \cup Permutations(Limits) \cup Permutations(Models)
=============================================================================

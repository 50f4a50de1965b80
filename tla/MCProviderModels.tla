--------------------------- MODULE MCProviderModels ---------------------------
(* Small instances of ProviderModels for TLC. *)
EXTENDS ProviderModels, TLC

Symmetry == Permutations(Procs)
=============================================================================

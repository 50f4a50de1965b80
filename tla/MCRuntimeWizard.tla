---------------------------- MODULE MCRuntimeWizard ----------------------------
(* Small instances of RuntimeWizard for TLC. *)
EXTENDS RuntimeWizard, TLC

Symmetry == Permutations(Tabs) \cup Permutations(Runtimes)
=============================================================================

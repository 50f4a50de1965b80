------------------------------ MODULE MCAgentSpecs -----------------------------
(* Small instances of AgentSpecs for TLC. *)
EXTENDS AgentSpecs, TLC

Symmetry == Permutations(Procs) \cup Permutations(Agents) \cup Permutations(Skills)
=============================================================================

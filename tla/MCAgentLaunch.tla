---------------------------- MODULE MCAgentLaunch ----------------------------
(* Small instances of AgentLaunch for TLC. *)
EXTENDS AgentLaunch, TLC

Symmetry == Permutations(Procs) \cup Permutations(Agents)
=============================================================================

----------------------------- MODULE AgentRequests -----------------------------
(***************************************************************************)
(* What AgentLaunch and AgentSpecs, the two halves of an agent, are both   *)
(* about: the requests, and the agents they are for.                       *)
(***************************************************************************)

CONSTANTS
    Procs,      \* concurrent requests
    Agents,     \* slugs, which are runtime ids too
    NoProc, NoAgent

=============================================================================

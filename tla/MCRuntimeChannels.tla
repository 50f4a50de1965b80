--------------------------- MODULE MCRuntimeChannels ---------------------------
(* Small instances of RuntimeChannels for TLC. *)
EXTENDS RuntimeChannels, TLC

CONSTANTS telegram, slack, search, token, allow, slackToken

MCOwner == token :> telegram @@ allow :> telegram @@ slackToken :> slack

Symmetry == Permutations(Procs)
=============================================================================

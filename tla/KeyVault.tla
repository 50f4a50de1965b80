------------------------------ MODULE KeyVault ------------------------------
(***************************************************************************)
(* What the handling of LiteLLM keys promises, whatever happens to the     *)
(* calls it is made of: a key is generated for one runtime and is only     *)
(* ever stored for, and used by, this runtime; a key is stored while       *)
(* LiteLLM accepts it; and a key that LiteLLM has once rejected is not     *)
(* accepted, hence not stored, ever again.                                 *)
(*                                                                         *)
(* RuntimeKeys implements this specification (RuntimeKeys!Vault).          *)
(***************************************************************************)

CONSTANTS Runtimes, Keys, NoKey, NoRuntime

VARIABLES owner, live, stored, loaded

vaultVars == <<owner, live, stored, loaded>>

Init ==
    /\ owner = [k \in Keys |-> NoRuntime]
    /\ live = {}
    /\ stored = [r \in Runtimes |-> NoKey]
    /\ loaded = [r \in Runtimes |-> NoKey]

\* A key comes into being for one runtime.
Mint(r, k) ==
    /\ owner[k] = NoRuntime
    /\ owner' = [owner EXCEPT ![k] = r]
    /\ live' = live \cup {k}
    /\ UNCHANGED <<stored, loaded>>

\* LiteLLM stops accepting a key, for good.
Kill(k) ==
    /\ live' = live \ {k}
    /\ UNCHANGED <<owner, stored, loaded>>

\* A live key of the runtime becomes its secret.
Keep(r, k) ==
    /\ owner[k] = r
    /\ k \in live
    /\ stored' = [stored EXCEPT ![r] = k]
    /\ UNCHANGED <<owner, live, loaded>>

Forget(r) ==
    /\ stored' = [stored EXCEPT ![r] = NoKey]
    /\ UNCHANGED <<owner, live, loaded>>

\* The gateway takes up the secret of its own runtime, or loses its process.
Use(r) ==
    /\ loaded' = [loaded EXCEPT ![r] = stored[r]]
    /\ UNCHANGED <<owner, live, stored>>

Quit(r) ==
    /\ loaded' = [loaded EXCEPT ![r] = NoKey]
    /\ UNCHANGED <<owner, live, stored>>

Next ==
    \/ \E k \in Keys : Kill(k)
    \/ \E r \in Runtimes, k \in Keys : Mint(r, k) \/ Keep(r, k)
    \/ \E r \in Runtimes : Forget(r) \/ Use(r) \/ Quit(r)

Spec == Init /\ [][Next]_vaultVars

=============================================================================

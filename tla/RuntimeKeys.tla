----------------------------- MODULE RuntimeKeys -----------------------------
(***************************************************************************)
(* The life of a runtime's LiteLLM virtual key: it is generated by the     *)
(* LiteLLM gateway, stored as LITELLM_API_KEY in the runtime's own         *)
(* Infisical project, and read from there by the gateway container when    *)
(* it boots.  Three services that know nothing of one another are kept in  *)
(* step by code that can stop between any two of its calls.                *)
(*                                                                         *)
(* Source: orchestrator/service_layer.py (create_or_update_runtime,        *)
(* rotate_runtime_key, revoke_runtime_key), orchestrator/infisical.py,     *)
(* orchestrator/litellm.py.                                                *)
(*                                                                         *)
(* What is kept: the order of the external calls of each operation, which  *)
(* exceptions are swallowed and which end it, the SQLite write lock that   *)
(* create_or_update_runtime holds from its first write to its commit, and  *)
(* what a rollback can and cannot take back.                               *)
(* What is left out: limits and the model carried by a key                 *)
(* (RuntimeLimits), and the DB/JSON/compose records (RuntimeRegistry).     *)
(***************************************************************************)
EXTENDS Integers, FiniteSets

CONSTANTS
    Procs,      \* concurrent requests of the web server and CLI processes
    Runtimes,   \* runtime ids, each with an Infisical project of its own
    Keys,       \* virtual keys LiteLLM can generate; bounds the rotations
    NoKey, NoProc, NoRuntime

ASSUME NullAssumption ==
    /\ NoKey \notin Keys
    /\ NoProc \notin Procs
    /\ NoRuntime \notin Runtimes

VARIABLES
    rows,     \* runtimes with a committed Runtime row
    owner,    \* owner[k]: the runtime named in the metadata of key k
    live,     \* the keys LiteLLM accepts
    stored,   \* stored[r]: LITELLM_API_KEY in the project of r
    gateway,  \* gateway[r]: state of the gateway container of r
    loaded,   \* loaded[r]: the key its process was started with
    writer,   \* the operation inside the transaction of create_or_update
    pc, rt, seen, new,  \* an operation's position, runtime and local keys
    strays,   \* history: keys a failing or racing step let go of
    debt      \* history: what a broken-off operation left undone

keyVars  == <<owner, live, stored>>
runVars  == <<gateway, loaded>>
procVars == <<pc, rt, seen, new>>
vars == <<rows, owner, live, stored, gateway, loaded, writer,
          pc, rt, seen, new, strays, debt>>

-----------------------------------------------------------------------------

CreateSteps == {"lookup", "drop", "generate", "store", "up", "commit"}
RevokeSteps == {"rv_lookup", "rv_drop", "rv_forget", "rv_save"}
Steps       == {"idle", "enter"} \cup CreateSteps \cup RevokeSteps

Debts == {"dead_secret", "stale_gateway"}

TypeOK ==
    /\ rows \subseteq Runtimes
    /\ owner \in [Keys -> Runtimes \cup {NoRuntime}]
    /\ live \subseteq Keys
    /\ stored \in [Runtimes -> Keys \cup {NoKey}]
    /\ gateway \in [Runtimes -> {"absent", "stopped", "starting", "running"}]
    /\ loaded \in [Runtimes -> Keys \cup {NoKey}]
    /\ writer \in Procs \cup {NoProc}
    /\ pc \in [Procs -> Steps]
    /\ rt \in [Procs -> Runtimes \cup {NoRuntime}]
    /\ seen \in [Procs -> Keys \cup {NoKey}]
    /\ new \in [Procs -> Keys \cup {NoKey}]
    /\ strays \subseteq Keys
    /\ debt \in [Runtimes -> SUBSET Debts]

Init ==
    /\ rows = {}
    /\ owner = [k \in Keys |-> NoRuntime]
    /\ live = {}
    /\ stored = [r \in Runtimes |-> NoKey]
    /\ gateway = [r \in Runtimes |-> "absent"]
    /\ loaded = [r \in Runtimes |-> NoKey]
    /\ writer = NoProc
    /\ pc = [p \in Procs |-> "idle"]
    /\ rt = [p \in Procs |-> NoRuntime]
    /\ seen = [p \in Procs |-> NoKey]
    /\ new = [p \in Procs |-> NoKey]
    /\ strays = {}
    /\ debt = [r \in Runtimes |-> {}]

(***************************************************************************)
(* Bookkeeping of an operation: it moves on, or it is over -- returned,    *)
(* raised or killed -- and its locals are gone.                            *)
(***************************************************************************)
Goto(p, step) == pc' = [pc EXCEPT ![p] = step]

Over(p) ==
    /\ Goto(p, "idle")
    /\ rt' = [rt EXCEPT ![p] = NoRuntime]
    /\ seen' = [seen EXCEPT ![p] = NoKey]
    /\ new' = [new EXCEPT ![p] = NoKey]

Owe(r, what)   == debt' = [debt EXCEPT ![r] = @ \cup what]
Settle(r, what) == debt' = [debt EXCEPT ![r] = @ \ what]

\* The keys among K, NoKey left aside.
Real(K) == K \cap Keys

-----------------------------------------------------------------------------
(***************************************************************************)
(* create_or_update_runtime                                                *)
(***************************************************************************)

\* A create request; nothing is checked before the transaction begins.
Create(p, r) ==
    /\ pc[p] = "idle"
    /\ Goto(p, "enter")
    /\ rt' = [rt EXCEPT ![p] = r]
    /\ UNCHANGED <<rows, keyVars, runVars, writer, seen, new, strays, debt>>

\* rotate_runtime_key is a create request for a row that get_runtime found;
\* get_runtime itself writes (bootstrap_reference_data) and needs the lock.
Rotate(p, r) ==
    /\ pc[p] = "idle"
    /\ r \in rows
    /\ writer = NoProc
    /\ Goto(p, "enter")
    /\ rt' = [rt EXCEPT ![p] = r]
    /\ UNCHANGED <<rows, keyVars, runVars, writer, seen, new, strays, debt>>

\* Mutant: create_or_update_runtime without @transaction.atomic.
EnterMutant(p) ==
    /\ pc[p] = "enter"
    /\ writer' = p
    /\ Goto(p, "lookup")
    /\ UNCHANGED <<rows, keyVars, runVars, rt, seen, new, strays, debt>>

\* The transaction's first write takes SQLite's only write lock.
Enter(p) ==
    /\ pc[p] = "enter"
    /\ writer = NoProc
    /\ writer' = p
    /\ Goto(p, "lookup")
    /\ UNCHANGED <<rows, keyVars, runVars, rt, seen, new, strays, debt>>

\* Mutant: None is taken for a key that was lost.
LookupNoneMutant(p) ==
    /\ pc[p] = "lookup"
    /\ seen' = [seen EXCEPT ![p] = NoKey]
    /\ strays' = strays \cup {stored[rt[p]]}
    /\ Goto(p, "generate")
    /\ UNCHANGED <<rows, keyVars, runVars, writer, rt, new, debt>>

\* Mutant: `if current_key` is missing before the deletion.
LookupMutant(p) ==
    /\ pc[p] = "lookup"
    /\ seen' = [seen EXCEPT ![p] = stored[rt[p]]]
    /\ Goto(p, "drop")
    /\ UNCHANGED <<rows, keyVars, runVars, writer, rt, new, strays, debt>>

\* _current_runtime_key: the stored key, or None for any InfisicalError.
\* A failed read of a key that is there looks like a key that is not.
Lookup(p) ==
    /\ pc[p] = "lookup"
    /\ \/ /\ seen' = [seen EXCEPT ![p] = stored[rt[p]]]
          /\ UNCHANGED strays
       \/ /\ seen' = [seen EXCEPT ![p] = NoKey]
          /\ strays' = strays \cup Real({stored[rt[p]]})
    /\ Goto(p, IF seen'[p] = NoKey THEN "generate" ELSE "drop")
    /\ UNCHANGED <<rows, keyVars, runVars, writer, rt, new, debt>>

\* Mutant: the old key is left alone.
DropMutant(p) ==
    /\ pc[p] = "drop"
    /\ Goto(p, "generate")
    /\ UNCHANGED <<rows, keyVars, runVars, writer, rt, seen, new, strays, debt>>

\* delete_virtual_key; an HTTP error status is a LiteLLMError and swallowed.
Drop(p) ==
    /\ pc[p] = "drop"
    /\ \/ /\ live' = live \ {seen[p]}
          /\ UNCHANGED strays
       \/ /\ strays' = strays \cup ({seen[p]} \cap live)
          /\ UNCHANGED live
    /\ Goto(p, "generate")
    /\ UNCHANGED <<rows, owner, stored, runVars, writer, rt, seen, new, debt>>

\* create_virtual_key: LiteLLM generates a key nobody has seen before.
Issue(p, k) ==
    /\ owner[k] = NoRuntime
    /\ owner' = [owner EXCEPT ![k] = rt[p]]
    /\ live' = live \cup {k}

Generate(p) ==
    /\ pc[p] = "generate"
    /\ \E k \in Keys :
          /\ Issue(p, k)
          /\ new' = [new EXCEPT ![p] = k]
    /\ Goto(p, "store")
    /\ UNCHANGED <<rows, stored, runVars, writer, rt, seen, strays, debt>>

\* Mutant: POST fails on the secret that exists, and PATCH is forgotten.
StoreMutant(p) ==
    /\ pc[p] = "store"
    /\ stored' = [stored EXCEPT ![rt[p]] = IF @ = NoKey THEN new[p] ELSE @]
    /\ Goto(p, "up")
    /\ Settle(rt[p], {"dead_secret"})
    /\ UNCHANGED <<rows, owner, live, runVars, writer, rt, seen, new, strays>>

\* Mutant: the key read before is written back.
StoreOldMutant(p) ==
    /\ pc[p] = "store"
    /\ stored' = [stored EXCEPT ![rt[p]] = seen[p]]
    /\ Goto(p, "up")
    /\ Settle(rt[p], {"dead_secret"})
    /\ UNCHANGED <<rows, owner, live, runVars, writer, rt, seen, new, strays>>

\* upsert_secret("LITELLM_API_KEY"): POST, and PATCH when POST fails.
Store(p) ==
    /\ pc[p] = "store"
    /\ stored' = [stored EXCEPT ![rt[p]] = new[p]]
    /\ Goto(p, "up")
    /\ Settle(rt[p], {"dead_secret"})
    /\ UNCHANGED <<rows, owner, live, runVars, writer, rt, seen, new, strays>>

\* Mutant: docker compose up without --force-recreate.
UpMutant(p) ==
    /\ pc[p] = "up"
    /\ gateway' = [gateway EXCEPT ![rt[p]] =
                      IF @ = "running" THEN @ ELSE "starting"]
    /\ Goto(p, "commit")
    /\ Settle(rt[p], {"stale_gateway"})
    /\ UNCHANGED <<rows, keyVars, loaded, writer, rt, seen, new, strays>>

\* The env file, the records, and at last docker compose up --force-recreate:
\* the container is replaced; its process reads the secret when it boots.
Up(p) ==
    /\ pc[p] = "up"
    /\ gateway' = [gateway EXCEPT ![rt[p]] = "starting"]
    /\ loaded' = [loaded EXCEPT ![rt[p]] = NoKey]
    /\ Goto(p, "commit")
    /\ Settle(rt[p], {"stale_gateway"})
    /\ UNCHANGED <<rows, keyVars, writer, rt, seen, new, strays>>

Commit(p) ==
    /\ pc[p] = "commit"
    /\ rows' = rows \cup {rt[p]}
    /\ writer' = NoProc
    /\ Over(p)
    /\ UNCHANGED <<keyVars, runVars, strays, debt>>

\* Mutant: the connection is left inside its transaction.
RollbackMutant(p) ==
    /\ Over(p)
    /\ UNCHANGED <<writer, rows>>

\* The transaction is rolled back; the calls already made are not.
Rollback(p) ==
    /\ writer' = IF writer = p THEN NoProc ELSE writer
    /\ Over(p)
    /\ UNCHANGED rows

\* What create_or_update leaves undone when it ends at its current step.
CutShort(p) ==
    (IF pc[p] \in {"generate", "store"} /\ seen[p] # NoKey
     THEN {"dead_secret"} ELSE {})
    \cup (IF pc[p] = "up" THEN {"stale_gateway"} ELSE {})

\* The next call raises without effect, or the process is killed: busy
\* timeout at "enter", InfisicalError, requests.RequestException, CommandError.
Abort(p) ==
    /\ pc[p] \in {"enter"} \cup CreateSteps
    /\ Rollback(p)
    /\ strays' = strays \cup (IF pc[p] = "store" THEN {new[p]} ELSE {})
    /\ Owe(rt[p], CutShort(p))
    /\ UNCHANGED <<keyVars, runVars>>

\* The service did what it was asked and the answer was lost (timeout=20).
DropUnanswered(p) ==
    /\ pc[p] = "drop"
    /\ live' = live \ {seen[p]}
    /\ Rollback(p)
    /\ Owe(rt[p], {"dead_secret"})
    /\ UNCHANGED <<owner, stored, runVars, strays>>

GenerateUnanswered(p) ==
    /\ pc[p] = "generate"
    /\ \E k \in Keys :
          /\ Issue(p, k)
          /\ strays' = strays \cup {k}
    /\ Rollback(p)
    /\ Owe(rt[p], CutShort(p))
    /\ UNCHANGED <<stored, runVars>>

StoreUnanswered(p) ==
    /\ pc[p] = "store"
    /\ stored' = [stored EXCEPT ![rt[p]] = new[p]]
    /\ Rollback(p)
    /\ debt' = [debt EXCEPT ![rt[p]] = {"stale_gateway"}]
    /\ UNCHANGED <<owner, live, runVars, strays>>

-----------------------------------------------------------------------------
(***************************************************************************)
(* revoke_runtime_key: no transaction, one call after the other            *)
(***************************************************************************)

Revoke(p, r) ==
    /\ pc[p] = "idle"
    /\ r \in rows
    /\ writer = NoProc
    /\ Goto(p, "rv_lookup")
    /\ rt' = [rt EXCEPT ![p] = r]
    /\ UNCHANGED <<rows, keyVars, runVars, writer, seen, new, strays, debt>>

RevokeLookup(p) ==
    /\ pc[p] = "rv_lookup"
    /\ stored[rt[p]] # NoKey
    /\ seen' = [seen EXCEPT ![p] = stored[rt[p]]]
    /\ Goto(p, "rv_drop")
    /\ UNCHANGED <<rows, keyVars, runVars, writer, rt, new, strays, debt>>

\* Mutant: an error of delete_virtual_key is swallowed, as in create.
RevokeDropMutant(p) ==
    /\ pc[p] = "rv_drop"
    /\ live' \in {live, live \ {seen[p]}}
    /\ Goto(p, "rv_forget")
    /\ UNCHANGED <<rows, owner, stored, runVars, writer, rt, seen, new,
                   strays, debt>>

RevokeDrop(p) ==
    /\ pc[p] = "rv_drop"
    /\ live' = live \ {seen[p]}
    /\ Goto(p, "rv_forget")
    /\ UNCHANGED <<rows, owner, stored, runVars, writer, rt, seen, new,
                   strays, debt>>

\* delete_secret removes whatever LITELLM_API_KEY holds by now (404 is fine).
RevokeForget(p) ==
    /\ pc[p] = "rv_forget"
    /\ stored' = [stored EXCEPT ![rt[p]] = NoKey]
    /\ strays' = strays \cup (Real({stored[rt[p]]}) \ {seen[p]})
    /\ Goto(p, "rv_save")
    /\ Settle(rt[p], {"dead_secret"})
    /\ UNCHANGED <<rows, owner, live, runVars, writer, rt, seen, new>>

\* runtime.save(update_fields): an autocommit write; raises on a missing row
\* (a row deleted and created again counts as present here; RuntimeRegistry
\* tells rows of the same name apart).
RevokeSave(p) ==
    /\ pc[p] = "rv_save"
    /\ rt[p] \in rows
    /\ writer = NoProc
    /\ Over(p)
    /\ UNCHANGED <<rows, keyVars, runVars, writer, strays, debt>>

\* Every error of revoke_runtime_key is raised: no stored key, a refused call,
\* a locked database, a killed process.
RevokeFail(p) ==
    /\ pc[p] \in RevokeSteps
    /\ Over(p)
    /\ Owe(rt[p], IF pc[p] = "rv_forget" THEN {"dead_secret"} ELSE {})
    /\ UNCHANGED <<rows, keyVars, runVars, writer, strays>>

RevokeDropUnanswered(p) ==
    /\ pc[p] = "rv_drop"
    /\ live' = live \ {seen[p]}
    /\ Over(p)
    /\ Owe(rt[p], {"dead_secret"})
    /\ UNCHANGED <<rows, owner, stored, runVars, writer, strays>>

-----------------------------------------------------------------------------
(***************************************************************************)
(* The other operations, as far as keys and containers see them; their own *)
(* interleavings are the subject of RuntimeRegistry.                       *)
(***************************************************************************)

\* start_runtime and recreate_runtime: docker compose up --force-recreate.
StartGateway(r) ==
    /\ r \in rows
    /\ gateway' = [gateway EXCEPT ![r] = "starting"]
    /\ loaded' = [loaded EXCEPT ![r] = NoKey]
    /\ Settle(r, {"stale_gateway"})
    /\ UNCHANGED <<rows, keyVars, writer, procVars, strays>>

StopGateway(r) ==
    /\ r \in rows
    /\ gateway[r] \in {"starting", "running"}
    /\ gateway' = [gateway EXCEPT ![r] = "stopped"]
    /\ loaded' = [loaded EXCEPT ![r] = NoKey]
    /\ Settle(r, {"stale_gateway"})
    /\ UNCHANGED <<rows, keyVars, writer, procVars, strays>>

\* delete_runtime_service: container errors are swallowed; neither the key
\* nor the secret is touched.
Delete(r) ==
    /\ r \in rows
    /\ writer = NoProc
    /\ rows' = rows \ {r}
    /\ \/ /\ gateway' = [gateway EXCEPT ![r] = "absent"]
          /\ loaded' = [loaded EXCEPT ![r] = NoKey]
          /\ Settle(r, {"stale_gateway"})
       \/ UNCHANGED <<runVars, debt>>
    /\ UNCHANGED <<keyVars, writer, procVars, strays>>

\* The entrypoint runs `infisical run`; without a key rendering the config
\* fails, the process exits, and "unless-stopped" starts it again.
Boot(r) ==
    /\ gateway[r] = "starting"
    /\ stored[r] # NoKey
    /\ gateway' = [gateway EXCEPT ![r] = "running"]
    /\ loaded' = [loaded EXCEPT ![r] = stored[r]]
    /\ UNCHANGED <<rows, keyVars, writer, procVars, strays, debt>>

\* The gateway process exits; the restart policy starts it anew.
GatewayExit(r) ==
    /\ gateway[r] = "running"
    /\ gateway' = [gateway EXCEPT ![r] = "starting"]
    /\ loaded' = [loaded EXCEPT ![r] = NoKey]
    /\ Settle(r, {"stale_gateway"})
    /\ UNCHANGED <<rows, keyVars, writer, procVars, strays>>

-----------------------------------------------------------------------------

Request(p) ==
    \E r \in Runtimes : Create(p, r) \/ Rotate(p, r) \/ Revoke(p, r)

Work(p) ==
    \/ Enter(p) \/ Lookup(p) \/ Drop(p) \/ Generate(p)
    \/ Store(p) \/ Up(p) \/ Commit(p)
    \/ RevokeLookup(p) \/ RevokeDrop(p) \/ RevokeForget(p) \/ RevokeSave(p)

Fault(p) ==
    \/ Abort(p) \/ DropUnanswered(p) \/ GenerateUnanswered(p)
    \/ StoreUnanswered(p) \/ RevokeFail(p) \/ RevokeDropUnanswered(p)

Gateway(r) ==
    \/ StartGateway(r) \/ StopGateway(r) \/ Delete(r)
    \/ Boot(r) \/ GatewayExit(r)

Next ==
    \/ \E p \in Procs : Request(p) \/ Work(p) \/ Fault(p)
    \/ \E r \in Runtimes : Gateway(r)

Spec == Init /\ [][Next]_vars

(***************************************************************************)
(* Every call of an operation ends: HTTP calls carry timeout=20, SQLite's  *)
(* busy timeout is 20 s, and the docker and infisical commands, which have *)
(* no timeout, are assumed to return.  Docker restarts a starting gateway  *)
(* until it boots.  Nothing makes an operator issue a request.             *)
(***************************************************************************)
Fairness ==
    /\ \A p \in Procs : WF_vars(Work(p) \/ Fault(p))
    /\ \A r \in Runtimes : WF_vars(Boot(r))

FairSpec == Spec /\ Fairness

(***************************************************************************)
(* What the rest of the system may rely on: the vault of KeyVault, which   *)
(* knows no operations, locks or failures.                                 *)
(***************************************************************************)
Vault == INSTANCE KeyVault
             WITH owner <- owner, live <- live, stored <- stored,
                  loaded <- loaded

\* Every behaviour of the key operations is one the vault allows: no failure
\* and no interleaving hands a key to another runtime, stores a key that is
\* already dead, or brings a dead key back.
VaultSpec == Vault!Spec

-----------------------------------------------------------------------------
(***************************************************************************)
(* Safety                                                                  *)
(***************************************************************************)

\* create_or_update_runtime is @transaction.atomic and its first write takes
\* the only write lock: two operations never provision at the same time, so
\* no two of them read the same old key or overwrite one another's new one.
ProvisionSerial ==
    \A p \in Procs : pc[p] \in CreateSteps <=> writer = p

\* A key LiteLLM accepts can be found again -- it is the stored secret of the
\* runtime it was made for, or about to be stored -- unless a step that
\* failed, or a revoke overtaken by a rotation, let go of exactly this key.
LiveKeysAccounted ==
    \A k \in live :
        \/ owner[k] \in Runtimes /\ stored[owner[k]] = k
        \/ \E p \in Procs : pc[p] = "store" /\ new[p] = k
        \/ k \in strays

\* A stored key that LiteLLM no longer accepts is being replaced or removed
\* right now, or was left behind by an operation that broke off after the
\* LiteLLM call; the next successful rotation or revocation clears that.
StoredKeyLive ==
    \A r \in Runtimes : stored[r] \in Keys \ live =>
        \/ "dead_secret" \in debt[r]
        \/ \E p \in Procs :
              /\ rt[p] = r
              /\ seen[p] # NoKey
              /\ pc[p] \in {"generate", "store", "rv_forget"}

\* A running gateway uses the stored key, unless the rotation that stored it
\* has not reached `docker compose up` yet, or broke off just before it.
GatewayCurrent ==
    \A r \in Runtimes : gateway[r] = "running" /\ stored[r] # NoKey =>
        \/ loaded[r] = stored[r]
        \/ "stale_gateway" \in debt[r]
        \/ \E p \in Procs : rt[p] = r /\ pc[p] = "up"

\* From the moment a rotation has stored its key until it commits, the secret
\* holds this key or, after a revoke, none; and once it has restarted the
\* gateway, the gateway runs with no other key.
RotationHolds ==
    \A p \in Procs :
        /\ pc[p] \in {"up", "commit"} => stored[rt[p]] \in {new[p], NoKey}
        /\ pc[p] = "commit" => loaded[rt[p]] \in {new[p], NoKey}

(***************************************************************************)
(* The inductive invariant behind them (proved in RuntimeKeysProofs)       *)
(***************************************************************************)

\* Every key somebody refers to has an owner, and it is the right runtime.
Ownership ==
    /\ \A k \in live : owner[k] \in Runtimes
    /\ \A r \in Runtimes : stored[r] \in Keys => owner[stored[r]] = r
    /\ \A r \in Runtimes : loaded[r] \in Keys => owner[loaded[r]] = r
    /\ \A p \in Procs : seen[p] \in Keys => owner[seen[p]] = rt[p]
    /\ \A p \in Procs : new[p] \in Keys => owner[new[p]] = rt[p]

\* The locals an operation has at each of its steps.
Locals ==
    \A p \in Procs :
        /\ pc[p] # "idle" => rt[p] \in Runtimes
        /\ pc[p] \in {"idle", "enter", "rv_lookup"} =>
              seen[p] = NoKey /\ new[p] = NoKey
        /\ pc[p] \in {"drop", "rv_drop", "rv_forget", "rv_save"} =>
              seen[p] \in Keys
        /\ pc[p] \in {"store", "up", "commit"} => new[p] \in Keys

\* Until it is stored, a new key is live and known to its operation alone.
NewKeyPrivate ==
    \A p \in Procs : pc[p] = "store" =>
        /\ new[p] \in live
        /\ \A r \in Runtimes : stored[r] # new[p]
        /\ \A q \in Procs : seen[q] # new[p]

\* The secret a rotation is about to overwrite is no live key any more,
\* except one it failed to read or to delete.
OldKeyHandled ==
    \A p \in Procs :
        /\ pc[p] = "drop" => stored[rt[p]] \in {seen[p], NoKey}
        /\ pc[p] \in {"generate", "store"} =>
              stored[rt[p]] \notin live \ strays

\* What a revoke has achieved at each of its steps.
RevokeProgress ==
    \A p \in Procs :
        /\ pc[p] \in {"rv_forget", "rv_save"} => seen[p] \notin live
        /\ pc[p] = "rv_save" => stored[rt[p]] # seen[p]

IInv ==
    /\ TypeOK /\ ProvisionSerial
    /\ Ownership /\ Locals /\ NewKeyPrivate /\ OldKeyHandled
    /\ RevokeProgress /\ RotationHolds
    /\ LiveKeysAccounted /\ StoredKeyLive /\ GatewayCurrent

(***************************************************************************)
(* Action properties                                                       *)
(***************************************************************************)

\* A revoke that reports success has killed the key it read: LiteLLM rejects
\* it, it is not stored any more, and no gateway boots with it again.
RevokeVerified ==
    [][\A p \in Procs : pc[p] = "rv_save" /\ RevokeSave(p) =>
          seen[p] \notin live /\ stored[rt[p]] # seen[p]]_vars

(***************************************************************************)
(* Liveness, under Fairness                                                *)
(***************************************************************************)

\* Whatever happens to the calls made inside the transaction, the write lock
\* everybody else waits for is given back.
LockReleased == \A p \in Procs : writer = p ~> writer # p

\* A rotation that reached its commit has refreshed the runtime: its gateway
\* comes up with the stored key, unless somebody revokes the key, stops the
\* gateway or deletes the runtime.
RotationRefreshes ==
    \A p \in Procs, r \in Runtimes :
        pc[p] = "commit" /\ rt[p] = r ~>
            \/ loaded[r] = stored[r] \/ stored[r] = NoKey
            \/ gateway[r] \in {"stopped", "absent"}

=============================================================================

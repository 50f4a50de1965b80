---------------------------- MODULE RuntimeLimits ----------------------------
(***************************************************************************)
(* What a runtime may spend, and with which model.  The database row is    *)
(* what the operator sees; LiteLLM enforces what was last sent for the     *)
(* runtime's key; the gateway asks for the model its env file named when   *)
(* its container was created.  Updating, synchronising and provisioning    *)
(* bring the three together, one call after the other.                     *)
(*                                                                         *)
(* Source: orchestrator/service_layer.py, orchestrator/litellm.py.         *)
(*                                                                         *)
(* What is kept: which row an operation has loaded, what of it it writes   *)
(* back, when it writes the row, the key, the env file and the container,  *)
(* the transaction of create_or_update_runtime, every failure in between.  *)
(* What is left out: budget, rpm and tpm are one column, "limit", since    *)
(* the code treats them alike; the JSON mirror, and that runtimes get      *)
(* deleted (RuntimeRegistry); a key dies only when it is replaced          *)
(* (RuntimeKeys revokes it and has the calls a replacement is made of).    *)
(***************************************************************************)
EXTENDS FiniteSets

CONSTANTS
    Procs,      \* concurrent requests and CLI processes
    Runtimes,
    Limits,     \* values of a limit
    Models,     \* model aliases
    Ops,        \* the operations requested: a subset of AllOps
    Unset,      \* a limit column that is null
    None,       \* no object; or no key that LiteLLM accepts
    NoProc, NoRuntime

AllOps == {"update", "sync", "create", "rotate", "secret"}

Provision == {"create", "rotate"}

Row == [limit : Limits \cup {Unset}, model : Models]

ASSUME LimitsAssumption ==
    /\ Ops \subseteq AllOps
    /\ Unset \notin Limits
    /\ None \notin Row
    /\ NoProc \notin Procs
    /\ NoRuntime \notin Runtimes

VARIABLES
    rows,       \* rows[r]: the committed row
    writer,     \* the operation inside create_or_update_runtime
    view,       \* the rows as this transaction sees them, else the rows
    key,        \* key[r]: what LiteLLM enforces for the stored key
    env,        \* env[r]: the model in the runtime's env file
    gateway,    \* gateway[r]: the model its container was created with
    pc, op, rt, \* an operation's position, kind and runtime
    obj,        \* obj[p]: the Runtime object, or the request, p works with
    remodel,    \* remodel[p]: is another model asked for than before?
    seen,       \* seen[p]: the key p has looked up is still the stored one
    alone,      \* history: operations without a rival on their runtime
    trouble     \* history: what a failure or a race may have left apart

dbVars   == <<rows, writer, view>>
procVars == <<pc, op, rt, obj, remodel, seen>>
histVars == <<alone, trouble>>
vars == <<dbVars, key, env, gateway, procVars, histVars>>

Aspects == {"key", "gateway"}

\* p is in the transaction of create_or_update_runtime.
Inside(p) ==
    \/ pc[p] \in {"write", "drop", "store", "commit"}
    \/ pc[p] \in {"env", "up"} /\ op[p] \in Provision

TypeOK ==
    /\ rows \in [Runtimes -> Row]
    /\ writer \in Procs \cup {NoProc}
    /\ view \in [Runtimes -> Row]
    /\ key \in [Runtimes -> Row \cup {None}]
    /\ env \in [Runtimes -> Models]
    /\ gateway \in [Runtimes -> Models]
    /\ pc \in [Procs -> {"idle", "load", "save", "lookup", "apply", "touch",
                         "env", "up", "log", "enter", "write", "drop",
                         "store", "commit"}]
    /\ op \in [Procs -> AllOps]
    /\ rt \in [Procs -> Runtimes \cup {NoRuntime}]
    /\ obj \in [Procs -> Row \cup {None}]
    /\ remodel \in [Procs -> BOOLEAN]
    /\ seen \in [Procs -> BOOLEAN]
    /\ \A p \in Procs :
          /\ rt[p] = NoRuntime <=> pc[p] = "idle"
          /\ obj[p] = None <=> pc[p] \in {"idle", "load"}
          /\ writer = p <=> Inside(p)
    /\ alone \subseteq Procs
    /\ trouble \in [Runtimes -> SUBSET Aspects]

-----------------------------------------------------------------------------

Goto(p, step) == pc' = [pc EXCEPT ![p] = step]

\* The operations that change the row; every operation is a rival of these.
Writers == {"update"} \cup Provision

\* The operations on r that one of kind o has to share r with, when one of
\* them has changed the row, or may yet write what it read before a change.
Rivals(o, r) ==
    {q \in Procs : rt[q] = r /\ (o \in Writers \/ op[q] \in Writers \/ q \notin alone)}

\* An autocommit write, for which SQLite's write lock must be free.
SaveRow(r, row) ==
    /\ writer = NoProc
    /\ rows' = [rows EXCEPT ![r] = row]
    /\ view' = rows'
    /\ UNCHANGED writer

\* update_virtual_key: a limit that is None is not in the payload, and so
\* stays as LiteLLM has it.
Enforce(r, row) ==
    key' = [key EXCEPT ![r] =
               [limit |-> IF row.limit = Unset THEN @.limit ELSE row.limit,
                model |-> row.model]]

\* What operation p is about to bring together, and would leave apart.
Owes(p, aspect) ==
    CASE op[p] = "update" /\ aspect = "key" -> pc[p] \in {"lookup", "apply"}
      [] op[p] = "update" /\ aspect = "gateway" ->
            /\ remodel[p]
            /\ pc[p] \in {"lookup", "apply", "touch", "env", "up"}
      [] op[p] \in Provision /\ aspect = "key" ->
            pc[p] \in {"store", "env", "up", "commit"}
      [] op[p] \in Provision /\ aspect = "gateway" -> pc[p] \in {"up", "commit"}
      [] OTHER -> FALSE

Repaired(p) ==
    CASE op[p] = "update" ->
            IF remodel[p] THEN Aspects ELSE {"key"}
      [] op[p] = "sync" -> {"key"}
      [] op[p] = "secret" -> {"gateway"}
      [] op[p] \in Provision -> Aspects

\* The operation is over, with the given effect on the trouble of its runtime.
\* One that had a rival may have left anything.
Over(p, left) ==
    /\ Goto(p, "idle")
    /\ op' = [op EXCEPT ![p] = "sync"]
    /\ rt' = [rt EXCEPT ![p] = NoRuntime]
    /\ obj' = [obj EXCEPT ![p] = None]
    /\ remodel' = [remodel EXCEPT ![p] = FALSE]
    /\ seen' = [seen EXCEPT ![p] = FALSE]
    /\ alone' = alone \ {p}
    /\ trouble' = [trouble EXCEPT ![rt[p]] = IF p \in alone THEN left ELSE Aspects]

\* Runtimes as they have been provisioned, or imported from a JSON state whose
\* limits may be null.
Init ==
    /\ rows \in [Runtimes -> Row]
    /\ view = rows
    /\ writer = NoProc
    /\ key = rows
    /\ env = [r \in Runtimes |-> rows[r].model]
    /\ gateway = env
    /\ pc = [p \in Procs |-> "idle"]
    /\ op = [p \in Procs |-> "sync"]
    /\ rt = [p \in Procs |-> NoRuntime]
    /\ obj = [p \in Procs |-> None]
    /\ remodel = [p \in Procs |-> FALSE]
    /\ seen = [p \in Procs |-> FALSE]
    /\ alone = {}
    /\ trouble = [r \in Runtimes |-> {}]

-----------------------------------------------------------------------------
(***************************************************************************)
(* The request, and what it works with                                     *)
(***************************************************************************)

\* "secret" is upsert_runtime_secret, which re-creates the container with an
\* env file written from the row it has loaded.
Request(p, o, r) ==
    /\ pc[p] = "idle"
    /\ o \in Ops
    /\ Goto(p, "load")
    /\ op' = [op EXCEPT ![p] = o]
    /\ rt' = [rt EXCEPT ![p] = r]
    /\ alone' = IF Rivals(o, r) = {} THEN alone \cup {p} ELSE alone \ Rivals(o, r)
    /\ UNCHANGED <<dbVars, key, env, gateway, obj, remodel, seen, trouble>>

\* get_runtime, which waits for the write lock (ensure_controlplane_ready
\* writes), and in update_runtime_limits the columns the request names.
LoadUpdate(p) ==
    /\ pc[p] = "load" /\ op[p] = "update"
    /\ writer = NoProc
    /\ \E limit \in Limits \cup {rows[rt[p]].limit}, model \in Models :
          /\ obj' = [obj EXCEPT ![p] = [limit |-> limit, model |-> model]]
          /\ remodel' = [remodel EXCEPT ![p] = model # rows[rt[p]].model]
    /\ Goto(p, "save")
    /\ UNCHANGED <<dbVars, key, env, gateway, op, rt, seen, histVars>>

\* get_runtime.  rotate_runtime_key turns the row into a request; a null limit
\* becomes the role's default.
Load(p) ==
    /\ pc[p] = "load" /\ op[p] \in {"sync", "secret", "rotate"}
    /\ writer = NoProc
    /\ LET row == rows[rt[p]] IN
       IF op[p] = "rotate" /\ row.limit = Unset
       THEN \E limit \in Limits :
               obj' = [obj EXCEPT ![p] = [row EXCEPT !.limit = limit]]
       ELSE obj' = [obj EXCEPT ![p] = row]
    /\ Goto(p, CASE op[p] = "sync" -> "lookup"
                 [] op[p] = "secret" -> "env"
                 [] op[p] = "rotate" -> "enter")
    /\ UNCHANGED <<dbVars, key, env, gateway, op, rt, remodel, seen, histVars>>

\* create_or_update_runtime of an existing runtime, with a request of its own.
LoadCreate(p) ==
    /\ pc[p] = "load" /\ op[p] = "create"
    /\ \E row \in [limit : Limits, model : Models] :
          obj' = [obj EXCEPT ![p] = row]
    /\ Goto(p, "enter")
    /\ UNCHANGED <<dbVars, key, env, gateway, op, rt, remodel, seen, histVars>>

-----------------------------------------------------------------------------
(***************************************************************************)
(* update_runtime_limits, sync_runtime_limits, upsert_runtime_secret       *)
(***************************************************************************)

\* runtime.save() without update_fields writes every column of the object.
Save(p) ==
    /\ pc[p] = "save"
    /\ SaveRow(rt[p], obj[p])
    /\ Goto(p, "lookup")
    /\ UNCHANGED <<key, env, gateway, op, rt, obj, remodel, seen, histVars>>

\* _current_runtime_key; without one _apply_litellm_limits raises (Fail).
Lookup(p) ==
    /\ pc[p] = "lookup"
    /\ seen' = [seen EXCEPT ![p] = TRUE]
    /\ Goto(p, "apply")
    /\ UNCHANGED <<dbVars, key, env, gateway, op, rt, obj, remodel, histVars>>

\* update_virtual_key.  LiteLLM refuses a key that has been deleted (Fail); a
\* replaced key whose deletion failed takes the limits, to no avail.
Push(p) ==
    IF seen[p]
    THEN key[rt[p]] # None /\ Enforce(rt[p], obj[p])
    ELSE UNCHANGED key

Apply(p) ==
    /\ pc[p] = "apply"
    /\ Push(p)
    /\ Goto(p, "touch")
    /\ UNCHANGED <<dbVars, env, gateway, op, rt, obj, remodel, seen, histVars>>

\* runtime.save(update_fields=["last_action_at", "updated_at"])
Touch(p) ==
    /\ pc[p] = "touch"
    /\ writer = NoProc
    /\ Goto(p, IF remodel[p] THEN "env" ELSE "log")
    /\ UNCHANGED <<dbVars, key, env, gateway, op, rt, obj, remodel, seen, histVars>>

\* Mutant: _apply_runtime_bootstrap without recreate=True.
WriteEnvMutant(p) ==
    /\ pc[p] = "env"
    /\ env' = [env EXCEPT ![rt[p]] = obj[p].model]
    /\ Goto(p, IF op[p] \in Provision THEN "up" ELSE "log")
    /\ UNCHANGED <<dbVars, key, gateway, op, rt, obj, remodel, seen, histVars>>

\* _write_runtime_env, from the object in memory.
WriteEnv(p) ==
    /\ pc[p] = "env"
    /\ env' = [env EXCEPT ![rt[p]] = obj[p].model]
    /\ Goto(p, "up")
    /\ UNCHANGED <<dbVars, key, gateway, op, rt, obj, remodel, seen, histVars>>

\* docker compose up -d --force-recreate, in recreate_runtime or in
\* create_or_update_runtime.
Up(p) ==
    /\ pc[p] = "up"
    /\ writer \in {NoProc, p}
    /\ gateway' = [gateway EXCEPT ![rt[p]] = env[rt[p]]]
    /\ Goto(p, IF op[p] \in Provision THEN "commit" ELSE "log")
    /\ UNCHANGED <<dbVars, key, env, op, rt, obj, remodel, seen, histVars>>

\* log_runtime_action
Log(p) ==
    /\ pc[p] = "log"
    /\ writer = NoProc
    /\ Over(p, trouble[rt[p]] \ Repaired(p))
    /\ UNCHANGED <<dbVars, key, env, gateway>>

-----------------------------------------------------------------------------
(***************************************************************************)
(* create_or_update_runtime                                                *)
(***************************************************************************)

Enter(p) ==
    /\ pc[p] = "enter"
    /\ writer = NoProc
    /\ writer' = p
    /\ Goto(p, "write")
    /\ UNCHANGED <<rows, view, key, env, gateway, op, rt, obj, remodel, seen, histVars>>

\* Runtime.objects.update_or_create
Write(p) ==
    /\ pc[p] = "write"
    /\ view' = [view EXCEPT ![rt[p]] = obj[p]]
    /\ Goto(p, "drop")
    /\ UNCHANGED <<rows, writer, key, env, gateway, op, rt, obj, remodel, seen, histVars>>

\* The old key is looked up and deleted; both may fail without notice.
Drop(p) ==
    /\ pc[p] = "drop"
    /\ \/ key' = [key EXCEPT ![rt[p]] = None]
       \/ UNCHANGED key
    /\ Goto(p, "store")
    /\ UNCHANGED <<dbVars, env, gateway, op, rt, obj, remodel, seen, histVars>>

\* Mutant: the new key has the limits of the committed row.
StoreMutant(p) ==
    /\ pc[p] = "store"
    /\ key' = [key EXCEPT ![rt[p]] = rows[rt[p]]]
    /\ seen' = [q \in Procs |-> seen[q] /\ rt[q] # rt[p]]
    /\ Goto(p, "env")
    /\ UNCHANGED <<dbVars, env, gateway, op, rt, obj, remodel, histVars>>

\* _provision_litellm_key with the limits of the row, and upsert_secret.
Store(p) ==
    /\ pc[p] = "store"
    /\ key' = [key EXCEPT ![rt[p]] = view[rt[p]]]
    /\ seen' = [q \in Procs |-> seen[q] /\ rt[q] # rt[p]]
    /\ Goto(p, "env")
    /\ UNCHANGED <<dbVars, env, gateway, op, rt, obj, remodel, histVars>>

Commit(p) ==
    /\ pc[p] = "commit"
    /\ rows' = view
    /\ writer' = NoProc
    /\ Over(p, trouble[rt[p]] \ Repaired(p))
    /\ UNCHANGED <<view, key, env, gateway>>

-----------------------------------------------------------------------------
(***************************************************************************)
(* Failures and other operations                                           *)
(***************************************************************************)

\* The exception leaves the service; a transaction is rolled back.
Break(p) ==
    /\ view' = IF writer = p THEN rows ELSE view
    /\ writer' = IF writer = p THEN NoProc ELSE writer
    /\ Over(p, trouble[rt[p]] \cup {aspect \in Aspects : Owes(p, aspect)})
    /\ UNCHANGED <<rows, env, gateway>>

\* Any call raises, or the process is killed.
Fail(p) == pc[p] # "idle" /\ Break(p) /\ UNCHANGED key

\* LiteLLM has taken the limits, but its answer was lost.
ApplyUnanswered(p) == pc[p] = "apply" /\ Push(p) /\ Break(p)

\* start_runtime and recreate_runtime re-create the container.
Recreate(r) ==
    /\ gateway' = [gateway EXCEPT ![r] = env[r]]
    /\ UNCHANGED <<dbVars, key, env, procVars, histVars>>

Next ==
    \/ \E p \in Procs :
          \/ \E o \in Ops, r \in Runtimes : Request(p, o, r)
          \/ LoadUpdate(p) \/ Load(p) \/ LoadCreate(p)
          \/ Save(p) \/ Lookup(p) \/ Apply(p) \/ Touch(p)
          \/ WriteEnv(p) \/ Up(p) \/ Log(p)
          \/ Enter(p) \/ Write(p) \/ Drop(p) \/ Store(p) \/ Commit(p)
          \/ Fail(p) \/ ApplyUnanswered(p)
    \/ \E r \in Runtimes : Recreate(r)

Spec == Init /\ [][Next]_vars

-----------------------------------------------------------------------------
(***************************************************************************)
(* Safety                                                                  *)
(***************************************************************************)

\* The operations in progress on r that may have taken something apart.
Working(r, aspect) ==
    \E p \in Procs : rt[p] = r /\ (p \notin alone \/ Owes(p, aspect))

\* LiteLLM enforces the limits and the model of the row, except while an
\* operation is about to change them, and from an operation that broke off
\* after its first write, or had a rival, until the next update, sync or
\* provisioning that ends well.  (A limit that is null in the row says nothing
\* about the key.)  The types of the variables are checked with it.
KeyFollowsRow ==
    /\ TypeOK
    /\ \A r \in Runtimes :
          \/ "key" \in trouble[r]
          \/ Working(r, "key")
          \/ /\ key[r] # None
             /\ key[r].model = rows[r].model
             /\ rows[r].limit \in {Unset, key[r].limit}

\* The gateway runs with the model of the row, and will be re-created with it,
\* under the same exceptions.  What repairs this is a provisioning, a change
\* of the model and the saving of a secret, and not the update to the model
\* the row already has.
GatewayFollowsRow ==
    \A r \in Runtimes :
        \/ "gateway" \in trouble[r]
        \/ Working(r, "gateway")
        \/ gateway[r] = rows[r].model /\ env[r] = rows[r].model

=============================================================================

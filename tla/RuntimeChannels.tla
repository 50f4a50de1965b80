---------------------------- MODULE RuntimeChannels ----------------------------
(***************************************************************************)
(* One runtime's channels, search and skills.  They are kept in two JSON   *)
(* columns of its row, `desired_channels' and `settings', which an         *)
(* operation reads, changes in memory and saves; every change is also      *)
(* written to an IntegrationConnection, the bootstrap env file and a newly *)
(* created gateway container, one after the other.                         *)
(*                                                                         *)
(* Source: orchestrator/service_layer.py, and the handlers of              *)
(* controlplane/domain/views.py and api.py that call it.                   *)
(*                                                                         *)
(* What is kept: the order of the writes of every operation, the columns   *)
(* it saves, the transaction of create_or_update_runtime, failures, kills  *)
(* and container restarts.  What is left out: RuntimeSecretRef rows, limits*)
(* and keys (RuntimeLimits, RuntimeKeys), connections without a runtime,   *)
(* the start and stop of the container (RuntimeRegistry).                  *)
(***************************************************************************)
EXTENDS Naturals, Sequences, SequencesExt

CONSTANTS
    Procs,          \* concurrent requests
    Channels,       \* the channels with an IntegrationConnection
    Search, Skills, \* the two entries of `settings'
    Telegram,       \* one of Channels
    Kinds,          \* RUNTIME_SECRET_DEFINITIONS
    Owner,          \* Owner[k]: the integration a kind of secret belongs to
    AllowFrom,      \* TELEGRAM_ALLOW_FROM, one of Kinds
    MaxRequests,    \* bound: how many requests there are
    None, NoProc

Settings == {Search, Skills}
Items == Channels \cup Settings

\* What has an IntegrationConnection and a line in the env file.
Served == Channels \cup {Search}

\* What a connection may read.
Status == {"configured", "disabled", "tested"}

ASSUME ChannelAssumption ==
    /\ Telegram \in Channels /\ Settings \cap Channels = {} /\ Search # Skills
    /\ Owner \in [Kinds -> Served]
    /\ AllowFrom \in Kinds /\ Owner[AllowFrom] = Telegram
    /\ MaxRequests \in Nat /\ NoProc \notin Procs /\ None \notin Items \cup Status

VARIABLES
    row,        \* what is on, in the two columns of the Runtime row
    conn,       \* conn[i]: the status of the IntegrationConnection, or None
    writer,     \* the operation inside create_or_update_runtime
    old,        \* row and conn as committed, while an operation is inside
    secret,     \* secret[k]: how often a secret was stored in Infisical
    env,        \* the channels and search of runtime.env
    gateway,    \* the container: the env it was created with, its secrets
    todo, job,  \* the steps an operation has before it, and its request
    requests,   \* how many there have been
    mine,       \* mine[p]: the Runtime object p has in memory
    stale,      \* stale[p]: has the row changed since p loaded it?
    alone,      \* alone[p]: has p had no other operation beside it?
    apart,      \* history: connections an accident has set apart from the row
    trouble     \* history: files and containers an accident has left behind

rowVars  == <<row, conn, writer, old>>
procVars == <<todo, job, requests, mine, stale, alone>>
vars == <<rowVars, secret, env, gateway, procVars, apart, trouble>>

Ops == {"integrate", "secret", "unlink", "skills", "limits", "provision", "backfill"}
Steps == {"load", "connect", "secret", "save", "env", "up", "disconnect",
          "enter", "relink", "commit"}

\* item and on: what is switched; replace: are the columns replaced, not copied?
Job == [op : Ops, item : Items \cup {None}, on : BOOLEAN,
        kinds : SUBSET Kinds, replace : BOOLEAN]

NoJob == [op |-> "backfill", item |-> None, on |-> FALSE, kinds |-> {}, replace |-> FALSE]

Busy(p) == todo[p] # <<>>
At(p, step) == Busy(p) /\ Head(todo[p]) = step
Before(p, step) == Contains(todo[p], step)
Committed == IF writer = NoProc THEN row ELSE old.row

TypeOK ==
    /\ row \subseteq Items
    /\ conn \in [Served -> Status \cup {None}]
    /\ writer \in Procs \cup {NoProc}
    /\ old.row \subseteq Items /\ old.conn \in [Served -> Status \cup {None}]
    /\ secret \in [Kinds -> 0..MaxRequests]
    /\ env \subseteq Served
    /\ gateway.env \subseteq Served /\ gateway.secret \in [Kinds -> 0..MaxRequests]
    /\ \A p \in Procs : ToSet(todo[p]) \subseteq Steps
    /\ job \in [Procs -> Job] /\ requests \in 0..MaxRequests
    /\ mine \in [Procs -> SUBSET Items]
    /\ stale \in [Procs -> BOOLEAN] /\ alone \in [Procs -> BOOLEAN]
    /\ apart \subseteq Served /\ trouble \subseteq {"env", "secret"}
    /\ \A p \in Procs : Before(p, "commit") /\ ~At(p, "enter") <=> writer = p

\* A runtime that has nothing set, or everything, and is in order.
Init ==
    /\ row \in {{}, Items}
    /\ conn = [i \in Served |-> IF i \in row THEN "configured" ELSE None]
    /\ writer = NoProc /\ old = [row |-> row, conn |-> conn]
    /\ secret = [k \in Kinds |-> 0]
    /\ env = row \cap Served /\ gateway = [env |-> env, secret |-> secret]
    /\ todo = [p \in Procs |-> <<>>] /\ job = [p \in Procs |-> NoJob]
    /\ requests = 0
    /\ mine = [p \in Procs |-> {}]
    /\ stale = [p \in Procs |-> FALSE] /\ alone = [p \in Procs |-> FALSE]
    /\ apart = {} /\ trouble = {}

-----------------------------------------------------------------------------
(***************************************************************************)
(* The operations, as the steps they take                                  *)
(***************************************************************************)

\* Mutant: the container is recreated with the env file it has.
IntegrateMutant == <<"load", "connect", "save", "up">>

\* upsert_integration_connection
Integrate == <<"load", "connect", "save", "env", "up">>

\* the same for Telegram with an allow_from
IntegrateAllowing == <<"load", "connect", "secret", "save", "env", "up">>

\* Mutant: the secret is stored when the runtime has been recreated.
StoreMutant == <<"load", "connect", "save", "env", "up", "secret">>

\* upsert_runtime_secret
Store == <<"load", "connect", "save", "secret", "env", "up">>

\* Mutant: the connection is left to a later clean-up.
UnlinkMutant == <<"load", "save", "env", "up">>

\* delete_integration_connection_service
Unlink == <<"load", "save", "env", "up", "disconnect">>

\* update_runtime_skills: the container is not recreated.
SaveSkills == <<"load", "save">>

\* update_runtime_limits saves the whole row, and recreates for a new model.
SaveLimits(newModel) == <<"load", "save">> \o (IF newModel THEN <<"env", "up">> ELSE <<>>)

\* create_or_update_runtime
Provision == <<"enter", "secret", "env", "relink", "up", "commit">>

\* backfill_runtime_related_records
Backfill == <<"load", "relink">>

Asks(p, steps, o, i, on, kinds, replace) ==
    /\ todo' = [todo EXCEPT ![p] = steps]
    /\ job' = [job EXCEPT ![p] =
                  [op |-> o, item |-> i, on |-> on, kinds |-> kinds, replace |-> replace]]

\* A form or a PATCH that switches an integration; one for Telegram may have an
\* allow_from.  on says what the row gets: the search form of a page sends an
\* empty provider, and the search is then saved as off with a connection that
\* is configured.
Switch(p) == \E i \in Served, on \in BOOLEAN :
    \/ Asks(p, Integrate, "integrate", i, on, {}, FALSE)
    \/ i = Telegram /\ on /\ Asks(p, IntegrateAllowing, "integrate", i, on, {AllowFrom}, FALSE)

PutSecret(p) == \E k \in Kinds : Asks(p, Store, "secret", Owner[k], TRUE, {k}, FALSE)

Delete(p) == \E i \in Served :
    conn[i] # None /\ Asks(p, Unlink, "unlink", i, FALSE, {}, FALSE)

Rebuild(p) == Asks(p, Backfill, "backfill", None, FALSE, {}, FALSE)

\* The default of telegram_allow_from is stored again whenever Telegram is on;
\* create_or_update_runtime decides when it is inside.
Rotate(p) == Asks(p, Provision, "provision", None, FALSE, {AllowFrom}, FALSE)

\* The runtime's page: its integrations, secrets, skills and limits, and the
\* rotation of its key
RuntimePage(p) ==
    \/ Switch(p) \/ PutSecret(p) \/ Rotate(p)
    \/ \E on \in BOOLEAN : Asks(p, SaveSkills, "skills", Skills, on, {}, FALSE)
    \/ \E new \in BOOLEAN : Asks(p, SaveLimits(new), "limits", None, FALSE, {}, FALSE)

IntegrationsPage(p) == Switch(p) \/ Delete(p) \/ Rebuild(p)

\* A secret of an integration is only saved for one that is found.
SecretsPage(p) ==
    \/ \E k \in Kinds :
          /\ conn[Owner[k]] # None
          /\ Asks(p, Store, "secret", Owner[k], TRUE, {k}, FALSE)
    \/ PutSecret(p) \/ Rebuild(p)

\* PATCH without `enabled' keeps a connection on unless it reads DISABLED, which
\* a test has overwritten.
IntegrationsApi(p) ==
    \/ \E i \in Served :
          /\ conn[i] # None
          /\ Asks(p, Integrate, "integrate", i, conn[i] # "disabled", {}, FALSE)
    \/ Switch(p) \/ Delete(p)

SecretsApi(p) == PutSecret(p)

\* A runtime is made anew, perhaps with a Telegram token, and with the default of
\* telegram_allow_from whenever no other is given.
Provisions(p, skillKeys, replace) == \E ks \in SUBSET {k \in Kinds : Owner[k] = Telegram} :
    AllowFrom \in ks /\ Asks(p, Provision, "provision", None, skillKeys, ks, replace)

\* POST and PATCH of a runtime pass neither channels nor settings, but perhaps
\* skill_keys.
RuntimesApi(p) == \E skillKeys \in BOOLEAN : Provisions(p, skillKeys, FALSE)
RuntimeApi(p) == \E skillKeys \in BOOLEAN : Provisions(p, skillKeys, FALSE)

\* The wizard passes channels, settings or both, for a runtime that may exist; so
\* does the launch of an agent, for a runtime without channels.
Wizard(p) == Provisions(p, FALSE, TRUE)

Request(p) ==
    /\ ~Busy(p)
    /\ requests < MaxRequests /\ requests' = requests + 1
    /\ \/ RuntimePage(p) \/ IntegrationsPage(p) \/ SecretsPage(p)
       \/ IntegrationsApi(p) \/ SecretsApi(p) \/ RuntimesApi(p) \/ RuntimeApi(p)
       \/ Wizard(p)
    /\ alone' = [q \in Procs |->
                    IF q = p THEN \A o \in Procs \ {p} : ~Busy(o) ELSE FALSE]
    /\ stale' = [stale EXCEPT ![p] = FALSE]
    /\ UNCHANGED <<rowVars, secret, env, gateway, mine, apart, trouble>>

\* test_integration_connection overwrites whatever status there is.
Test == \E i \in Served :
    /\ writer = NoProc
    /\ conn[i] # None
    /\ conn' = [conn EXCEPT ![i] = "tested"]
    /\ UNCHANGED <<row, writer, old, secret, env, gateway, procVars, apart, trouble>>

-----------------------------------------------------------------------------
(***************************************************************************)
(* The steps                                                               *)
(***************************************************************************)

\* An operation that has no step left and had none beside it has set its item right.
Done(p) ==
    /\ todo' = [todo EXCEPT ![p] = Tail(todo[p])]
    /\ IF Len(todo[p]) = 1
       THEN /\ job' = [job EXCEPT ![p] = NoJob]
            /\ mine' = [mine EXCEPT ![p] = {}]
       ELSE UNCHANGED <<job, mine>>

Mends(p) == IF Len(todo[p]) = 1 /\ alone[p] THEN {job[p].item} ELSE {}

Changed(p) == stale' = [q \in Procs |-> IF q = p THEN stale[p] ELSE Busy(q)]

\* The items others are at.
Clash(p) == {job[q].item : q \in {q \in Procs \ {p} : Busy(q)}}

\* get_runtime
Load(p) ==
    /\ At(p, "load")
    /\ mine' = [mine EXCEPT ![p] = Committed]
    /\ stale' = [stale EXCEPT ![p] = FALSE]
    /\ todo' = [todo EXCEPT ![p] = Tail(todo[p])]
    /\ UNCHANGED <<rowVars, secret, env, gateway, job, alone, apart, trouble>>

\* The connection is made or changed; `blank' is a search form's empty provider.
Connect(p) == \E blank \in BOOLEAN :
    LET i == job[p].item IN
    /\ At(p, "connect")
    /\ writer = NoProc
    /\ blank => i = Search /\ job[p].op = "integrate" /\ ~job[p].on
    /\ conn' = [conn EXCEPT ![i] = IF job[p].on \/ blank THEN "configured" ELSE "disabled"]
    /\ apart' = apart \cup (IF blank THEN {i} ELSE {i} \cap Clash(p))
    /\ alone' = IF blank THEN [alone EXCEPT ![p] = FALSE] ELSE alone
    /\ Done(p)
    /\ UNCHANGED <<row, writer, old, secret, env, gateway, stale, trouble>>

\* Mutant: runtime.save() writes the whole row.
ColumnsMutant(p) == Items

\* update_fields of the operation
Columns(p) ==
    CASE job[p].op = "skills" -> Settings
      [] job[p].op = "unlink" -> IF job[p].item \in Channels THEN Channels ELSE Settings
      [] OTHER -> Items

\* runtime.save: the columns are written as p has them in memory.
Save(p) ==
    LET wish == IF job[p].on THEN mine[p] \cup {job[p].item} ELSE mine[p] \ {job[p].item}
        new == (row \ Columns(p)) \cup (wish \cap Columns(p))
        lost == {i \in Served \ {job[p].item} : (i \in row) # (i \in new)} IN
    /\ At(p, "save")
    /\ writer = NoProc
    /\ row' = new
    /\ todo' = [todo EXCEPT ![p] = Tail(todo[p])]
    /\ IF Len(todo[p]) = 1
       THEN job' = [job EXCEPT ![p] = NoJob] /\ mine' = [mine EXCEPT ![p] = {}]
       ELSE mine' = [mine EXCEPT ![p] = wish \cap Items] /\ UNCHANGED job
    /\ Changed(p)
    /\ apart' = apart \cup lost \cup ({job[p].item} \cap Clash(p) \cap Served)
    /\ trouble' = IF lost # {} /\ ~Before(p, "env") THEN trouble \cup {"env"} ELSE trouble
    /\ UNCHANGED <<conn, writer, old, secret, env, gateway, alone>>

\* upsert_secret
StoreSecret(p) ==
    LET ks == IF job[p].op = "provision" /\ Telegram \notin mine[p] THEN {} ELSE job[p].kinds IN
    /\ At(p, "secret")
    /\ secret' = [k \in Kinds |-> IF k \in ks THEN secret[k] + 1 ELSE secret[k]]
    /\ Done(p)
    /\ UNCHANGED <<rowVars, env, gateway, stale, alone, apart, trouble>>

\* _write_runtime_env, from the object in memory
WriteEnv(p) ==
    /\ At(p, "env")
    /\ env' = mine[p] \cap Served
    /\ trouble' = IF stale[p] THEN trouble \cup {"env"} ELSE trouble \ {"env"}
    /\ Done(p)
    /\ UNCHANGED <<rowVars, secret, gateway, stale, alone, apart>>

\* docker compose up -d --force-recreate
Up(p) ==
    /\ At(p, "up")
    /\ gateway' = [env |-> env, secret |-> secret]
    /\ trouble' = trouble \ {"secret"}
    /\ apart' = apart \ Mends(p)
    /\ Done(p)
    /\ UNCHANGED <<rowVars, secret, env, stale, alone>>

Disconnect(p) ==
    /\ At(p, "disconnect")
    /\ writer = NoProc
    /\ conn' = [conn EXCEPT ![job[p].item] = None]
    /\ apart' = (apart \ Mends(p)) \cup ({job[p].item} \cap Clash(p))
    /\ Done(p)
    /\ UNCHANGED <<row, writer, old, secret, env, gateway, stale, alone, trouble>>

\* The transaction's first statement takes SQLite's write lock.
Lock(p) == writer = NoProc /\ writer' = p /\ old' = [row |-> row, conn |-> conn]

\* What create_or_update_runtime makes of the row it reads: the channels and
\* settings it is passed take the place of the columns, skill_keys that of the
\* skill stack.
Resolved(p) ==
    CASE job[p].replace -> SUBSET Items
      [] job[p].op = "provision" /\ job[p].on -> {row \cup {Skills}, row \ {Skills}}
      [] OTHER -> {row}

\* It takes the write lock, reads the row and writes it.
Enter(p) == \E new \in Resolved(p) :
    /\ At(p, "enter")
    /\ Lock(p)
    /\ row' = new
    /\ mine' = [mine EXCEPT ![p] = new]
    /\ todo' = [todo EXCEPT ![p] = Tail(todo[p])]
    /\ Changed(p)
    /\ apart' = apart \cup ((row \ new) \cap Served)
    /\ UNCHANGED <<conn, secret, env, gateway, job, alone, trouble>>

\* ensure_runtime_related_records: whatever is on gets a configured connection.
Relink(p) ==
    LET on == mine[p] \cap Served IN
    /\ At(p, "relink")
    /\ writer \in {p, NoProc}
    /\ conn' = [i \in Served |-> IF i \in on THEN "configured" ELSE conn[i]]
    /\ apart' = apart \cup (IF stale[p] THEN on ELSE on \cap Clash(p))
    /\ Done(p)
    /\ UNCHANGED <<row, writer, old, secret, env, gateway, stale, alone, trouble>>

Commit(p) ==
    /\ At(p, "commit")
    /\ writer' = NoProc /\ old' = [row |-> row, conn |-> conn]
    /\ Changed(p)
    /\ Done(p)
    /\ UNCHANGED <<row, conn, secret, env, gateway, alone, apart, trouble>>

\* An exception or a kill.  What had been written before stays, but for the
\* rows of a transaction.
Fail(p) ==
    /\ Busy(p)
    /\ IF writer = p
       THEN /\ row' = old.row /\ conn' = old.conn /\ writer' = NoProc
            /\ trouble' = IF Before(p, "env") THEN trouble \cup {"secret"}
                          ELSE trouble \cup {"env", "secret"}
       ELSE /\ trouble' = IF Before(p, "up") /\ ~Before(p, "save") /\ ~At(p, "enter")
                          THEN trouble \cup {"env", "secret"}
                          ELSE IF Before(p, "up") THEN trouble \cup {"secret"} ELSE trouble
            /\ UNCHANGED <<row, conn, writer>>
    /\ apart' = apart \cup ({job[p].item} \cap Served)
    /\ todo' = [todo EXCEPT ![p] = <<>>]
    /\ job' = [job EXCEPT ![p] = NoJob]
    /\ mine' = [mine EXCEPT ![p] = {}]
    /\ UNCHANGED <<old, secret, env, gateway, stale, alone>>

\* Docker restarts the container: the env it was created with, today's secrets.
Restart ==
    /\ gateway' = [gateway EXCEPT !.secret = secret]
    /\ UNCHANGED <<rowVars, secret, env, procVars, apart, trouble>>

Next ==
    \/ \E p \in Procs :
          \/ Request(p)
          \/ /\ \/ Load(p) \/ Connect(p) \/ Save(p) \/ StoreSecret(p) \/ WriteEnv(p)
                \/ Up(p) \/ Disconnect(p) \/ Enter(p) \/ Relink(p) \/ Commit(p) \/ Fail(p)
             /\ UNCHANGED requests
    \/ Test \/ Restart

Spec == Init /\ [][Next]_vars

-----------------------------------------------------------------------------
(***************************************************************************)
(* Safety                                                                  *)
(***************************************************************************)

\* Saving or deleting an integration "rewrites bootstrap env and recreates the
\* runtime so channel/search settings take effect immediately": the gateway
\* serves what the committed row says, unless an operation is on its way there,
\* one has broken off in between, or one wrote what it had read before another
\* changed the row.  The next one that is up to date repairs it.
GatewayFollowsRow ==
    \/ "env" \in trouble
    \/ \E p \in Procs : Before(p, "up") \/ writer = p
    \/ gateway.env = Committed \cap Served

\* The gateway runs with the newest of every secret, also with one that was
\* stored while another operation recreated it, unless an operation is to
\* recreate it still or broke off after storing a secret.
SecretsReachGateway ==
    \/ "secret" \in trouble
    \/ \E p \in Procs : Before(p, "up") \/ writer = p
    \/ gateway.secret = secret

\* An integration that is on has a connection that is not DISABLED, one that is
\* off has none that is CONFIGURED, unless an operation on it is under way, or
\* it is set apart by one of these: two operations on it at a time, one that
\* broke off, a column saved or a connection rebuilt from an old reading, a
\* wizard's replacement of the columns, a search without a provider.  The types
\* of the variables are checked with it.
ConnectionFollowsRow ==
    /\ TypeOK
    /\ \A i \in Served \ apart :
          \/ \E p \in Procs : Busy(p) /\ (job[p].item = i \/ job[p].op = "provision")
          \/ IF i \in row THEN conn[i] \in {"configured", "tested"} ELSE conn[i] # "configured"

\* An operation on a channel's deletion or on the skills reverts nothing in the
\* other column, whatever was saved there since it read the row.
OtherColumnKept ==
    [][\A p \in Procs :
          At(p, "save") /\ todo'[p] = Tail(todo[p]) =>
              CASE job[p].op = "skills" -> row' \cap Channels = row \cap Channels
                [] job[p].op = "unlink" /\ job[p].item \in Channels ->
                      row' \cap Settings = row \cap Settings
                [] OTHER -> TRUE]_vars

=============================================================================

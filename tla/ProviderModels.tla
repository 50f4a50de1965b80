---------------------------- MODULE ProviderModels ----------------------------
(***************************************************************************)
(* Provider connections and models, and the LiteLLM stack made from them.  *)
(* Every change of the rows is followed by a rewriting of LiteLLM's env    *)
(* and config files and a `docker compose up'; a connection's row is       *)
(* changed in a transaction, and the files are written before it commits.  *)
(* The CLI's `litellm bootstrap' rotates LiteLLM's own secrets and writes  *)
(* the same two files.                                                     *)
(*                                                                         *)
(* Source: orchestrator/service_layer.py, orchestrator/litellm.py,         *)
(* orchestrator/cli.py.                                                    *)
(*                                                                         *)
(* What is kept: what is written and read in which order, the transaction, *)
(* the cascade of foreign keys, the secrets a config refers to, the        *)
(* service token in the env file, failures and kills.  What is left out:   *)
(* display names, tenants, prices; an API base is treated like an API key. *)
(***************************************************************************)
EXTENDS Naturals, FiniteSets

CONSTANTS
    Procs,          \* concurrent requests and CLI processes
    Conns,          \* names of provider connections
    Platform,       \* "platform-openrouter", one of Conns
    Aliases,        \* model aliases
    Default,        \* DEFAULT_MODEL_ALIAS, one of Aliases
    MaxRotations,   \* bound: how often the CLI rotates LiteLLM's secrets
    MaxRequests,    \* bound: how many requests there are
    Failures,       \* do calls fail and processes get killed?
    None, NoProc

Ops == {"save", "remove", "model", "toggle", "drop", "backfill", "bootstrap"}

\* Which secret a connection's row names: its own, or OPENROUTER_API_KEY.
Names == {"own", "platform"}

\* A model's row: its connection, if any, and is_enabled.
Model == [conn : Conns \cup {None}, on : BOOLEAN]

\* What a config file says of an alias: no entry, the entry LiteLLM always has,
\* or one with the secret a connection names.
Entry == {None, Default} \cup (Conns \X (Names \cup {None}))

ASSUME ProviderAssumption ==
    /\ Platform \in Conns /\ Default \in Aliases
    /\ MaxRotations \in Nat /\ MaxRequests \in Nat
    /\ Failures \in BOOLEAN
    /\ NoProc \notin Procs
    /\ None \notin Conns \cup Names \cup Model \cup (Conns \X Names) \cup Nat
    /\ Default \notin (Conns \X Names) \cup {None}

VARIABLES
    conns,      \* conns[c]: the secret its row names, None without a row
    models,     \* models[a]: the row of the alias, None without one
    writer,     \* the operation inside upsert_provider_connection
    old,        \* conns as committed, while an operation is inside
    secret,     \* the connections with a key of their own in Infisical
    core,       \* how often LiteLLM's own secrets have been rotated
    token,      \* the rotation whose service token the env file holds
    config,     \* litellm-stack/config.yaml
    litellm,    \* the running container: its token, and the secrets it read
    pc, job,    \* an operation's position and request
    requests,   \* how many there have been
    read,       \* read[p]: the token and the entries p is about to write
    stale,      \* stale[p]: have the rows changed since p read them?
    author,     \* history: who wrote config last
    keyless,    \* history: connections saved without a key, having none
    trouble     \* history: the files an accident has left apart

rowVars  == <<conns, models, writer, old>>
fileVars == <<token, config, author>>
procVars == <<pc, job, requests, read, stale>>
vars == <<rowVars, secret, core, litellm, fileVars, procVars, keyless, trouble>>

Job == [op : Ops, conn : Conns \cup {None}, alias : Aliases, flag : BOOLEAN]

NoRead == [token |-> 0, rows |-> [a \in Aliases |-> None]]

NoJob == [op |-> "backfill", conn |-> None, alias |-> Default, flag |-> FALSE]

Committed == IF writer = NoProc THEN conns ELSE old

\* What regenerate_litellm_config lists: the entry of the default alias, then
\* the enabled models that have a connection, each alias once.
Render(cs, ms) ==
    [a \in Aliases |->
        IF a = Default THEN Default
        ELSE IF ms[a] # None /\ ms[a].on /\ ms[a].conn # None
        THEN <<ms[a].conn, cs[ms[a].conn]>>
        ELSE None]

TypeOK ==
    /\ conns \in [Conns -> Names \cup {None}]
    /\ models \in [Aliases -> Model \cup {None}]
    /\ writer \in Procs \cup {NoProc}
    /\ old \in [Conns -> Names \cup {None}]
    /\ secret \subseteq Conns /\ keyless \subseteq Conns
    /\ core \in 0..MaxRotations /\ token \in 0..core
    /\ config \in [Aliases -> Entry]
    /\ litellm \in [token : 0..core, secrets : 0..core]
    /\ pc \in [Procs -> {"idle", "enter", "change", "key", "readEnv", "writeEnv",
                         "readRows", "writeConfig", "up", "commit", "seed",
                         "rotate"}]
    /\ job \in [Procs -> Job] /\ requests \in 0..MaxRequests
    /\ read \in [Procs -> [token : 0..core, rows : [Aliases -> Entry]]]
    /\ stale \in [Procs -> BOOLEAN]
    /\ author \in Procs \cup {NoProc}
    /\ trouble \subseteq {"config", "env"}
    /\ \A p \in Procs : pc[p] \in {"key", "commit"} => writer = p

Init ==
    /\ conns = [c \in Conns |-> IF c = Platform THEN "platform" ELSE None]
    /\ models = [a \in Aliases |->
                    IF a = Default THEN [conn |-> Platform, on |-> TRUE] ELSE None]
    /\ writer = NoProc /\ old = conns
    /\ secret = {} /\ keyless = {}
    /\ core = 0 /\ token = 0
    /\ config = Render(conns, models)
    /\ litellm = [token |-> 0, secrets |-> 0]
    /\ pc = [p \in Procs |-> "idle"]
    /\ job = [p \in Procs |-> NoJob] /\ requests = 0
    /\ read = [p \in Procs |-> NoRead]
    /\ stale = [p \in Procs |-> FALSE]
    /\ author = NoProc
    /\ trouble = {}

-----------------------------------------------------------------------------

Goto(p, step) == pc' = [pc EXCEPT ![p] = step]

Over(p) ==
    /\ Goto(p, "idle")
    /\ job' = [job EXCEPT ![p] = NoJob]
    /\ read' = [read EXCEPT ![p] = NoRead]

\* Whoever has read the rows has read what they were.
RowsChanged == stale' = [q \in Procs |-> TRUE]

Saving(p) == job[p].op = "save"

\* p has changed the rows, and config.yaml is still to follow; or it has
\* followed, and the rows are still to be committed.
Owes(p) ==
    IF Saving(p) THEN pc[p] \in {"up", "commit"}
    ELSE /\ job[p].op # "bootstrap"
         /\ pc[p] \in {"readEnv", "writeEnv", "readRows", "writeConfig"}

\* A bootstrap has rotated the secrets, and not yet written its token.
Owing(p) == job[p].op = "bootstrap" /\ pc[p] \in {"readEnv", "writeEnv"}

-----------------------------------------------------------------------------
(***************************************************************************)
(* The requests                                                            *)
(***************************************************************************)

Asks(p, o, c, a, flag) ==
    /\ job' = [job EXCEPT ![p] = [op |-> o, conn |-> c, alias |-> a, flag |-> flag]]
    /\ Goto(p, CASE o = "save" -> "enter" [] o = "bootstrap" -> "rotate" [] OTHER -> "change")

\* With an API key or without one, and for a connection that is found.
SaveNamed(p) == \E c \in Conns, key \in BOOLEAN : Asks(p, "save", c, Default, key)

SaveFound(p) == \E c \in Conns, key \in BOOLEAN :
    Committed[c] # None /\ Asks(p, "save", c, Default, key)

RemoveFound(p) == \E c \in Conns :
    Committed[c] # None /\ Asks(p, "remove", c, Default, FALSE)

DropFound(p) == \E a \in Aliases :
    models[a] # None /\ Asks(p, "drop", None, a, FALSE)

\* "Rebuild Baseline"
Rebuild(p) == Asks(p, "backfill", None, Default, FALSE)

\* A connection that is gone since the form was shown is made again.
ProvidersPage(p) == SaveNamed(p) \/ RemoveFound(p) \/ Rebuild(p)

\* A model is saved with no connection or with one that is found.
SaveModelNamed(p) == \E a \in Aliases, c \in Conns \cup {None} :
    (c # None => Committed[c] # None) /\ Asks(p, "model", c, a, TRUE)

ModelsPage(p) ==
    \/ SaveModelNamed(p) \/ DropFound(p) \/ Rebuild(p)
    \/ \E a \in Aliases, on \in BOOLEAN : models[a] # None /\ Asks(p, "toggle", None, a, on)

SecretsPage(p) == SaveFound(p) \/ Rebuild(p)

ConnectionsApi(p) == SaveNamed(p)

ConnectionApi(p) == SaveFound(p) \/ RemoveFound(p)

ModelsApi(p) == SaveModelNamed(p)

\* PATCH of a model sends the connection of the row it has read.
ModelApi(p) ==
    \/ \E a \in Aliases : models[a] # None /\ Asks(p, "model", models[a].conn, a, TRUE)
    \/ DropFound(p)

SecretsApi(p) == SaveNamed(p)

SecretApi(p) == SaveFound(p) \/ RemoveFound(p)

\* `orchestrator litellm bootstrap'
Bootstrap(p) == core < MaxRotations /\ Asks(p, "bootstrap", None, Default, FALSE)

Request(p) ==
    /\ pc[p] = "idle"
    /\ requests < MaxRequests /\ requests' = requests + 1
    /\ \/ ProvidersPage(p) \/ ModelsPage(p) \/ SecretsPage(p)
       \/ ConnectionsApi(p) \/ ConnectionApi(p) \/ ModelsApi(p) \/ ModelApi(p)
       \/ SecretsApi(p) \/ SecretApi(p) \/ Bootstrap(p)
    /\ UNCHANGED <<rowVars, secret, core, litellm, fileVars, read, stale, keyless, trouble>>

-----------------------------------------------------------------------------
(***************************************************************************)
(* The rows                                                                *)
(***************************************************************************)

\* The transaction's first statement takes SQLite's write lock.
Lock(p) == writer = NoProc /\ writer' = p /\ old' = conns

\* upsert_provider_connection takes the write lock with its first statement;
\* the row names a secret of the connection's own from now on.
Enter(p) ==
    /\ pc[p] = "enter"
    /\ Lock(p)
    /\ conns' = [conns EXCEPT ![job[p].conn] = "own"]
    /\ keyless' = IF job[p].flag \/ job[p].conn \in secret THEN keyless
                  ELSE keyless \cup {job[p].conn}
    /\ Goto(p, IF job[p].flag THEN "key" ELSE "readEnv")
    /\ UNCHANGED <<models, secret, core, litellm, fileVars, job, read, stale, trouble>>

\* Mutant: the key is kept when the transaction is over, and not put in Infisical.
StoreKeyMutant(p) ==
    /\ pc[p] = "key"
    /\ Goto(p, "readEnv")
    /\ UNCHANGED <<rowVars, secret, core, litellm, fileVars, job, read, stale, keyless, trouble>>

\* upsert_secret into litellm-core, which no rollback takes back
StoreKey(p) ==
    /\ pc[p] = "key"
    /\ secret' = secret \cup {job[p].conn}
    /\ keyless' = keyless \ {job[p].conn}
    /\ Goto(p, "readEnv")
    /\ UNCHANGED <<rowVars, core, litellm, fileVars, job, read, stale, trouble>>

\* Mutant: on_delete=DO_NOTHING, and db_constraint=False.
CascadeMutant(c) == models

\* on_delete=CASCADE of ProviderModel.provider_connection
Cascade(c) ==
    [a \in Aliases |-> IF models[a] # None /\ models[a].conn = c THEN None ELSE models[a]]

\* A row is written in autocommit mode.
Writes(p, o, step) ==
    /\ pc[p] = "change" /\ job[p].op = o
    /\ writer = NoProc
    /\ old' = conns'
    /\ RowsChanged
    /\ Goto(p, step)
    /\ UNCHANGED <<writer, secret, core, litellm, fileVars, job, read, keyless>>

\* delete_provider_connection_service
DeleteConnection(p) ==
    /\ conns' = [conns EXCEPT ![job[p].conn] = None]
    /\ models' = Cascade(job[p].conn)
    /\ Writes(p, "remove", "readEnv")
    /\ UNCHANGED trouble

\* upsert_provider_model: the foreign key wants the connection's row.
SaveModel(p) ==
    /\ job[p].conn # None => conns[job[p].conn] # None
    /\ models' = [models EXCEPT ![job[p].alias] = [conn |-> job[p].conn, on |-> TRUE]]
    /\ UNCHANGED <<conns, trouble>>
    /\ Writes(p, "model", "readEnv")

\* set_provider_model_enabled: a model that is gone cannot be saved.
ToggleModel(p) ==
    /\ models[job[p].alias] # None
    /\ models' = [models EXCEPT ![job[p].alias].on = job[p].flag]
    /\ UNCHANGED <<conns, trouble>>
    /\ Writes(p, "toggle", "readEnv")

\* delete_provider_model_service
DeleteModel(p) ==
    /\ models' = [models EXCEPT ![job[p].alias] = None]
    /\ UNCHANGED <<conns, trouble>>
    /\ Writes(p, "drop", "readEnv")

\* The first half of ensure_platform_provider_records
SeedConnection(p) ==
    /\ conns' = [conns EXCEPT ![Platform] = "platform"]
    /\ trouble' = trouble \cup {"config"}
    /\ UNCHANGED models
    /\ Writes(p, "backfill", "seed")

\* The second half of ensure_platform_provider_records, which regenerates nothing.
Seed(p) ==
    /\ pc[p] = "seed"
    /\ writer = NoProc
    /\ conns[Platform] # None
    /\ models' = [models EXCEPT ![Default] = [conn |-> Platform, on |-> TRUE]]
    /\ RowsChanged
    /\ Over(p)
    /\ UNCHANGED <<conns, writer, old, secret, core, litellm, fileVars, keyless, trouble>>

-----------------------------------------------------------------------------
(***************************************************************************)
(* regenerate_litellm_config, and the CLI's own writing of the files       *)
(***************************************************************************)

\* upsert_secret of the master key, which is made anew when the old one cannot
\* be read, and of the provider key; create_service_token, whose token only this
\* bootstrap knows.
Rotate(p) ==
    /\ pc[p] = "rotate"
    /\ core < MaxRotations
    /\ core' = core + 1
    /\ read' = [read EXCEPT ![p].token = core']
    /\ Goto(p, "readEnv")
    /\ UNCHANGED <<rowVars, secret, litellm, fileVars, job, stale, keyless, trouble>>

\* Mutant: the CLI, too, lays the values of the file over its own.
ReadEnvMutant(p) ==
    /\ pc[p] = "readEnv"
    /\ read' = [read EXCEPT ![p].token = token]
    /\ Goto(p, "writeEnv")
    /\ UNCHANGED <<rowVars, secret, core, litellm, fileVars, job, stale, keyless, trouble>>

\* The env file is read, to be written with what was read; the CLI puts the
\* service token of its own rotation in.
ReadEnv(p) ==
    /\ pc[p] = "readEnv"
    /\ read' = IF job[p].op = "bootstrap" THEN read ELSE [read EXCEPT ![p].token = token]
    /\ Goto(p, "writeEnv")
    /\ UNCHANGED <<rowVars, secret, core, litellm, fileVars, job, stale, keyless, trouble>>

\* A token that a bootstrap has written since is lost when the one before it is
\* written back.  The next bootstrap brings a token no container has.
WriteEnv(p) ==
    /\ pc[p] = "writeEnv"
    /\ token' = read[p].token
    /\ read' = [read EXCEPT ![p] = NoRead]
    /\ Goto(p, IF job[p].op = "bootstrap" THEN "writeConfig" ELSE "readRows")
    /\ trouble' = IF job[p].op = "bootstrap" THEN trouble \ {"env"}
                  ELSE IF read[p].token # token THEN trouble \cup {"env"} ELSE trouble
    /\ UNCHANGED <<rowVars, secret, core, litellm, config, author, job, stale, keyless>>

\* ProviderModel.objects.filter(is_enabled=True); an operation inside sees its
\* own change, the others do not.
ReadRows(p) ==
    /\ pc[p] = "readRows"
    /\ read' = [read EXCEPT ![p].rows =
                   Render(IF writer = p THEN conns ELSE Committed, models)]
    /\ stale' = [stale EXCEPT ![p] = FALSE]
    /\ Goto(p, "writeConfig")
    /\ UNCHANGED <<rowVars, secret, core, litellm, fileVars, job, keyless, trouble>>

\* write_stack_config.  The CLI writes the default entry alone.
WriteConfig(p) ==
    /\ pc[p] = "writeConfig"
    /\ config' = IF job[p].op = "bootstrap"
                 THEN [a \in Aliases |-> IF a = Default THEN Default ELSE None]
                 ELSE read[p].rows
    /\ author' = p
    /\ read' = [read EXCEPT ![p] = NoRead]
    /\ trouble' = IF job[p].op = "bootstrap" \/ stale[p] THEN trouble \cup {"config"}
                  ELSE IF Saving(p) THEN trouble ELSE trouble \ {"config"}
    /\ Goto(p, IF job[p].op = "bootstrap" THEN "idle" ELSE "up")
    /\ job' = IF job[p].op = "bootstrap" THEN [job EXCEPT ![p] = NoJob] ELSE job
    /\ UNCHANGED <<rowVars, secret, core, litellm, token, stale, keyless>>

\* A container that boots reads its secrets; those of its env stay the same until
\* it is created anew.
Boots(t) ==
    /\ litellm' = [token |-> t, secrets |-> core]
    /\ trouble' = trouble \ {"env"}

\* docker compose up -d litellm re-creates the container when its env differs,
\* and not for a new config.yaml.
ComposeUp ==
    IF litellm.token # token THEN Boots(token) ELSE UNCHANGED <<litellm, trouble>>

\* _reload_litellm_stack, and the commit of upsert_provider_connection.
\* Another may have written config.yaml since, from the rows before the commit.
Up(p) ==
    /\ pc[p] = "up"
    /\ ComposeUp
    /\ IF Saving(p)
       THEN Goto(p, "commit") /\ UNCHANGED <<job, read>>
       ELSE Over(p)
    /\ UNCHANGED <<rowVars, secret, core, fileVars, stale, keyless>>

\* Mutant: the transaction ends in front of regenerate_litellm_config, with the
\* rows as they were.
CommitMutant(p) ==
    /\ pc[p] = "commit"
    /\ writer' = NoProc
    /\ conns' = old
    /\ RowsChanged
    /\ trouble' = IF author = p THEN trouble \ {"config"} ELSE trouble \cup {"config"}
    /\ Over(p)
    /\ UNCHANGED <<models, old, secret, core, litellm, fileVars, keyless>>

Commit(p) ==
    /\ pc[p] = "commit"
    /\ writer' = NoProc
    /\ old' = conns
    /\ RowsChanged
    /\ trouble' = IF author = p THEN trouble \ {"config"} ELSE trouble \cup {"config"}
    /\ Over(p)
    /\ UNCHANGED <<conns, models, secret, core, litellm, fileVars, keyless>>

\* An exception or a kill.  A transaction is rolled back, files and secrets
\* stay; what p would still have written is left apart.
Fail(p) ==
    /\ Failures /\ pc[p] # "idle"
    /\ IF writer = p
       THEN conns' = old /\ writer' = NoProc
       ELSE UNCHANGED <<conns, writer>>
    /\ trouble' = trouble
           \cup (IF Owes(p) THEN {"config"} ELSE {})
           \cup (IF Owing(p) THEN {"env"} ELSE {})
    /\ Over(p)
    /\ UNCHANGED <<models, old, secret, core, litellm, fileVars, stale, keyless>>

\* Docker restarts the container: the env it was created with, today's secrets.
Restart ==
    /\ Boots(litellm.token)
    /\ UNCHANGED <<rowVars, secret, core, fileVars, procVars, keyless>>

\* The operator's `docker compose up -d', as after a bootstrap.
OperatorUp ==
    /\ ComposeUp
    /\ UNCHANGED <<rowVars, secret, core, fileVars, procVars, keyless>>

Next ==
    \/ \E p \in Procs :
          \/ Request(p)
          \/ /\ \/ Enter(p) \/ StoreKey(p) \/ DeleteConnection(p) \/ SaveModel(p)
                \/ ToggleModel(p) \/ DeleteModel(p) \/ SeedConnection(p) \/ Seed(p)
                \/ Rotate(p) \/ ReadEnv(p) \/ WriteEnv(p) \/ ReadRows(p)
                \/ WriteConfig(p) \/ Up(p) \/ Commit(p) \/ Fail(p)
             /\ UNCHANGED requests
    \/ Restart \/ OperatorUp

Spec == Init /\ [][Next]_vars

-----------------------------------------------------------------------------
(***************************************************************************)
(* Safety                                                                  *)
(***************************************************************************)

\* LiteLLM's config file lists what the committed rows say, except while an
\* operation has still to write it or to commit, and after one of these: a
\* file written from rows that had changed since, or by another before a
\* commit; an operation that broke off in between; a backfill or a bootstrap,
\* which do not regenerate it.  The next change that reads the rows last
\* repairs it.
ConfigFollowsRows ==
    \/ "config" \in trouble
    \/ \E p \in Procs : Owes(p)
    \/ config = Render(Committed, models)

\* No model names a connection that is not there, whichever of the two is
\* saved or deleted first.  The types of the variables are checked with it.
NoDangling ==
    /\ TypeOK
    /\ \A a \in Aliases :
          models[a] # None /\ models[a].conn # None => Committed[models[a].conn] # None

\* A secret the config file names is in Infisical, unless the connection has
\* been saved without a key: also for an entry whose connection was rolled
\* back or deleted since.
SecretsBehindConfig ==
    \A a \in Aliases, c \in Conns :
        config[a] = <<c, "own">> => c \in secret \cup keyless

\* "This refreshes the provider master secret [...] and restarts the gateway
\* layer": no container runs with secrets older than the rotation its token is
\* from, however many bootstraps overlap; and one that has the token of the env
\* file, which no `docker compose up' would replace, has the secrets of the last
\* rotation, unless a bootstrap has still to write its token.  A bootstrap that
\* broke off there, or a token written back over a newer one, may leave it
\* with older ones until it boots again or the next bootstrap.
RotationReaches ==
    /\ litellm.token <= litellm.secrets
    /\ \/ "env" \in trouble
       \/ \E p \in Procs : Owing(p)
       \/ litellm.token = token => litellm.secrets = core

=============================================================================

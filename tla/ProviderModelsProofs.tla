------------------------- MODULE ProviderModelsProofs -------------------------
(***************************************************************************)
(* The invariants of ProviderModels, proved for any number of processes,   *)
(* connections, aliases, requests and rotations.                           *)
(*                                                                         *)
(* What they need beside themselves: which operation can be where (Jobs);  *)
(* that the transaction takes no connection away (OnlyAdds); that a secret *)
(* named by a row, or by what was read to be written, exists or is being   *)
(* made (Named, NamedRead); that the token a bootstrap is about to write   *)
(* is in no file, container or memory but its own (Fresh); that what is to *)
(* be written to config.yaml is what the rows say, unless they have        *)
(* changed since (RowsRead), and that a transaction that is about to       *)
(* commit has its own rows there (OwnConfig).                              *)
(***************************************************************************)
EXTENDS ProviderModels, TLAPS

\* Which operation is where; the transaction is held by a save that is past its
\* first statement.
Jobs ==
    \A p \in Procs :
        /\ pc[p] = "idle" => job[p].op = "backfill"
        /\ pc[p] \in {"enter", "key", "commit"} => Saving(p)
        /\ pc[p] \in {"change", "seed"} => job[p].op \notin {"save", "bootstrap"}
        /\ pc[p] = "rotate" => job[p].op = "bootstrap"
        /\ pc[p] \in {"readRows", "up"} => job[p].op # "bootstrap"
        /\ job[p].op \in {"save", "remove"} => job[p].conn \in Conns
        /\ writer = p <=> Saving(p) /\ pc[p] # "enter"

\* What NoDangling says beside the types.
Linked ==
    \A a \in Aliases :
        models[a] # None /\ models[a].conn # None => Committed[models[a].conn] # None

\* The transaction has every connection there was before it.
OnlyAdds == \A c \in Conns : Committed[c] # None => conns[c] # None

\* A committed row that names a secret of its own has one, or was saved without
\* a key; within the transaction it may be about to be stored.
Named ==
    /\ \A c \in Conns : Committed[c] = "own" => c \in secret \cup keyless
    /\ \A c \in Conns : conns[c] = "own" =>
          \/ c \in secret \cup keyless
          \/ \E p \in Procs : writer = p /\ pc[p] = "key" /\ job[p].conn = c

\* So has every entry a process is about to write.
NamedRead ==
    \A p \in Procs, a \in Aliases, c \in Conns :
        read[p].rows[a] = <<c, "own">> => c \in secret \cup keyless

\* The token a bootstrap owes is one nobody else has seen.
Fresh ==
    \A p \in Procs : Owing(p) =>
        /\ read[p].token \notin {0, token, litellm.token}
        /\ \A q \in Procs \ {p} : read[q].token # read[p].token

\* The rows a process sees: the transaction sees its own.
Seen(p) == IF writer = p THEN conns ELSE Committed

\* What a process is about to write to config.yaml is what the rows say, unless
\* they have changed since; under the transaction they do not change.
RowsRead ==
    \A p \in Procs :
        pc[p] = "writeConfig" /\ job[p].op # "bootstrap" =>
            /\ writer = p => ~stale[p]
            /\ ~stale[p] => read[p].rows = Render(Seen(p), models)

\* A transaction about to commit has its rows in config.yaml, unless another
\* has written the file since.
OwnConfig ==
    \A p \in Procs :
        writer = p /\ pc[p] \in {"up", "commit"} /\ author = p =>
            config = Render(conns, models)

\* The inductive invariant.
IInv ==
    /\ TypeOK /\ Jobs
    /\ Linked /\ OnlyAdds
    /\ Named /\ NamedRead /\ SecretsBehindConfig
    /\ Fresh /\ RotationReaches
    /\ RowsRead /\ OwnConfig /\ ConfigFollowsRows

-----------------------------------------------------------------------------
(***************************************************************************)
(* Every step keeps the invariant                                          *)
(***************************************************************************)

\* regenerate_litellm_config writes entries, whatever the rows.
LEMMA RenderType ==
    ASSUME NEW cs \in [Conns -> Names \cup {None}],
           NEW ms \in [Aliases -> Model \cup {None}]
    PROVE  Render(cs, ms) \in [Aliases -> Entry]
BY ProviderAssumption DEF Render, Entry, Model

\* An operation that is over has read nothing and has no request.
LEMMA NoReadType ==
    ASSUME TypeOK
    PROVE  NoRead \in [token : 0..core, rows : [Aliases -> Entry]] /\ NoJob \in Job
BY ProviderAssumption DEF TypeOK, NoRead, NoJob, Entry, Job, Ops

\* What has not been read names no secret.
LEMMA NoReadEntries ==
    \A a \in Aliases, c \in Conns : NoRead.rows[a] # <<c, "own">>
BY ProviderAssumption DEF NoRead, Names

\* What was going to be written stays, or is dropped, and no secret is lost.
LEMMA NamedReadKept ==
    ASSUME NEW p \in Procs, TypeOK, NamedRead,
           read' = read \/ read' = [read EXCEPT ![p] = NoRead],
           secret \subseteq secret', keyless \subseteq keyless'
    PROVE  NamedRead'
<1>1. \A q \in Procs : read'[q] \in {read[q], NoRead}
  BY DEF TypeOK
<1> QED
  BY <1>1, NoReadEntries DEF NamedRead

\* A request is for a row that has been found, or for one that is to be made.
LEMMA RequestStep ==
    ASSUME NEW p \in Procs, IInv, Request(p)
    PROVE  IInv'
<1> USE ProviderAssumption DEF Asks, Goto, Saving, Committed, rowVars,
      fileVars, procVars
<1> DEFINE Asked(o, c, a, flag) ==
             /\ o \in {"save", "remove"} => c \in Conns
             /\ Asks(p, o, c, a, flag)
<1>a. PICK o \in Ops, c \in Conns \cup {None}, a \in Aliases, flag \in BOOLEAN :
          Asked(o, c, a, flag)
  <2>1. \/ \E c \in Conns, flag \in BOOLEAN :
              \/ Asks(p, "save", c, Default, flag)
              \/ Asks(p, "remove", c, Default, FALSE)
        \/ \E c \in Conns \cup {None}, a \in Aliases : Asks(p, "model", c, a, TRUE)
        \/ \E a \in Aliases, flag \in BOOLEAN : Asks(p, "toggle", None, a, flag)
        \/ \E a \in Aliases : Asks(p, "drop", None, a, FALSE)
        \/ Asks(p, "backfill", None, Default, FALSE)
        \/ Asks(p, "bootstrap", None, Default, FALSE)
    <3> USE DEF SaveNamed, SaveFound, RemoveFound, DropFound, Rebuild, SaveModelNamed
    <3> HIDE DEF Asks
    <3>1. \A a \in Aliases : models[a] # None => models[a].conn \in Conns \cup {None}
      BY DEF IInv, TypeOK, Model
    <3> QED
      BY <3>1 DEF Request, ProvidersPage, ModelsPage, SecretsPage, ConnectionsApi,
         ConnectionApi, ModelsApi, ModelApi, SecretsApi, SecretApi, Bootstrap
  <2> HIDE DEF Asks
  <2> QED
    BY <2>1 DEF Ops
<1>b. /\ pc[p] = "idle" /\ requests' \in 0..MaxRequests
      /\ job' = [job EXCEPT ![p] = [op |-> o, conn |-> c, alias |-> a, flag |-> flag]]
      /\ [op |-> o, conn |-> c, alias |-> a, flag |-> flag] \in Job
      /\ o \in {"save", "remove"} => c \in Conns
      /\ pc' = [pc EXCEPT ![p] = IF o = "save" THEN "enter"
                                 ELSE IF o = "bootstrap" THEN "rotate" ELSE "change"]
      /\ UNCHANGED <<rowVars, secret, core, litellm, fileVars, read, stale, keyless, trouble>>
  <2>1. [op |-> o, conn |-> c, alias |-> a, flag |-> flag] \in Job
    BY DEF Job
  <2>2. pc[p] = "idle" /\ requests' \in 0..MaxRequests
    <3> HIDE DEF Asks
    <3> QED
      BY DEF Request, IInv, TypeOK
  <2>3. UNCHANGED <<rowVars, secret, core, litellm, fileVars, read, stale, keyless, trouble>>
    BY DEF Request
  <2> QED
    BY <1>a, <2>1, <2>2, <2>3
<1> HIDE DEF Asks, Asked
<1>1. TypeOK'
  BY <1>b DEF IInv, TypeOK, Model, Names, Jobs
<1>2. Jobs'
  BY <1>b DEF IInv, Jobs, TypeOK, NoJob
<1>3. Linked'
  BY <1>b DEF IInv, Linked, TypeOK, Jobs
<1>4. OnlyAdds'
  BY <1>b DEF IInv, OnlyAdds, TypeOK, Names, Jobs
<1>5. Named'
  BY <1>b DEF IInv, Named, TypeOK, Names, Jobs
<1>6. NamedRead'
  BY <1>b DEF IInv, NamedRead, TypeOK, Jobs
<1>7. SecretsBehindConfig'
  BY <1>b DEF IInv, SecretsBehindConfig, TypeOK, Jobs
<1>8. Fresh'
  BY <1>b DEF IInv, Fresh, TypeOK, Owing, NoRead, Jobs
<1>9. RotationReaches'
  BY <1>b DEF IInv, RotationReaches, TypeOK, Owing, Jobs
<1>10. RowsRead'
  BY <1>b DEF IInv, RowsRead, TypeOK, Seen, NoRead, Jobs
<1>11. OwnConfig'
  BY <1>b DEF IInv, OwnConfig, TypeOK, Jobs
<1>12. ConfigFollowsRows'
  BY <1>b DEF IInv, ConfigFollowsRows, TypeOK, Owes, NoJob, Jobs
<1> QED
  BY <1>1, <1>2, <1>3, <1>4, <1>5, <1>6, <1>7, <1>8, <1>9, <1>10, <1>11,
      <1>12
  DEF IInv

\* A transaction begins with the rows as they are.
LEMMA EnterStep ==
    ASSUME NEW p \in Procs, IInv, Enter(p),
           UNCHANGED requests
    PROVE  IInv'
<1> USE ProviderAssumption DEF Enter, Lock, Goto, Saving, Committed, rowVars,
      fileVars, procVars
<1>1. TypeOK'
  BY DEF IInv, TypeOK, Model, Names, Jobs
<1>2. Jobs'
  BY DEF IInv, Jobs, TypeOK, NoJob
<1>3. Linked'
  BY DEF IInv, Linked, TypeOK, Jobs
<1>4. OnlyAdds'
  BY DEF IInv, OnlyAdds, TypeOK, Names, Jobs
<1>5. Named'
  BY DEF IInv, Named, TypeOK, Names, Jobs
<1>6. NamedRead'
  BY DEF IInv, NamedRead, TypeOK, Jobs
<1>7. SecretsBehindConfig'
  BY DEF IInv, SecretsBehindConfig, TypeOK, Jobs
<1>8. Fresh'
  BY DEF IInv, Fresh, TypeOK, Owing, NoRead, Jobs
<1>9. RotationReaches'
  BY DEF IInv, RotationReaches, TypeOK, Owing, Jobs
<1>10. RowsRead'
  BY DEF IInv, RowsRead, TypeOK, Seen, NoRead, Jobs
<1>11. OwnConfig'
  BY DEF IInv, OwnConfig, TypeOK, Jobs
<1>12. ConfigFollowsRows'
  BY DEF IInv, ConfigFollowsRows, TypeOK, Owes, NoJob, Jobs
<1> QED
  BY <1>1, <1>2, <1>3, <1>4, <1>5, <1>6, <1>7, <1>8, <1>9, <1>10, <1>11,
      <1>12
  DEF IInv

\* The key a row names is put in Infisical.
LEMMA StoreKeyStep ==
    ASSUME NEW p \in Procs, IInv, StoreKey(p),
           UNCHANGED requests
    PROVE  IInv'
<1> USE ProviderAssumption DEF StoreKey, Goto, Saving, Committed, rowVars,
      fileVars, procVars
<1>1. TypeOK'
  BY DEF IInv, TypeOK, Model, Names, Jobs
<1>2. Jobs'
  BY DEF IInv, Jobs, TypeOK, NoJob
<1>3. Linked'
  BY DEF IInv, Linked, TypeOK, Jobs
<1>4. OnlyAdds'
  BY DEF IInv, OnlyAdds, TypeOK, Names, Jobs
<1>5. Named'
  BY DEF IInv, Named, TypeOK, Names, Jobs
<1>6. NamedRead'
  BY DEF IInv, NamedRead, TypeOK, Jobs
<1>7. SecretsBehindConfig'
  BY DEF IInv, SecretsBehindConfig, TypeOK, Jobs
<1>8. Fresh'
  BY DEF IInv, Fresh, TypeOK, Owing, NoRead, Jobs
<1>9. RotationReaches'
  BY DEF IInv, RotationReaches, TypeOK, Owing, Jobs
<1>10. RowsRead'
  BY DEF IInv, RowsRead, TypeOK, Seen, NoRead, Jobs
<1>11. OwnConfig'
  BY DEF IInv, OwnConfig, TypeOK, Jobs
<1>12. ConfigFollowsRows'
  BY DEF IInv, ConfigFollowsRows, TypeOK, Owes, NoJob, Jobs
<1> QED
  BY <1>1, <1>2, <1>3, <1>4, <1>5, <1>6, <1>7, <1>8, <1>9, <1>10, <1>11,
      <1>12
  DEF IInv

\* A connection goes with its models; config.yaml is still to follow.
LEMMA DeleteConnectionStep ==
    ASSUME NEW p \in Procs, IInv, DeleteConnection(p),
           UNCHANGED requests
    PROVE  IInv'
<1> USE ProviderAssumption DEF DeleteConnection, Cascade, Writes, RowsChanged,
      Goto, Saving, Committed, rowVars, fileVars, procVars
<1>1. TypeOK'
  BY DEF IInv, TypeOK, Model, Names, Jobs
<1>2. Jobs'
  BY DEF IInv, Jobs, TypeOK, NoJob
<1>3. Linked'
  BY DEF IInv, Linked, TypeOK, Model, Jobs
<1>4. OnlyAdds'
  BY DEF IInv, OnlyAdds, TypeOK, Names, Jobs
<1>5. Named'
  BY DEF IInv, Named, TypeOK, Names, Jobs
<1>6. NamedRead'
  BY DEF IInv, NamedRead, TypeOK, Jobs
<1>7. SecretsBehindConfig'
  BY DEF IInv, SecretsBehindConfig, TypeOK, Jobs
<1>8. Fresh'
  BY DEF IInv, Fresh, TypeOK, Owing, NoRead, Jobs
<1>9. RotationReaches'
  BY DEF IInv, RotationReaches, TypeOK, Owing, Jobs
<1>10. RowsRead'
  BY DEF IInv, RowsRead, TypeOK, Seen, NoRead, Jobs
<1>11. OwnConfig'
  BY DEF IInv, OwnConfig, TypeOK, Jobs
<1>12. ConfigFollowsRows'
  BY DEF IInv, ConfigFollowsRows, TypeOK, Owes, NoJob, Jobs
<1> QED
  BY <1>1, <1>2, <1>3, <1>4, <1>5, <1>6, <1>7, <1>8, <1>9, <1>10, <1>11,
      <1>12
  DEF IInv

\* A model is saved with a connection that is there.
LEMMA SaveModelStep ==
    ASSUME NEW p \in Procs, IInv, SaveModel(p),
           UNCHANGED requests
    PROVE  IInv'
<1> USE ProviderAssumption DEF SaveModel, Writes, RowsChanged, Goto, Saving,
      Committed, rowVars, fileVars, procVars
<1>1. TypeOK'
  BY DEF IInv, TypeOK, Model, Names, Jobs, Job
<1>2. Jobs'
  BY DEF IInv, Jobs, TypeOK, NoJob
<1>3. Linked'
  BY DEF IInv, Linked, TypeOK, Model, Job, Jobs
<1>4. OnlyAdds'
  BY DEF IInv, OnlyAdds, TypeOK, Names, Jobs
<1>5. Named'
  BY DEF IInv, Named, TypeOK, Names, Jobs
<1>6. NamedRead'
  BY DEF IInv, NamedRead, TypeOK, Jobs
<1>7. SecretsBehindConfig'
  BY DEF IInv, SecretsBehindConfig, TypeOK, Jobs
<1>8. Fresh'
  BY DEF IInv, Fresh, TypeOK, Owing, NoRead, Jobs
<1>9. RotationReaches'
  BY DEF IInv, RotationReaches, TypeOK, Owing, Jobs
<1>10. RowsRead'
  BY DEF IInv, RowsRead, TypeOK, Seen, NoRead, Jobs
<1>11. OwnConfig'
  BY DEF IInv, OwnConfig, TypeOK, Jobs
<1>12. ConfigFollowsRows'
  BY DEF IInv, ConfigFollowsRows, TypeOK, Owes, NoJob, Jobs
<1> QED
  BY <1>1, <1>2, <1>3, <1>4, <1>5, <1>6, <1>7, <1>8, <1>9, <1>10, <1>11,
      <1>12
  DEF IInv

\* A model is switched; its connection stays the same.
LEMMA ToggleModelStep ==
    ASSUME NEW p \in Procs, IInv, ToggleModel(p),
           UNCHANGED requests
    PROVE  IInv'
<1> USE ProviderAssumption DEF ToggleModel, Writes, RowsChanged, Goto, Saving,
      Committed, rowVars, fileVars, procVars
<1>1. TypeOK'
  <2>1. models[job[p].alias] \in Model /\ job[p].flag \in BOOLEAN
    BY DEF IInv, TypeOK, Job
  <2>2. [models[job[p].alias] EXCEPT !.on = job[p].flag] \in Model
    BY <2>1 DEF Model
  <2>3. models' \in [Aliases -> Model \cup {None}]
    BY <2>2 DEF IInv, TypeOK
  <2> QED
    BY <2>3 DEF IInv, TypeOK
<1>2. Jobs'
  BY DEF IInv, Jobs, TypeOK, NoJob
<1>3. Linked'
  BY DEF IInv, Linked, TypeOK, Model, Jobs
<1>4. OnlyAdds'
  BY DEF IInv, OnlyAdds, TypeOK, Names, Jobs
<1>5. Named'
  BY DEF IInv, Named, TypeOK, Names, Jobs
<1>6. NamedRead'
  BY DEF IInv, NamedRead, TypeOK, Jobs
<1>7. SecretsBehindConfig'
  BY DEF IInv, SecretsBehindConfig, TypeOK, Jobs
<1>8. Fresh'
  BY DEF IInv, Fresh, TypeOK, Owing, NoRead, Jobs
<1>9. RotationReaches'
  BY DEF IInv, RotationReaches, TypeOK, Owing, Jobs
<1>10. RowsRead'
  BY DEF IInv, RowsRead, TypeOK, Seen, NoRead, Jobs
<1>11. OwnConfig'
  BY DEF IInv, OwnConfig, TypeOK, Jobs
<1>12. ConfigFollowsRows'
  BY DEF IInv, ConfigFollowsRows, TypeOK, Owes, NoJob, Jobs
<1> QED
  BY <1>1, <1>2, <1>3, <1>4, <1>5, <1>6, <1>7, <1>8, <1>9, <1>10, <1>11,
      <1>12
  DEF IInv

\* A model goes.
LEMMA DeleteModelStep ==
    ASSUME NEW p \in Procs, IInv, DeleteModel(p),
           UNCHANGED requests
    PROVE  IInv'
<1> USE ProviderAssumption DEF DeleteModel, Writes, RowsChanged, Goto, Saving,
      Committed, rowVars, fileVars, procVars
<1>1. TypeOK'
  BY DEF IInv, TypeOK, Model, Names, Jobs
<1>2. Jobs'
  BY DEF IInv, Jobs, TypeOK, NoJob
<1>3. Linked'
  BY DEF IInv, Linked, TypeOK, Jobs
<1>4. OnlyAdds'
  BY DEF IInv, OnlyAdds, TypeOK, Names, Jobs
<1>5. Named'
  BY DEF IInv, Named, TypeOK, Names, Jobs
<1>6. NamedRead'
  BY DEF IInv, NamedRead, TypeOK, Jobs
<1>7. SecretsBehindConfig'
  BY DEF IInv, SecretsBehindConfig, TypeOK, Jobs
<1>8. Fresh'
  BY DEF IInv, Fresh, TypeOK, Owing, NoRead, Jobs
<1>9. RotationReaches'
  BY DEF IInv, RotationReaches, TypeOK, Owing, Jobs
<1>10. RowsRead'
  BY DEF IInv, RowsRead, TypeOK, Seen, NoRead, Jobs
<1>11. OwnConfig'
  BY DEF IInv, OwnConfig, TypeOK, Jobs
<1>12. ConfigFollowsRows'
  BY DEF IInv, ConfigFollowsRows, TypeOK, Owes, NoJob, Jobs
<1> QED
  BY <1>1, <1>2, <1>3, <1>4, <1>5, <1>6, <1>7, <1>8, <1>9, <1>10, <1>11,
      <1>12
  DEF IInv

\* A backfill writes the platform connection.
LEMMA SeedConnectionStep ==
    ASSUME NEW p \in Procs, IInv, SeedConnection(p),
           UNCHANGED requests
    PROVE  IInv'
<1> USE ProviderAssumption DEF SeedConnection, Writes, RowsChanged, Goto,
      Saving, Committed, rowVars, fileVars, procVars
<1>1. TypeOK'
  BY DEF IInv, TypeOK, Model, Names, Jobs
<1>2. Jobs'
  BY DEF IInv, Jobs, TypeOK, NoJob
<1>3. Linked'
  BY DEF IInv, Linked, TypeOK, Names, Model, Jobs
<1>4. OnlyAdds'
  BY DEF IInv, OnlyAdds, TypeOK, Names, Jobs
<1>5. Named'
  BY DEF IInv, Named, TypeOK, Names, Jobs
<1>6. NamedRead'
  BY DEF IInv, NamedRead, TypeOK, Jobs
<1>7. SecretsBehindConfig'
  BY DEF IInv, SecretsBehindConfig, TypeOK, Jobs
<1>8. Fresh'
  BY DEF IInv, Fresh, TypeOK, Owing, NoRead, Jobs
<1>9. RotationReaches'
  BY DEF IInv, RotationReaches, TypeOK, Owing, Jobs
<1>10. RowsRead'
  BY DEF IInv, RowsRead, TypeOK, Seen, NoRead, Jobs
<1>11. OwnConfig'
  BY DEF IInv, OwnConfig, TypeOK, Jobs
<1>12. ConfigFollowsRows'
  BY DEF IInv, ConfigFollowsRows, TypeOK, Owes, NoJob, Jobs
<1> QED
  BY <1>1, <1>2, <1>3, <1>4, <1>5, <1>6, <1>7, <1>8, <1>9, <1>10, <1>11,
      <1>12
  DEF IInv

\* A backfill writes the default model, whose entry config.yaml always has.
LEMMA SeedStep ==
    ASSUME NEW p \in Procs, IInv, Seed(p),
           UNCHANGED requests
    PROVE  IInv'
<1> USE ProviderAssumption DEF Seed, Over, RowsChanged, Goto, Saving,
      Committed, rowVars, fileVars, procVars
<1>1. TypeOK'
  BY NoReadType DEF IInv, TypeOK, Model, Names, Jobs
<1>2. Jobs'
  BY DEF IInv, Jobs, TypeOK, NoJob
<1>3. Linked'
  BY DEF IInv, Linked, TypeOK, Jobs
<1>4. OnlyAdds'
  BY DEF IInv, OnlyAdds, TypeOK, Names, Jobs
<1>5. Named'
  BY DEF IInv, Named, TypeOK, Names, Jobs
<1>6. NamedRead'
  <2>1. read' = [read EXCEPT ![p] = NoRead] /\ secret' = secret /\ keyless' = keyless
    OBVIOUS
  <2> HIDE DEF Seed
  <2> QED
    BY <2>1, NamedReadKept DEF IInv
<1>7. SecretsBehindConfig'
  BY DEF IInv, SecretsBehindConfig, TypeOK, Jobs
<1>8. Fresh'
  BY DEF IInv, Fresh, TypeOK, Owing, NoRead, Jobs
<1>9. RotationReaches'
  BY DEF IInv, RotationReaches, TypeOK, Owing, Jobs
<1>10. RowsRead'
  BY DEF IInv, RowsRead, TypeOK, Seen, NoRead, Jobs
<1>11. OwnConfig'
  BY DEF IInv, OwnConfig, TypeOK, Jobs
<1>12. ConfigFollowsRows'
  BY DEF IInv, ConfigFollowsRows, TypeOK, Owes, NoJob, Render, Jobs
<1> QED
  BY <1>1, <1>2, <1>3, <1>4, <1>5, <1>6, <1>7, <1>8, <1>9, <1>10, <1>11,
      <1>12
  DEF IInv

\* A bootstrap has rotated the secrets and owes the env file its token.
LEMMA RotateStep ==
    ASSUME NEW p \in Procs, IInv, Rotate(p),
           UNCHANGED requests
    PROVE  IInv'
<1> USE ProviderAssumption DEF Rotate, Goto, Saving, Committed, rowVars,
      fileVars, procVars
<1>1. TypeOK'
  <2>1. core' \in 0..MaxRotations /\ core' = core + 1 /\ core \in Nat
    BY DEF IInv, TypeOK
  <2>2. /\ token \in 0..core' /\ litellm \in [token : 0..core', secrets : 0..core']
        /\ read \in [Procs -> [token : 0..core', rows : [Aliases -> Entry]]]
    <3>1. 0..core \subseteq 0..core'
      BY <2>1
    <3> QED
      BY <3>1, SMTT(30) DEF IInv, TypeOK
  <2>3. read' \in [Procs -> [token : 0..core', rows : [Aliases -> Entry]]]
    <3>1. core' \in 0..core' /\ read' = [read EXCEPT ![p].token = core']
      BY <2>1
    <3>2. [read[p] EXCEPT !.token = core'] \in [token : 0..core', rows : [Aliases -> Entry]]
      BY <2>2, <3>1
    <3> QED
      BY <2>2, <3>1, <3>2
  <2>4. pc' \in [Procs -> {"idle", "enter", "change", "key", "readEnv", "writeEnv",
                         "readRows", "writeConfig", "up", "commit", "seed", "rotate"}]
    BY DEF IInv, TypeOK
  <2>5. \A q \in Procs : pc'[q] \in {"key", "commit"} => writer = q
    BY DEF IInv, TypeOK
  <2> QED
    BY <2>1, <2>2, <2>3, <2>4, <2>5 DEF IInv, TypeOK
<1>2. Jobs'
  BY DEF IInv, Jobs, TypeOK, NoJob
<1>3. Linked'
  BY DEF IInv, Linked, TypeOK, Jobs
<1>4. OnlyAdds'
  BY DEF IInv, OnlyAdds, TypeOK, Names, Jobs
<1>5. Named'
  BY DEF IInv, Named, TypeOK, Names, Jobs
<1>6. NamedRead'
  <2>1. \A q \in Procs : read'[q].rows = read[q].rows
    BY DEF IInv, TypeOK
  <2> QED
    BY <2>1 DEF IInv, NamedRead
<1>7. SecretsBehindConfig'
  BY DEF IInv, SecretsBehindConfig, TypeOK, Jobs
<1>8. Fresh'
  BY DEF IInv, Fresh, TypeOK, Owing, NoRead, Jobs
<1>9. RotationReaches'
  BY DEF IInv, RotationReaches, TypeOK, Owing, Jobs
<1>10. RowsRead'
  BY DEF IInv, RowsRead, TypeOK, Seen, NoRead, Jobs
<1>11. OwnConfig'
  BY DEF IInv, OwnConfig, TypeOK, Jobs
<1>12. ConfigFollowsRows'
  BY DEF IInv, ConfigFollowsRows, TypeOK, Owes, NoJob, Jobs
<1> QED
  BY <1>1, <1>2, <1>3, <1>4, <1>5, <1>6, <1>7, <1>8, <1>9, <1>10, <1>11,
      <1>12
  DEF IInv

\* What is read of the env file is what it holds, or the last token.
LEMMA ReadEnvStep ==
    ASSUME NEW p \in Procs, IInv, ReadEnv(p),
           UNCHANGED requests
    PROVE  IInv'
<1> USE ProviderAssumption DEF ReadEnv, Goto, Saving, Committed, rowVars,
      fileVars, procVars
<1>1. TypeOK'
  <2>1. token \in 0..core /\ read \in [Procs -> [token : 0..core, rows : [Aliases -> Entry]]]
    BY DEF IInv, TypeOK
  <2>2. [read EXCEPT ![p].token = token]
           \in [Procs -> [token : 0..core, rows : [Aliases -> Entry]]]
    <3> HIDE DEF ReadEnv
    <3>1. [read[p] EXCEPT !.token = token] \in [token : 0..core, rows : [Aliases -> Entry]]
      BY <2>1
    <3> QED
      BY <2>1, <3>1, SMTT(30)
  <2>3. read' \in [Procs -> [token : 0..core, rows : [Aliases -> Entry]]]
    BY <2>1, <2>2
  <2> QED
    BY <2>3 DEF IInv, TypeOK
<1>2. Jobs'
  BY DEF IInv, Jobs, TypeOK, NoJob
<1>3. Linked'
  BY DEF IInv, Linked, TypeOK, Jobs
<1>4. OnlyAdds'
  BY DEF IInv, OnlyAdds, TypeOK, Names, Jobs
<1>5. Named'
  BY DEF IInv, Named, TypeOK, Names, Jobs
<1>6. NamedRead'
  <2>1. \A q \in Procs : read'[q].rows = read[q].rows
    BY DEF IInv, TypeOK
  <2> QED
    BY <2>1 DEF IInv, NamedRead
<1>7. SecretsBehindConfig'
  BY DEF IInv, SecretsBehindConfig, TypeOK, Jobs
<1>8. Fresh'
  BY DEF IInv, Fresh, TypeOK, Owing, NoRead, Jobs
<1>9. RotationReaches'
  BY DEF IInv, RotationReaches, TypeOK, Owing, Jobs
<1>10. RowsRead'
  BY DEF IInv, RowsRead, TypeOK, Seen, NoRead, Jobs
<1>11. OwnConfig'
  BY DEF IInv, OwnConfig, TypeOK, Jobs
<1>12. ConfigFollowsRows'
  BY DEF IInv, ConfigFollowsRows, TypeOK, Owes, NoJob, Jobs
<1> QED
  BY <1>1, <1>2, <1>3, <1>4, <1>5, <1>6, <1>7, <1>8, <1>9, <1>10, <1>11,
      <1>12
  DEF IInv

\* The last token is lost only where two write the env file at a time.
LEMMA WriteEnvStep ==
    ASSUME NEW p \in Procs, IInv, WriteEnv(p),
           UNCHANGED requests
    PROVE  IInv'
<1> USE ProviderAssumption DEF WriteEnv, Goto, Saving, Committed, rowVars,
      fileVars, procVars
<1>1. TypeOK'
  BY NoReadType DEF IInv, TypeOK, Model, Names, Jobs
<1>2. Jobs'
  BY DEF IInv, Jobs, TypeOK, NoJob
<1>3. Linked'
  BY DEF IInv, Linked, TypeOK, Jobs
<1>4. OnlyAdds'
  BY DEF IInv, OnlyAdds, TypeOK, Names, Jobs
<1>5. Named'
  BY DEF IInv, Named, TypeOK, Names, Jobs
<1>6. NamedRead'
  <2>1. read' = [read EXCEPT ![p] = NoRead] /\ secret' = secret /\ keyless' = keyless
    OBVIOUS
  <2> HIDE DEF WriteEnv
  <2> QED
    BY <2>1, NamedReadKept DEF IInv
<1>7. SecretsBehindConfig'
  BY DEF IInv, SecretsBehindConfig, TypeOK, Jobs
<1>8. Fresh'
  BY DEF IInv, Fresh, TypeOK, Owing, NoRead, Jobs
<1>9. RotationReaches'
  <2>1. core' = core /\ litellm' = litellm /\ job' = job /\ token' = read[p].token
    OBVIOUS
  <2>2. CASE job[p].op = "bootstrap"
    <3>1. read[p].token # litellm.token
      BY <2>2 DEF IInv, Fresh, Owing
    <3> QED
      BY <2>1, <3>1 DEF IInv, RotationReaches
  <2>3. CASE job[p].op # "bootstrap"
    <3>1. \A q \in Procs : Owing(q) => Owing(q)'
      BY <2>3 DEF IInv, TypeOK, Owing
    <3>2. (trouble' = trouble /\ token' = token) \/ "env" \in trouble'
      BY <2>3
    <3>3. "env" \in trouble => "env" \in trouble'
      BY <2>3
    <3> HIDE DEF WriteEnv
    <3> QED
      BY <2>1, <3>1, <3>2, <3>3 DEF IInv, RotationReaches
  <2> QED
    BY <2>2, <2>3
<1>10. RowsRead'
  BY DEF IInv, RowsRead, TypeOK, Seen, NoRead, Jobs
<1>11. OwnConfig'
  BY DEF IInv, OwnConfig, TypeOK, Jobs
<1>12. ConfigFollowsRows'
  BY DEF IInv, ConfigFollowsRows, TypeOK, Owes, NoJob, Jobs
<1> QED
  BY <1>1, <1>2, <1>3, <1>4, <1>5, <1>6, <1>7, <1>8, <1>9, <1>10, <1>11,
      <1>12
  DEF IInv

\* The entries are read from the rows the process sees.
LEMMA ReadRowsStep ==
    ASSUME NEW p \in Procs, IInv, ReadRows(p),
           UNCHANGED requests
    PROVE  IInv'
<1> USE ProviderAssumption DEF ReadRows, Goto, Saving, Committed, rowVars,
      fileVars, procVars
<1>1. TypeOK'
  <2>1. Seen(p) \in [Conns -> Names \cup {None}]
    BY DEF IInv, TypeOK, Seen
  <2>2. Render(Seen(p), models) \in [Aliases -> Entry]
    BY <2>1, RenderType DEF IInv, TypeOK
  <2>3. read' \in [Procs -> [token : 0..core, rows : [Aliases -> Entry]]]
    BY <2>2, SMTT(30) DEF IInv, TypeOK, Seen
  <2> QED
    BY <2>3 DEF IInv, TypeOK
<1>2. Jobs'
  BY DEF IInv, Jobs, TypeOK, NoJob
<1>3. Linked'
  BY DEF IInv, Linked, TypeOK, Jobs
<1>4. OnlyAdds'
  BY DEF IInv, OnlyAdds, TypeOK, Names, Jobs
<1>5. Named'
  BY DEF IInv, Named, TypeOK, Names, Jobs
<1>6. NamedRead'
  <2>1. ASSUME NEW c \in Conns, Seen(p)[c] = "own"
        PROVE  c \in secret \cup keyless
    BY <2>1 DEF IInv, Named, Seen, TypeOK
  <2>2. ASSUME NEW a \in Aliases, NEW c \in Conns,
               Render(Seen(p), models)[a] = <<c, "own">>
        PROVE  c \in secret \cup keyless
    <3>1. Seen(p)[c] = "own"
      BY <2>2 DEF Render, Names
    <3> QED
      BY <2>1, <3>1
  <2>3. \A q \in Procs : read'[q].rows = IF q = p THEN Render(Seen(p), models)
                                         ELSE read[q].rows
    BY DEF IInv, TypeOK, Seen
  <2> QED
    BY <2>2, <2>3 DEF IInv, NamedRead
<1>7. SecretsBehindConfig'
  BY DEF IInv, SecretsBehindConfig, TypeOK, Jobs
<1>8. Fresh'
  BY DEF IInv, Fresh, TypeOK, Owing, NoRead, Jobs
<1>9. RotationReaches'
  BY DEF IInv, RotationReaches, TypeOK, Owing, Jobs
<1>10. RowsRead'
  BY DEF IInv, RowsRead, TypeOK, Seen, NoRead, Jobs
<1>11. OwnConfig'
  BY DEF IInv, OwnConfig, TypeOK, Jobs
<1>12. ConfigFollowsRows'
  BY DEF IInv, ConfigFollowsRows, TypeOK, Owes, NoJob, Jobs
<1> QED
  BY <1>1, <1>2, <1>3, <1>4, <1>5, <1>6, <1>7, <1>8, <1>9, <1>10, <1>11,
      <1>12
  DEF IInv

\* The entries that were read are written.
LEMMA WriteConfigStep ==
    ASSUME NEW p \in Procs, IInv, WriteConfig(p),
           UNCHANGED requests
    PROVE  IInv'
<1> USE ProviderAssumption DEF WriteConfig, Goto, Saving, Committed, rowVars,
      fileVars, procVars
<1>1. TypeOK'
  <2>1. config' \in [Aliases -> Entry]
    BY DEF IInv, TypeOK, Entry
  <2>2. /\ read' \in [Procs -> [token : 0..core, rows : [Aliases -> Entry]]]
        /\ job' \in [Procs -> Job]
    BY NoReadType DEF IInv, TypeOK
  <2> QED
    BY <2>1, <2>2 DEF IInv, TypeOK, Jobs
<1>2. Jobs'
  BY DEF IInv, Jobs, TypeOK, NoJob
<1>3. Linked'
  BY DEF IInv, Linked, TypeOK, Jobs
<1>4. OnlyAdds'
  BY DEF IInv, OnlyAdds, TypeOK, Names, Jobs
<1>5. Named'
  BY DEF IInv, Named, TypeOK, Names, Jobs
<1>6. NamedRead'
  <2>1. read' = [read EXCEPT ![p] = NoRead] /\ secret' = secret /\ keyless' = keyless
    OBVIOUS
  <2> HIDE DEF WriteConfig
  <2> QED
    BY <2>1, NamedReadKept DEF IInv
<1>7. SecretsBehindConfig'
  <2>1. CASE job[p].op = "bootstrap"
    <3>1. \A a \in Aliases : config'[a] \in {Default, None}
      BY <2>1
    <3>2. \A d \in Conns : <<d, "own">> \in Conns \X Names
      BY DEF Names
    <3>3. \A d \in Conns : <<d, "own">> \notin {Default, None}
      BY <3>2
    <3> QED
      BY <3>1, <3>3 DEF SecretsBehindConfig
  <2>2. CASE job[p].op # "bootstrap"
    BY <2>2 DEF IInv, NamedRead, SecretsBehindConfig
  <2> QED
    BY <2>1, <2>2
<1>8. Fresh'
  BY DEF IInv, Fresh, TypeOK, Owing, NoRead, Jobs
<1>9. RotationReaches'
  BY DEF IInv, RotationReaches, TypeOK, Owing, Jobs
<1>10. RowsRead'
  BY DEF IInv, RowsRead, TypeOK, Seen, NoRead, Jobs
<1>11. OwnConfig'
  BY DEF IInv, OwnConfig, TypeOK, RowsRead, Seen, Jobs
<1>12. ConfigFollowsRows'
  BY DEF IInv, ConfigFollowsRows, TypeOK, Owes, NoJob, RowsRead, Seen, Jobs
<1> QED
  BY <1>1, <1>2, <1>3, <1>4, <1>5, <1>6, <1>7, <1>8, <1>9, <1>10, <1>11,
      <1>12
  DEF IInv

\* A container is created with the token of the env file and the secrets there are.
LEMMA UpStep ==
    ASSUME NEW p \in Procs, IInv, Up(p),
           UNCHANGED requests
    PROVE  IInv'
<1> USE ProviderAssumption DEF Up, Over, ComposeUp, Boots, Goto, Saving, Committed,
      rowVars, fileVars, procVars
<1>1. TypeOK'
  <2>1. litellm' \in [token : 0..core, secrets : 0..core]
    BY DEF IInv, TypeOK
  <2>2. /\ read' \in {read, [read EXCEPT ![p] = NoRead]}
        /\ job' \in {job, [job EXCEPT ![p] = NoJob]}
    OBVIOUS
  <2>3. /\ read' \in [Procs -> [token : 0..core, rows : [Aliases -> Entry]]]
        /\ job' \in [Procs -> Job]
    <3>1. NoRead \in [token : 0..core, rows : [Aliases -> Entry]] /\ NoJob \in Job
      BY NoReadType DEF IInv
    <3>2. /\ read \in [Procs -> [token : 0..core, rows : [Aliases -> Entry]]]
          /\ job \in [Procs -> Job]
      BY DEF IInv, TypeOK
    <3>3. /\ [read EXCEPT ![p] = NoRead]
                 \in [Procs -> [token : 0..core, rows : [Aliases -> Entry]]]
          /\ [job EXCEPT ![p] = NoJob] \in [Procs -> Job]
      BY <3>1, <3>2
    <3> QED
      BY <2>2, <3>2, <3>3
  <2>4. pc' = [pc EXCEPT ![p] = IF Saving(p) THEN "commit" ELSE "idle"]
    OBVIOUS
  <2> QED
    BY <2>1, <2>3, <2>4 DEF IInv, TypeOK, Jobs
<1>2. Jobs'
  BY DEF IInv, Jobs, TypeOK, NoJob
<1>3. Linked'
  BY DEF IInv, Linked, TypeOK, Jobs
<1>4. OnlyAdds'
  BY DEF IInv, OnlyAdds, TypeOK, Names, Jobs
<1>5. Named'
  BY DEF IInv, Named, TypeOK, Names, Jobs
<1>6. NamedRead'
  <2>1. \A q \in Procs : read'[q] \in {read[q], NoRead}
    BY DEF IInv, TypeOK
  <2> QED
    BY <2>1, NoReadEntries DEF IInv, NamedRead
<1>7. SecretsBehindConfig'
  BY DEF IInv, SecretsBehindConfig, TypeOK, Jobs
<1>8. Fresh'
  BY DEF IInv, Fresh, TypeOK, Owing, NoRead, Jobs
<1>9. RotationReaches'
  BY DEF IInv, RotationReaches, TypeOK, Owing, Jobs
<1>10. RowsRead'
  BY SMTT(30) DEF IInv, RowsRead, TypeOK, Seen, NoRead, Jobs
<1>11. OwnConfig'
  BY DEF IInv, OwnConfig, TypeOK, Jobs
<1>12. ConfigFollowsRows'
  BY DEF IInv, ConfigFollowsRows, TypeOK, Owes, NoJob, Jobs
<1> QED
  BY <1>1, <1>2, <1>3, <1>4, <1>5, <1>6, <1>7, <1>8, <1>9, <1>10, <1>11,
      <1>12
  DEF IInv

\* The rows of the transaction are there for everybody.
LEMMA CommitStep ==
    ASSUME NEW p \in Procs, IInv, Commit(p),
           UNCHANGED requests
    PROVE  IInv'
<1> USE ProviderAssumption DEF Commit, Over, RowsChanged, Goto, Saving,
      Committed, rowVars, fileVars, procVars
<1>1. TypeOK'
  BY NoReadType DEF IInv, TypeOK, Model, Names, Jobs
<1>2. Jobs'
  BY DEF IInv, Jobs, TypeOK, NoJob
<1>3. Linked'
  BY DEF IInv, Linked, TypeOK, OnlyAdds, Model, Jobs
<1>4. OnlyAdds'
  BY DEF IInv, OnlyAdds, TypeOK, Names, Jobs
<1>5. Named'
  BY DEF IInv, Named, TypeOK, Names, Jobs
<1>6. NamedRead'
  <2>1. read' = [read EXCEPT ![p] = NoRead] /\ secret' = secret /\ keyless' = keyless
    OBVIOUS
  <2> HIDE DEF Commit
  <2> QED
    BY <2>1, NamedReadKept DEF IInv
<1>7. SecretsBehindConfig'
  BY DEF IInv, SecretsBehindConfig, TypeOK, Jobs
<1>8. Fresh'
  BY DEF IInv, Fresh, TypeOK, Owing, NoRead, Jobs
<1>9. RotationReaches'
  BY DEF IInv, RotationReaches, TypeOK, Owing, Jobs
<1>10. RowsRead'
  BY DEF IInv, RowsRead, TypeOK, Seen, NoRead, Jobs
<1>11. OwnConfig'
  BY DEF IInv, OwnConfig, TypeOK, Jobs
<1>12. ConfigFollowsRows'
  BY DEF IInv, ConfigFollowsRows, TypeOK, Owes, NoJob, OwnConfig, Jobs
<1> QED
  BY <1>1, <1>2, <1>3, <1>4, <1>5, <1>6, <1>7, <1>8, <1>9, <1>10, <1>11,
      <1>12
  DEF IInv

\* A transaction is rolled back; what was still to be written is left apart.
LEMMA FailStep ==
    ASSUME NEW p \in Procs, IInv, Fail(p),
           UNCHANGED requests
    PROVE  IInv'
<1> USE ProviderAssumption DEF Fail, Over, Owes, Goto, Saving, Committed,
      rowVars, fileVars, procVars
<1>1. TypeOK'
  BY NoReadType DEF IInv, TypeOK, Model, Names, Jobs
<1>2. Jobs'
  BY DEF IInv, Jobs, TypeOK, NoJob
<1>3. Linked'
  BY DEF IInv, Linked, TypeOK, Jobs
<1>4. OnlyAdds'
  BY DEF IInv, OnlyAdds, TypeOK, Names, Jobs
<1>5. Named'
  BY DEF IInv, Named, TypeOK, Names, Jobs
<1>6. NamedRead'
  <2>1. read' = [read EXCEPT ![p] = NoRead] /\ secret' = secret /\ keyless' = keyless
    OBVIOUS
  <2> HIDE DEF Fail
  <2> QED
    BY <2>1, NamedReadKept DEF IInv
<1>7. SecretsBehindConfig'
  BY DEF IInv, SecretsBehindConfig, TypeOK, Jobs
<1>8. Fresh'
  BY DEF IInv, Fresh, TypeOK, Owing, NoRead, Jobs
<1>9. RotationReaches'
  BY DEF IInv, RotationReaches, TypeOK, Owing, Jobs
<1>10. RowsRead'
  BY DEF IInv, RowsRead, TypeOK, Seen, NoRead, Jobs
<1>11. OwnConfig'
  BY DEF IInv, OwnConfig, TypeOK, Jobs
<1>12. ConfigFollowsRows'
  BY DEF IInv, ConfigFollowsRows, TypeOK, Owes, NoJob, Jobs
<1> QED
  BY <1>1, <1>2, <1>3, <1>4, <1>5, <1>6, <1>7, <1>8, <1>9, <1>10, <1>11,
      <1>12
  DEF IInv

\* A container that restarts has the secrets there are.
LEMMA RestartStep ==
    ASSUME IInv, Restart
    PROVE  IInv'
<1> USE ProviderAssumption DEF Restart, Boots, Goto, Saving, Committed, rowVars,
      fileVars, procVars
<1>1. TypeOK'
  BY DEF IInv, TypeOK, Model, Names, Jobs
<1>2. Jobs'
  BY DEF IInv, Jobs, TypeOK, NoJob
<1>3. Linked'
  BY DEF IInv, Linked, TypeOK, Jobs
<1>4. OnlyAdds'
  BY DEF IInv, OnlyAdds, TypeOK, Names, Jobs
<1>5. Named'
  BY DEF IInv, Named, TypeOK, Names, Jobs
<1>6. NamedRead'
  BY DEF IInv, NamedRead, TypeOK, Jobs
<1>7. SecretsBehindConfig'
  BY DEF IInv, SecretsBehindConfig, TypeOK, Jobs
<1>8. Fresh'
  BY DEF IInv, Fresh, TypeOK, Owing, NoRead, Jobs
<1>9. RotationReaches'
  BY DEF IInv, RotationReaches, TypeOK, Owing, Jobs
<1>10. RowsRead'
  BY DEF IInv, RowsRead, TypeOK, Seen, NoRead, Jobs
<1>11. OwnConfig'
  BY DEF IInv, OwnConfig, TypeOK, Jobs
<1>12. ConfigFollowsRows'
  BY DEF IInv, ConfigFollowsRows, TypeOK, Owes, NoJob, Jobs
<1> QED
  BY <1>1, <1>2, <1>3, <1>4, <1>5, <1>6, <1>7, <1>8, <1>9, <1>10, <1>11,
      <1>12
  DEF IInv

\* A container that is created has the secrets there are.
LEMMA OperatorUpStep ==
    ASSUME IInv, OperatorUp
    PROVE  IInv'
<1> USE ProviderAssumption DEF OperatorUp, ComposeUp, Boots, Goto, Saving, Committed,
      rowVars, fileVars, procVars
<1>1. TypeOK'
  BY DEF IInv, TypeOK, Model, Names, Jobs
<1>2. Jobs'
  BY DEF IInv, Jobs, TypeOK, NoJob
<1>3. Linked'
  BY DEF IInv, Linked, TypeOK, Jobs
<1>4. OnlyAdds'
  BY DEF IInv, OnlyAdds, TypeOK, Names, Jobs
<1>5. Named'
  BY DEF IInv, Named, TypeOK, Names, Jobs
<1>6. NamedRead'
  BY DEF IInv, NamedRead, TypeOK, Jobs
<1>7. SecretsBehindConfig'
  BY DEF IInv, SecretsBehindConfig, TypeOK, Jobs
<1>8. Fresh'
  BY DEF IInv, Fresh, TypeOK, Owing, NoRead, Jobs
<1>9. RotationReaches'
  BY DEF IInv, RotationReaches, TypeOK, Owing, Jobs
<1>10. RowsRead'
  BY DEF IInv, RowsRead, TypeOK, Seen, NoRead, Jobs
<1>11. OwnConfig'
  BY DEF IInv, OwnConfig, TypeOK, Jobs
<1>12. ConfigFollowsRows'
  BY DEF IInv, ConfigFollowsRows, TypeOK, Owes, NoJob, Jobs
<1> QED
  BY <1>1, <1>2, <1>3, <1>4, <1>5, <1>6, <1>7, <1>8, <1>9, <1>10, <1>11,
      <1>12
  DEF IInv

-----------------------------------------------------------------------------
(***************************************************************************)
(* The invariant and the theorems                                          *)
(***************************************************************************)

\* LiteLLM is set up with the platform connection and the default model.
LEMMA InitIInv == Init => IInv
<1> SUFFICES ASSUME Init PROVE IInv
  OBVIOUS
<1> USE ProviderAssumption DEF Init
<1>1. TypeOK
  <2>1. conns \in [Conns -> Names \cup {None}] /\ models \in [Aliases -> Model \cup {None}]
    BY DEF Names, Model
  <2>2. config \in [Aliases -> Entry]
    BY <2>1, RenderType
  <2>3. /\ NoJob \in Job /\ NoRead \in [token : 0..core, rows : [Aliases -> Entry]]
    BY DEF NoJob, Job, Ops, NoRead, Entry
  <2>4. /\ job \in [Procs -> Job]
        /\ read \in [Procs -> [token : 0..core, rows : [Aliases -> Entry]]]
    BY <2>3
  <2>5. /\ core = 0 /\ core \in 0..MaxRotations /\ token \in 0..core
        /\ litellm \in [token : 0..core, secrets : 0..core]
        /\ requests \in 0..MaxRequests
    OBVIOUS
  <2>6. /\ pc = [p \in Procs |-> "idle"] /\ stale = [p \in Procs |-> FALSE]
        /\ old = conns /\ writer = NoProc /\ author = NoProc
        /\ secret = {} /\ keyless = {} /\ trouble = {}
    OBVIOUS
  <2> HIDE DEF Init
  <2> QED
    BY <2>1, <2>2, <2>4, <2>5, <2>6 DEF TypeOK
<1>2. Jobs
  BY DEF Jobs, Saving, NoJob
<1>3. Linked /\ OnlyAdds
  <2>1. Committed[Platform] # None
    BY DEF Committed, Names
  <2>2. \A a \in Aliases : models[a] # None => models[a].conn = Platform
    OBVIOUS
  <2>3. Committed = conns
    BY DEF Committed
  <2> QED
    BY <2>1, <2>2, <2>3 DEF Linked, OnlyAdds
<1>4. Named /\ NamedRead
  <2>1. \A c \in Conns : conns[c] # "own" /\ Committed[c] # "own"
    BY DEF Names, Committed
  <2> QED
    BY <2>1, NoReadEntries DEF Named, NamedRead
<1>5. SecretsBehindConfig
  <2>1. \A c \in Conns : conns[c] # "own"
    BY DEF Names
  <2>2. ASSUME NEW a \in Aliases, NEW c \in Conns, config[a] = <<c, "own">>
        PROVE  FALSE
    <3>1. <<c, "own">> # Default /\ <<c, "own">> # None
      BY DEF Names
    <3>2. config[a] \in {Default, None} \/ config[a] = <<models[a].conn, conns[models[a].conn]>>
      BY DEF Render
    <3>3. models[a] # None => models[a].conn = Platform
      OBVIOUS
    <3> QED
      BY <2>1, <2>2, <3>1, <3>2, <3>3 DEF Render
  <2> QED
    BY <2>2 DEF SecretsBehindConfig
<1>6. Fresh /\ RotationReaches
  BY DEF Fresh, Owing, RotationReaches, NoJob
<1>7. RowsRead /\ OwnConfig /\ ConfigFollowsRows
  BY DEF RowsRead, OwnConfig, ConfigFollowsRows, Committed
<1> QED
  BY <1>1, <1>2, <1>3, <1>4, <1>5, <1>6, <1>7 DEF IInv

\* A step that changes nothing keeps the invariant.
LEMMA StutterStep == IInv /\ UNCHANGED vars => IInv'
BY DEF vars, rowVars, fileVars, procVars, IInv, TypeOK, Jobs, Linked, OnlyAdds, Named,
       NamedRead, SecretsBehindConfig, Fresh, RotationReaches, RowsRead, OwnConfig,
       ConfigFollowsRows, Committed, Seen, Saving, Owes, Owing

\* Every step keeps the invariant.
LEMMA NextIInv == IInv /\ [Next]_vars => IInv'
<1> SUFFICES ASSUME IInv, [Next]_vars PROVE IInv'
  OBVIOUS
<1>1. ASSUME NEW p \in Procs, Request(p)
      PROVE  IInv'
  BY <1>1, RequestStep
<1>2. ASSUME NEW p \in Procs, UNCHANGED requests,
             \/ Enter(p) \/ StoreKey(p) \/ DeleteConnection(p) \/ SaveModel(p)
             \/ ToggleModel(p) \/ DeleteModel(p) \/ SeedConnection(p) \/ Seed(p)
             \/ Rotate(p) \/ ReadEnv(p) \/ WriteEnv(p) \/ ReadRows(p)
             \/ WriteConfig(p) \/ Up(p) \/ Commit(p) \/ Fail(p)
      PROVE  IInv'
  BY <1>2, EnterStep, StoreKeyStep, DeleteConnectionStep, SaveModelStep, ToggleModelStep,
     DeleteModelStep, SeedConnectionStep, SeedStep, RotateStep, ReadEnvStep, WriteEnvStep,
     ReadRowsStep, WriteConfigStep, UpStep, CommitStep, FailStep
<1>3. CASE Restart \/ OperatorUp
  BY <1>3, RestartStep, OperatorUpStep
<1>4. CASE UNCHANGED vars
  BY <1>4, StutterStep
<1> QED
  BY <1>1, <1>2, <1>3, <1>4 DEF Next

\* The invariant holds in every reachable state.
THEOREM Invariance == Spec => []IInv
BY InitIInv, NextIInv, PTL DEF Spec

\* config.yaml lists what the committed rows say, except while it is still to
\* be written or after what is named in ConfigFollowsRows.
THEOREM ConfigCurrent == Spec => []ConfigFollowsRows
<1>1. IInv => ConfigFollowsRows
  BY DEF IInv
<1> QED
  BY <1>1, Invariance, PTL

\* No model names a connection that is not there, committed or rolled back.
THEOREM ModelsLinked == Spec => []NoDangling
<1>1. IInv => NoDangling
  BY DEF IInv, Linked, NoDangling
<1> QED
  BY <1>1, Invariance, PTL

\* config.yaml names no secret that was never stored, also for an entry whose
\* connection was rolled back or deleted since.
THEOREM SecretsStored == Spec => []SecretsBehindConfig
<1>1. IInv => SecretsBehindConfig
  BY DEF IInv
<1> QED
  BY <1>1, Invariance, PTL

\* However many bootstraps overlap, no container has secrets older than its token;
\* and one with the token of the env file has the secrets of the last rotation,
\* unless a bootstrap has still to write its token, has broken off there, or an
\* older token was written back over a newer one.
THEOREM RotationsReach == Spec => []RotationReaches
<1>1. IInv => RotationReaches
  BY DEF IInv
<1> QED
  BY <1>1, Invariance, PTL

-----------------------------------------------------------------------------
(***************************************************************************)
(* Repair                                                                  *)
(*                                                                         *)
(* ConfigFollowsRows and RotationReaches say what may have set the files   *)
(* apart.  While operations come one after the other, whatever broke off   *)
(* before, each that comes to its end puts its file right.                 *)
(***************************************************************************)

SerialNext ==
    \/ \E p \in Procs :
          \/ Request(p) /\ \A q \in Procs : pc[q] = "idle"
          \/ /\ \/ Enter(p) \/ StoreKey(p) \/ DeleteConnection(p) \/ SaveModel(p)
                \/ ToggleModel(p) \/ DeleteModel(p) \/ SeedConnection(p) \/ Seed(p)
                \/ Rotate(p) \/ ReadEnv(p) \/ WriteEnv(p) \/ ReadRows(p)
                \/ WriteConfig(p) \/ Up(p) \/ Commit(p) \/ Fail(p)
             /\ UNCHANGED requests
    \/ Restart \/ OperatorUp

Serial == Init /\ [][SerialNext]_vars

\* The last step of an operation that changes the rows
Regenerated(p) == Commit(p) \/ (Up(p) /\ ~Saving(p))

\* The last step of a bootstrap
Bootstrapped(p) == WriteConfig(p) /\ job[p].op = "bootstrap"

\* The config file lists what the rows say, whatever it said before; the env file
\* has the token of the last rotation.
Repairs ==
    \A p \in Procs :
        /\ Regenerated(p) => config' = Render(Committed', models')
        /\ Bootstrapped(p) => token' = core'

\* How far the only operation is.
Repairing ==
    /\ \A p, q \in Procs : pc[p] # "idle" /\ pc[q] # "idle" => p = q
    /\ \A p \in Procs :
          /\ pc[p] = "writeConfig" /\ job[p].op # "bootstrap" => ~stale[p]
          /\ pc[p] = "writeConfig" /\ job[p].op = "bootstrap" => token = core
          /\ Owing(p) => read[p].token = core
          /\ pc[p] \in {"up", "commit"} => author = p
          /\ pc[p] = "up" /\ ~Saving(p) => config = Render(Committed, models)

\* Every step of serial operation is one of the specification.
LEMMA SerialIsNext == SerialNext => Next
BY DEF SerialNext, Next

\* Every step of serial operation keeps Repairing.
LEMMA RepairingStep == IInv /\ Repairing /\ [SerialNext]_vars => Repairing'
<1> SUFFICES ASSUME IInv, Repairing, [SerialNext]_vars PROVE Repairing'
  OBVIOUS
<1> USE ProviderAssumption DEF Goto, rowVars, fileVars, procVars
<1>0. TypeOK /\ Jobs
  BY DEF IInv
<1>1. ASSUME NEW p \in Procs, Request(p), \A q \in Procs : pc[q] = "idle" PROVE Repairing'
  <2>1. PICK o \in Ops :
           pc' = [pc EXCEPT ![p] =
                    CASE o = "save" -> "enter" [] o = "bootstrap" -> "rotate"
                      [] OTHER -> "change"]
    BY <1>1 DEF Request, ProvidersPage, ModelsPage, SecretsPage, ConnectionsApi,
        ConnectionApi, ModelsApi, ModelApi, SecretsApi, SecretApi, Bootstrap, SaveNamed,
        SaveFound, RemoveFound, DropFound, Rebuild, SaveModelNamed, Asks, Ops
  <2>2. /\ \A q \in Procs \ {p} : pc'[q] = "idle"
        /\ pc'[p] \in {"enter", "rotate", "change"}
    BY <1>0, <1>1, <2>1 DEF TypeOK
  <2> QED
    BY <2>2 DEF Repairing, Owing
<1>2. ASSUME NEW p \in Procs,
             \/ Enter(p) \/ StoreKey(p) \/ DeleteConnection(p)
             \/ SaveModel(p) \/ ToggleModel(p) \/ DeleteModel(p) \/ SeedConnection(p)
      PROVE  Repairing'
  <2>1. /\ pc[p] # "idle" /\ pc' = [pc EXCEPT ![p] = pc'[p]]
        /\ pc'[p] \in {"key", "readEnv", "seed"}
        /\ job' = job /\ job[p].op # "bootstrap"
    BY <1>0, <1>2 DEF TypeOK, Jobs, Saving, Enter, StoreKey, DeleteConnection, SaveModel,
        ToggleModel, DeleteModel, SeedConnection, Writes
  <2>2. \A q \in Procs \ {p} : pc'[q] = "idle"
    BY <1>0, <2>1 DEF TypeOK, Repairing
  <2> QED
    BY <2>1, <2>2 DEF Repairing, Owing
<1>r. ASSUME NEW p \in Procs, Rotate(p) PROVE Repairing'
  <2>1. /\ pc[p] # "idle" /\ pc' = [pc EXCEPT ![p] = "readEnv"]
        /\ read'[p].token = core'
    BY <1>0, <1>r DEF TypeOK, Rotate
  <2>2. pc'[p] = "readEnv" /\ \A q \in Procs \ {p} : pc'[q] = "idle"
    BY <1>0, <2>1 DEF TypeOK, Repairing
  <2> QED
    BY <2>1, <2>2 DEF Repairing, Owing
<1>3. ASSUME NEW p \in Procs, Seed(p) \/ Commit(p) \/ Fail(p) PROVE Repairing'
  <2>1. pc[p] # "idle" /\ pc' = [pc EXCEPT ![p] = "idle"]
    BY <1>3 DEF Seed, Commit, Fail, Over
  <2>2. \A q \in Procs : pc'[q] = "idle"
    BY <1>0, <2>1 DEF TypeOK, Repairing
  <2> QED
    BY <2>2 DEF Repairing, Owing
<1>4. ASSUME NEW p \in Procs, ReadEnv(p) PROVE Repairing'
  <2>1. /\ pc[p] = "readEnv" /\ pc' = [pc EXCEPT ![p] = "writeEnv"]
        /\ job' = job /\ core' = core
        /\ job[p].op = "bootstrap" => read'[p].token = read[p].token
    BY <1>0, <1>4 DEF TypeOK, ReadEnv
  <2>2. pc'[p] = "writeEnv" /\ \A q \in Procs \ {p} : pc'[q] = "idle"
    BY <1>0, <2>1 DEF TypeOK, Repairing
  <2> QED
    BY <2>1, <2>2 DEF Repairing, Owing
<1>5. ASSUME NEW p \in Procs, WriteEnv(p) PROVE Repairing'
  <2>1. /\ pc[p] = "writeEnv" /\ job' = job /\ core' = core /\ token' = read[p].token
        /\ pc' = [pc EXCEPT ![p] =
                    IF job[p].op = "bootstrap" THEN "writeConfig" ELSE "readRows"]
    BY <1>5 DEF WriteEnv
  <2>2. /\ pc'[p] = IF job[p].op = "bootstrap" THEN "writeConfig" ELSE "readRows"
        /\ \A q \in Procs \ {p} : pc'[q] = "idle"
    BY <1>0, <2>1 DEF TypeOK, Repairing
  <2> QED
    BY <2>1, <2>2 DEF Repairing, Owing
<1>6. ASSUME NEW p \in Procs, ReadRows(p) PROVE Repairing'
  <2>1. /\ pc[p] = "readRows" /\ job' = job /\ job[p].op # "bootstrap"
        /\ pc' = [pc EXCEPT ![p] = "writeConfig"] /\ ~stale'[p]
    BY <1>0, <1>6 DEF TypeOK, Jobs, ReadRows
  <2>2. pc'[p] = "writeConfig" /\ \A q \in Procs \ {p} : pc'[q] = "idle"
    BY <1>0, <2>1 DEF TypeOK, Repairing
  <2> QED
    BY <2>1, <2>2 DEF Repairing, Owing
<1>7. ASSUME NEW p \in Procs, WriteConfig(p) PROVE Repairing'
  <2>1. /\ pc[p] = "writeConfig" /\ author' = p
        /\ pc' = [pc EXCEPT ![p] = IF job[p].op = "bootstrap" THEN "idle" ELSE "up"]
        /\ UNCHANGED <<conns, models, writer, old>>
    BY <1>7 DEF WriteConfig
  <2>2. /\ pc'[p] = IF job[p].op = "bootstrap" THEN "idle" ELSE "up"
        /\ \A q \in Procs \ {p} : pc'[q] = "idle"
    BY <1>0, <2>1 DEF TypeOK, Repairing
  <2>3. ASSUME job[p].op # "bootstrap", ~Saving(p)
        PROVE  config' = Render(Committed, models)
    <3>1. config' = read[p].rows /\ ~stale[p] /\ writer # p
      BY <1>0, <1>7, <2>1, <2>3 DEF WriteConfig, Repairing, Jobs
    <3> QED
      BY <2>1, <2>3, <3>1 DEF IInv, RowsRead, Seen
  <2>4. job[p].op # "bootstrap" => job' = job
    BY <1>7 DEF WriteConfig
  <2>5. Render(Committed, models)' = Render(Committed, models)
    BY <2>1 DEF Committed
  <2> QED
    BY <2>1, <2>2, <2>3, <2>4, <2>5 DEF Repairing, Saving, Owing
<1>8. ASSUME NEW p \in Procs, Up(p) PROVE Repairing'
  <2>1. /\ pc[p] = "up" /\ author' = author
        /\ pc' = [pc EXCEPT ![p] = IF Saving(p) THEN "commit" ELSE "idle"]
    BY <1>8 DEF Up, Over
  <2>2. /\ pc'[p] \in {"commit", "idle"}
        /\ \A q \in Procs \ {p} : pc'[q] = "idle"
    BY <1>0, <2>1 DEF TypeOK, Repairing
  <2> QED
    BY <2>1, <2>2 DEF Repairing, Owing
<1>9. CASE Restart \/ OperatorUp
  <2>1. UNCHANGED <<rowVars, core, fileVars, procVars>>
    BY <1>9 DEF Restart, OperatorUp
  <2> QED
    BY <2>1 DEF Repairing, Committed, Saving, Owing
<1>10. CASE UNCHANGED vars
  BY <1>10 DEF vars, Repairing, Committed, Saving, Owing
<1> QED
  BY <1>1, <1>2, <1>r, <1>3, <1>4, <1>5, <1>6, <1>7, <1>8, <1>9, <1>10 DEF SerialNext

\* The step that ends an operation finds its file put right.
LEMMA EndRepairs == IInv /\ Repairing /\ [SerialNext]_vars => Repairs \/ UNCHANGED vars
<1> SUFFICES ASSUME IInv, Repairing, NEW p \in Procs
             PROVE  /\ Regenerated(p) => config' = Render(Committed', models')
                    /\ Bootstrapped(p) => token' = core'
  BY DEF Repairs
<1>1. ASSUME Commit(p) PROVE config' = Render(Committed', models')
  <2>1. writer = p /\ author = p
    BY <1>1 DEF IInv, TypeOK, Commit, Repairing
  <2>2. config = Render(conns, models)
    BY <1>1, <2>1 DEF IInv, OwnConfig, Commit
  <2>3. config' = config /\ conns' = conns /\ models' = models /\ Committed' = conns'
    BY <1>1 DEF Commit, fileVars, Committed
  <2> QED
    BY <2>2, <2>3
<1>2. ASSUME Up(p), ~Saving(p) PROVE config' = Render(Committed', models')
  <2>1. config = Render(Committed, models)
    BY <1>2 DEF Up, Repairing
  <2>2. config' = config /\ models' = models /\ Committed' = Committed
    BY <1>2 DEF Up, fileVars, rowVars, Committed
  <2> QED
    BY <2>1, <2>2
<1>3. ASSUME Bootstrapped(p) PROVE token' = core'
  BY <1>3 DEF Bootstrapped, WriteConfig, Repairing
<1> QED
  BY <1>1, <1>2, <1>3 DEF Regenerated

\* "The next change repairs it": while operations come one after the other, each
\* change of the rows that comes to its end leaves a config file that lists them,
\* and each bootstrap an env file with the last token, whatever failures, kills,
\* backfills and bootstraps there have been before it.
THEOREM SerialRepairs == Serial => [][Repairs]_vars
<1>1. Init => Repairing
  BY DEF Init, Repairing, Owing
<1>2. [SerialNext]_vars => [Next]_vars
  BY SerialIsNext
<1>3. IInv /\ Repairing /\ [SerialNext]_vars => [Repairs]_vars
  BY EndRepairs
<1> QED
  BY InitIInv, NextIInv, RepairingStep, <1>1, <1>2, <1>3, PTL DEF Serial

=============================================================================

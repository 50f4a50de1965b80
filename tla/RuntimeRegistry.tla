--------------------------- MODULE RuntimeRegistry ---------------------------
(***************************************************************************)
(* Which runtimes exist.  The answer is kept four times: as rows of the    *)
(* control plane's SQLite database (the primary copy), as the JSON state   *)
(* runtimes.json (mirrored from the rows, and imported again whenever the  *)
(* database has no runtimes), as the services of the shared compose file,  *)
(* and as the containers Docker runs.  Requests of a multi-threaded web    *)
(* server and of CLI processes change them without a common lock.          *)
(*                                                                         *)
(* Source: orchestrator/service_layer.py, orchestrator/state.py,           *)
(* orchestrator/compose.py.                                                *)
(*                                                                         *)
(* What is kept: every read of the rows, every write of a row, a file or a *)
(* container, in the order of the code; which of them are inside the       *)
(* transaction of create_or_update_runtime; every place where an exception *)
(* or a killed process can end an operation.                               *)
(* What is left out: the columns of a row other than lifecycle_status, the *)
(* keys and secrets (RuntimeKeys), the agent-<id> service, of which only   *)
(* one-off containers run (the test chat).  A file is written in one step. *)
(***************************************************************************)
EXTENDS Integers, FiniteSets

CONSTANTS
    Procs,      \* concurrent requests of the web server and CLI processes
    Runtimes,   \* runtime ids
    Legacy,     \* runtimes the JSON state of an older installation may name
    Ops,        \* the operations requested: a subset of AllOps
    NoProc, NoRuntime

AllOps == {"create", "start", "stop", "restart", "limits", "delete", "get"}

ASSUME OpsAssumption ==
    /\ Ops \subseteq AllOps
    /\ Legacy \subseteq Runtimes
    /\ NoProc \notin Procs
    /\ NoRuntime \notin Runtimes

VARIABLES
    rows,       \* rows[r]: lifecycle_status of the committed row, or "none"
    writer,     \* the operation inside a transaction of its own
    view,       \* the rows as this transaction sees them, else the rows
    file,       \* the runtimes named in each of the two files
    container,  \* container[r]: state of gateway-<r>
    pc, op, rt, \* an operation's position, kind and runtime
    fresh,      \* fresh[p]: the row p has loaded is still that row
    loaded,     \* loaded[p]: the status in the row that limits has loaded
    snap,       \* snap[p]: runtimes p has read from the rows or from JSON
    drift,      \* history: known differences between a file and the rows
    alone,      \* history: operations without a rival on their runtime
    solo,       \* history: the operation during which there was no other
    settled     \* history: runtimes whose last operation was alone and ended

dbVars   == <<rows, writer, view>>
procVars == <<pc, op, rt, fresh, loaded, snap>>
histVars == <<drift, alone, solo, settled>>
vars == <<dbVars, file, container, procVars, histVars>>

Files == {"json", "compose"}
Statuses == {"created", "running", "stopped"}

TypeOK ==
    /\ rows \in [Runtimes -> Statuses \cup {"none"}]
    /\ view \in [Runtimes -> Statuses \cup {"none"}]
    /\ writer \in Procs \cup {NoProc}
    /\ file \in [Files -> SUBSET Runtimes]
    /\ container \in [Runtimes -> {"absent", "up", "stopped"}]
    /\ pc \in [Procs -> {"idle", "enter", "check", "import", "get", "insert",
                         "sync_read", "sync", "mirror_read", "mirror",
                         "resync_read", "resync", "up", "stop", "halt",
                         "remove", "save", "overwrite", "commit"}]
    /\ op \in [Procs -> AllOps]
    /\ rt \in [Procs -> Runtimes \cup {NoRuntime}]
    /\ fresh \in [Procs -> BOOLEAN]
    /\ loaded \in [Procs -> Statuses \cup {"none"}]
    /\ snap \in [Procs -> SUBSET Runtimes]
    /\ drift \in [Files -> SUBSET Runtimes]
    /\ alone \subseteq Procs
    /\ solo \in Procs \cup {NoProc}
    /\ settled \subseteq Runtimes

-----------------------------------------------------------------------------

Existing(table) == {r \in Runtimes : table[r] # "none"}

\* The runtimes two copies disagree about.
Differ(S, T) == (S \ T) \cup (T \ S)

\* A transaction reads its own writes; everybody else the committed rows.
View(p) == IF writer = p THEN view ELSE rows

\* Mutant: a writer that does not wait for the write lock.
WriteRowsMutant(p, table) ==
    /\ view' = IF writer \in {NoProc, p} THEN table ELSE view
    /\ rows' = IF writer = p THEN rows ELSE table
    /\ UNCHANGED writer

\* A write inside the transaction, or an autocommit write of its own, for
\* which SQLite's write lock must be free.
WriteRows(p, table) ==
    /\ writer \in {NoProc, p}
    /\ view' = table
    /\ rows' = IF writer = p THEN rows ELSE table
    /\ UNCHANGED writer

Goto(p, step) == pc' = [pc EXCEPT ![p] = step]

\* The operation has returned, raised or been killed.
Over(p) ==
    /\ Goto(p, "idle")
    /\ op' = [op EXCEPT ![p] = "get"]
    /\ rt' = [rt EXCEPT ![p] = NoRuntime]
    /\ fresh' = [fresh EXCEPT ![p] = FALSE]
    /\ loaded' = [loaded EXCEPT ![p] = "none"]
    /\ snap' = [snap EXCEPT ![p] = {}]
    /\ alone' = alone \ {p}
    /\ solo' = NoProc

\* The runtimes whose entry in file f operation p still has to bring in line
\* with the rows: those its open transaction adds, the one it has deleted.
Owed(p, f) ==
    CASE writer = p -> Differ(Existing(view), Existing(rows))
      [] op[p] = "delete" /\ pc[p] \in {"mirror_read", "mirror"} -> {rt[p]}
      [] op[p] = "delete" /\ pc[p] \in {"resync_read", "resync"}
         /\ f = "compose" -> {rt[p]}
      [] OTHER -> {}

\* Before the first import the JSON state of an older installation may name
\* runtimes the database does not have, and their containers may run.
Init ==
    /\ rows = [r \in Runtimes |-> "none"]
    /\ view = rows
    /\ writer = NoProc
    /\ \E S \in SUBSET Legacy :
          /\ file = [f \in Files |-> S]
          /\ drift = [f \in Files |-> S]
          /\ container = [r \in Runtimes |-> IF r \in S THEN "up" ELSE "absent"]
    /\ pc = [p \in Procs |-> "idle"]
    /\ op = [p \in Procs |-> "get"]
    /\ rt = [p \in Procs |-> NoRuntime]
    /\ fresh = [p \in Procs |-> FALSE]
    /\ loaded = [p \in Procs |-> "none"]
    /\ snap = [p \in Procs |-> {}]
    /\ alone = {}
    /\ solo = NoProc
    /\ settled = {}

-----------------------------------------------------------------------------
(***************************************************************************)
(* Every operation begins like this                                        *)
(***************************************************************************)

\* A request: "start" is start_runtime or recreate_runtime, "get" any of the
\* operations that only look a runtime up.
Request(p, o, r) ==
    /\ pc[p] = "idle"
    /\ o \in Ops
    /\ Goto(p, IF o = "create" THEN "enter" ELSE "check")
    /\ op' = [op EXCEPT ![p] = o]
    /\ rt' = [rt EXCEPT ![p] = r]
    /\ IF o = "get"
       THEN UNCHANGED <<alone, settled>>
       ELSE LET rivals == {q \in Procs : rt[q] = r /\ op[q] # "get"} IN
            /\ alone' = IF rivals = {} THEN alone \cup {p} ELSE alone \ rivals
            /\ settled' = settled \ {r}
    /\ solo' = IF \A q \in Procs : pc[q] = "idle" THEN p ELSE NoProc
    /\ UNCHANGED <<dbVars, file, container, fresh, loaded, snap, drift>>

\* create_or_update_runtime is @transaction.atomic.
Enter(p) ==
    /\ pc[p] = "enter"
    /\ writer = NoProc
    /\ writer' = p
    /\ Goto(p, "check")
    /\ UNCHANGED <<rows, view, file, container, op, rt, fresh, loaded, snap, histVars>>

Ready(p) == Goto(p, IF op[p] = "create" THEN "insert" ELSE "get")

\* ensure_controlplane_ready writes (the skill catalog), so it waits for the
\* write lock; import_json_state_if_empty then looks for any runtime row.
Check(p) ==
    /\ pc[p] = "check"
    /\ writer \in {NoProc, p}
    /\ IF Existing(View(p)) = {}
       THEN Goto(p, "import") /\ snap' = [snap EXCEPT ![p] = file["json"]]
       ELSE Ready(p) /\ UNCHANGED snap
    /\ UNCHANGED <<dbVars, file, container, op, rt, fresh, loaded, histVars>>

\* A row for r appears, and the files are left as they are.
Appeared(r) ==
    [f \in Files |-> IF r \in file[f] THEN drift[f] \ {r} ELSE drift[f] \cup {r}]

\* One turn of the loop: Runtime.objects.create, which raises an IntegrityError
\* (Abort) when somebody else has created the runtime by now.
Import(p) ==
    /\ pc[p] = "import"
    /\ \E r \in snap[p] :
          /\ View(p)[r] = "none"
          /\ WriteRows(p, [View(p) EXCEPT ![r] = "created"])
          /\ snap' = [snap EXCEPT ![p] = @ \ {r}]
          /\ drift' = Appeared(r)
    /\ UNCHANGED <<file, container, pc, op, rt, fresh, loaded, alone, solo, settled>>

ImportDone(p) ==
    /\ pc[p] = "import"
    /\ snap[p] = {}
    /\ Ready(p)
    /\ UNCHANGED <<dbVars, file, container, op, rt, fresh, loaded, snap, histVars>>

\* Runtime.objects.get; without a row it raises DoesNotExist (Abort).
Get(p) ==
    /\ pc[p] = "get"
    /\ rows[rt[p]] # "none"
    /\ IF op[p] = "get"
       THEN Over(p)
       ELSE /\ Goto(p, IF op[p] = "limits" THEN "overwrite" ELSE "sync_read")
            /\ fresh' = [fresh EXCEPT ![p] = TRUE]
            /\ loaded' = IF op[p] = "limits"
                         THEN [loaded EXCEPT ![p] = rows[rt[p]]] ELSE loaded
            /\ UNCHANGED <<op, rt, snap, alone, solo>>
    /\ UNCHANGED <<dbVars, file, container, drift, settled>>

\* Runtime.objects.update_or_create: a new row is "created", an old one keeps
\* its status.  The project, the key and the env file follow (RuntimeKeys).
Insert(p) ==
    /\ pc[p] = "insert"
    /\ view' = [view EXCEPT ![rt[p]] = IF @ = "none" THEN "created" ELSE @]
    /\ fresh' = [fresh EXCEPT ![p] = TRUE]
    /\ Goto(p, "sync_read")
    /\ UNCHANGED <<rows, writer, file, container, op, rt, loaded, snap, histVars>>

-----------------------------------------------------------------------------
(***************************************************************************)
(* The two files: the rows are read, then the whole file is written        *)
(***************************************************************************)

\* _state_from_db, on behalf of sync_compose_from_db or mirror_json_state.
ReadRows(p) ==
    /\ \/ pc[p] = "sync_read" /\ Goto(p, "sync")
       \/ pc[p] = "mirror_read" /\ Goto(p, "mirror")
       \/ pc[p] = "resync_read" /\ Goto(p, "resync")
    /\ snap' = [snap EXCEPT ![p] = Existing(View(p))]
    /\ UNCHANGED <<dbVars, file, container, op, rt, fresh, loaded, histVars>>

\* What was read may be out of date, or lack what a transaction is adding.
Drifted(p, f) ==
    [drift EXCEPT ![f] = Differ(snap[p], Existing(View(p)))
                            \cup Differ(snap[p], Existing(view))]

WriteFile(p, f) ==
    /\ file' = [file EXCEPT ![f] = snap[p]]
    /\ snap' = [snap EXCEPT ![p] = {}]
    /\ drift' = Drifted(p, f)

\* Mutant: create_or_update_runtime without mirror_json_state.
AfterSyncMutant(o) ==
    CASE o \in {"create", "start"} -> "up"
      [] o \in {"stop", "restart"} -> "stop"
      [] o = "delete" -> "halt"

AfterSync(o) ==
    CASE o = "create" -> "mirror_read"
      [] o = "start" -> "up"
      [] o \in {"stop", "restart"} -> "stop"
      [] o = "delete" -> "halt"

\* Mutant: the compose file is not written.
SyncMutant(p) ==
    /\ pc[p] = "sync"
    /\ Goto(p, AfterSync(op[p]))
    /\ UNCHANGED <<dbVars, file, container, op, rt, fresh, loaded, snap, histVars>>

Sync(p) ==
    /\ pc[p] = "sync"
    /\ WriteFile(p, "compose")
    /\ Goto(p, AfterSync(op[p]))
    /\ UNCHANGED <<dbVars, container, op, rt, fresh, loaded, alone, solo, settled>>

\* Mutant: delete_runtime_service without its second sync_compose_from_db.
AfterMirrorMutant(o) ==
    CASE o = "create" -> {"up"}
      [] o = "delete" -> {"idle"}
      [] o = "limits" -> {"idle", "check"}

\* update_runtime_limits is over, or re-creates the runtime with a new model.
AfterMirror(o) ==
    CASE o = "create" -> {"up"}
      [] o = "delete" -> {"resync_read"}
      [] o = "limits" -> {"idle", "check"}

\* recreate_runtime does what start_runtime does.
Mirror(p) ==
    /\ pc[p] = "mirror"
    /\ file' = [file EXCEPT !["json"] = snap[p]]
    /\ drift' = Drifted(p, "json")
    /\ \E step \in AfterMirror(op[p]) :
          IF step = "idle"
          THEN Over(p)
          ELSE /\ Goto(p, step)
               /\ snap' = [snap EXCEPT ![p] = {}]
               /\ op' = [op EXCEPT ![p] = IF @ = "limits" THEN "start" ELSE @]
               /\ fresh' = [fresh EXCEPT ![p] = @ /\ step # "check"]
               /\ loaded' = [loaded EXCEPT ![p] = "none"]
               /\ UNCHANGED <<rt, alone, solo>>
    /\ UNCHANGED <<dbVars, container, settled>>

\* The last step of delete_runtime_service.
Resync(p) ==
    /\ pc[p] = "resync"
    /\ WriteFile(p, "compose")
    /\ Over(p)
    /\ UNCHANGED <<dbVars, container, settled>>

-----------------------------------------------------------------------------
(***************************************************************************)
(* Containers and rows                                                     *)
(***************************************************************************)

\* docker compose up -d --force-recreate fails (Abort) for a service that the
\* compose file does not name.
Up(p) ==
    /\ pc[p] = "up"
    /\ rt[p] \in file["compose"]
    /\ container' = [container EXCEPT ![rt[p]] = "up"]
    /\ Goto(p, IF op[p] = "create" THEN "commit" ELSE "save")
    /\ UNCHANGED <<dbVars, file, op, rt, fresh, loaded, snap, histVars>>

Stopped(state) == IF state = "up" THEN "stopped" ELSE state

\* Mutant: an error of docker compose stop is swallowed, as in delete.
StopMutant(p) ==
    /\ pc[p] = "stop"
    /\ \/ UNCHANGED container
       \/ container' = [container EXCEPT ![rt[p]] = Stopped(@)]
    /\ Goto(p, "save")
    /\ UNCHANGED <<dbVars, file, op, rt, fresh, loaded, snap, histVars>>

\* docker compose stop, in stop_runtime.
Stop(p) ==
    /\ pc[p] = "stop"
    /\ rt[p] \in file["compose"]
    /\ container' = [container EXCEPT ![rt[p]] = Stopped(@)]
    /\ Goto(p, "save")
    /\ UNCHANGED <<dbVars, file, op, rt, fresh, loaded, snap, histVars>>

\* docker compose stop and rm, in delete_runtime_service: the errors of both
\* are swallowed.
Halt(p) ==
    /\ pc[p] = "halt"
    /\ \/ UNCHANGED container
       \/ /\ rt[p] \in file["compose"]
          /\ \E state \in {Stopped(container[rt[p]]), "absent"} :
                container' = [container EXCEPT ![rt[p]] = state]
    /\ Goto(p, "remove")
    /\ UNCHANGED <<dbVars, file, op, rt, fresh, loaded, snap, histVars>>

\* runtime.delete(): of a row that is gone already it deletes nothing, and a
\* row created since is another row.
Remove(p) ==
    /\ pc[p] = "remove"
    /\ IF fresh[p]
       THEN WriteRows(p, [rows EXCEPT ![rt[p]] = "none"])
       ELSE writer = NoProc /\ UNCHANGED dbVars
    /\ fresh' = [q \in Procs |-> fresh[q] /\ (fresh[p] => rt[q] # rt[p])]
    /\ Goto(p, "mirror_read")
    /\ UNCHANGED <<file, container, op, rt, loaded, snap, histVars>>

\* runtime.save(update_fields=["lifecycle_status", ...]) raises (Abort) when
\* the row is gone.  restart_runtime then calls start_runtime.
Save(p) ==
    /\ pc[p] = "save"
    /\ fresh[p]
    /\ WriteRows(p, [rows EXCEPT ![rt[p]] =
                        IF op[p] = "start" THEN "running" ELSE "stopped"])
    /\ IF op[p] = "restart"
       THEN /\ Goto(p, "check")
            /\ op' = [op EXCEPT ![p] = "start"]
            /\ fresh' = [fresh EXCEPT ![p] = FALSE]
            /\ UNCHANGED <<rt, loaded, snap, alone, solo, settled>>
       ELSE /\ Over(p)
            /\ settled' = settled \cup (IF p \in alone THEN {rt[p]} ELSE {})
    /\ UNCHANGED <<file, container, drift>>

\* runtime.save() in update_runtime_limits writes every column, the status as
\* loaded; a row deleted since is inserted again, without a look at the files.
\* When it has been created again, runtime_id is no longer unique (Abort).
Overwrite(p) ==
    /\ pc[p] = "overwrite"
    /\ fresh[p] \/ rows[rt[p]] = "none"
    /\ WriteRows(p, [rows EXCEPT ![rt[p]] = loaded[p]])
    /\ fresh' = [fresh EXCEPT ![p] = TRUE]
    /\ drift' = IF fresh[p] THEN drift ELSE Appeared(rt[p])
    /\ Goto(p, "mirror_read")
    /\ UNCHANGED <<file, container, op, rt, loaded, snap, alone, solo, settled>>

\* The status is saved and the transaction commits.
Commit(p) ==
    /\ pc[p] = "commit"
    /\ rows' = [view EXCEPT ![rt[p]] = "running"]
    /\ view' = rows'
    /\ writer' = NoProc
    /\ Over(p)
    /\ settled' = settled \cup (IF p \in alone THEN {rt[p]} ELSE {})
    /\ UNCHANGED <<file, container, drift>>

\* Any call raises, or the process is killed.  The transaction is rolled back;
\* files and containers stay as they are.
Abort(p) ==
    /\ pc[p] # "idle"
    /\ view' = IF writer = p THEN rows ELSE view
    /\ writer' = IF writer = p THEN NoProc ELSE writer
    /\ drift' = [f \in Files |-> drift[f] \cup Owed(p, f)]
    /\ Over(p)
    /\ UNCHANGED <<rows, file, container, settled>>

-----------------------------------------------------------------------------

Work(p) ==
    \/ Enter(p) \/ Check(p) \/ Import(p) \/ ImportDone(p) \/ Get(p)
    \/ Insert(p) \/ ReadRows(p) \/ Sync(p) \/ Mirror(p) \/ Resync(p)
    \/ Up(p) \/ Stop(p) \/ Halt(p) \/ Remove(p) \/ Save(p)
    \/ Overwrite(p) \/ Commit(p)

Next ==
    \E p \in Procs :
        \/ \E o \in Ops, r \in Runtimes : Request(p, o, r)
        \/ Work(p)
        \/ Abort(p)

Spec == Init /\ [][Next]_vars

-----------------------------------------------------------------------------
(***************************************************************************)
(* Safety                                                                  *)
(***************************************************************************)

\* The JSON state and the compose file name exactly the runtimes the database
\* has, except for the entries an operation in progress is about to correct
\* and those that a broken-off operation, a stale snapshot or an import left.
\* The types of the variables are checked with it.
FilesAccounted ==
    /\ TypeOK
    /\ \A f \in Files : \A r \in Differ(file[f], Existing(rows)) :
          r \in drift[f] \/ \E p \in Procs : r \in Owed(p, f)

\* An operation that is about to start a container finds its service in the
\* compose file, unless its runtime has been deleted meanwhile or another
\* operation has overwritten the file from a snapshot without it.
UpFindsService ==
    \A p \in Procs : pc[p] = "up" =>
        \/ rt[p] \in file["compose"]
        \/ rt[p] \in drift["compose"]
        \/ ~fresh[p]

\* Operations on other runtimes share the compose file and the lock, but do
\* not disturb this: after an operation that had no rival on its runtime and
\* reported success, lifecycle_status tells whether the container is up.
StatusTruthful ==
    \A r \in settled :
        /\ rows[r] = "running" => container[r] = "up"
        /\ rows[r] = "stopped" => container[r] # "up"

\* A transaction that will commit adds its own runtime and those it imports,
\* and takes none away: no delete slips in while it is open.
TransactionAdds ==
    writer # NoProc => Existing(rows) \subseteq Existing(view)

(***************************************************************************)
(* Action properties                                                       *)
(***************************************************************************)

\* A create or delete that ends normally has rewritten both files from the
\* rows, whatever earlier failures left in them.  (When it was the only one:
\* any other operation may overwrite them with an older snapshot.)
FilesHealed ==
    [][\A p \in Procs : (Resync(p) \/ Commit(p)) /\ solo = p =>
          \A f \in Files : file'[f] = Existing(rows')]_vars

=============================================================================

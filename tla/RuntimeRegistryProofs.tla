------------------------- MODULE RuntimeRegistryProofs -------------------------
(***************************************************************************)
(* The invariants of RuntimeRegistry, and what it says of the files after  *)
(* a create or delete that was the only operation, proved for any number   *)
(* of operations and runtimes.                                             *)
(*                                                                         *)
(* What they need beside themselves: where each kind of operation can be   *)
(* (Flow); that the open transaction has the committed rows and some more  *)
(* (Transaction); that a row which has been loaded and not deleted since   *)
(* is there (FreshRow, Inserted); that the files can be accounted for from *)
(* the rows of the open transaction too, which are those there will be     *)
(* when it commits (ViewAccounted); what an operation knows of the file it *)
(* needs (ServiceNamed) and, when it has no rival, of the container        *)
(* (Exclusive, Quiet, ContainerKnown); and how far the only operation has  *)
(* come with the files (SoloKnown).                                        *)
(***************************************************************************)
EXTENDS RuntimeRegistry, TLAPS

\* Which operation is where; a creation past its first step holds the lock.
Flow ==
    \A p \in Procs :
        /\ rt[p] = NoRuntime <=> pc[p] = "idle"
        /\ pc[p] = "idle" => op[p] = "get" /\ ~fresh[p]
        /\ p \in alone => op[p] # "get"
        /\ pc[p] \in {"enter", "insert", "commit"} => op[p] = "create"
        /\ pc[p] = "get" => op[p] # "create"
        /\ pc[p] \in {"sync_read", "sync"} =>
               op[p] \in {"create", "start", "stop", "restart", "delete"}
        /\ pc[p] \in {"mirror_read", "mirror"} => op[p] \in {"create", "delete", "limits"}
        /\ pc[p] \in {"resync_read", "resync", "halt", "remove"} => op[p] = "delete"
        /\ pc[p] = "up" => op[p] \in {"create", "start"}
        /\ pc[p] = "stop" => op[p] \in {"stop", "restart"}
        /\ pc[p] = "save" => op[p] \in {"start", "stop", "restart"}
        /\ pc[p] = "overwrite" => op[p] = "limits" /\ loaded[p] # "none"
        /\ writer = p <=> op[p] = "create" /\ pc[p] # "enter"

\* The rows of an open transaction are the committed rows and rows it has
\* added.
Transaction ==
    /\ writer = NoProc => view = rows
    /\ \A r \in Runtimes : view[r] = rows[r] \/ (rows[r] = "none" /\ view[r] = "created")

\* A row that has been loaded, and not deleted since, is there.
FreshRow == \A p \in Procs : fresh[p] => View(p)[rt[p]] # "none"

\* A creation that has inserted its row has it.
Inserted ==
    \A p \in Procs :
        writer = p /\ pc[p] \notin {"check", "import", "insert"} => view[rt[p]] # "none"

\* What FilesAccounted says beside the types.
RowsAccounted ==
    \A f \in Files : \A r \in Differ(file[f], Existing(rows)) :
        r \in drift[f] \/ \E p \in Procs : r \in Owed(p, f)

\* A creation has not yet written the file with its own runtime.
Unwritten(p, f) ==
    /\ writer = p
    /\ pc[p] \in {"sync_read", "sync"} \cup
                 (IF f = "json" THEN {"mirror_read", "mirror"} ELSE {})

\* Once the transaction commits the files can be accounted for without what is
\* owed on its behalf.
ViewAccounted ==
    \A f \in Files : \A r \in Differ(file[f], Existing(view)) :
        \/ r \in drift[f]
        \/ \E p \in Procs : writer # p /\ r \in Owed(p, f)
        \/ \E p \in Procs : Unwritten(p, f) /\ r = rt[p]

\* An operation that has written the compose file and is going to use it finds
\* its service there, with the exceptions of UpFindsService.
ServiceNamed ==
    \A p \in Procs :
        pc[p] = "up" \/ (op[p] = "create" /\ pc[p] \in {"mirror_read", "mirror"}) =>
            \/ rt[p] \in file["compose"]
            \/ rt[p] \in drift["compose"]
            \/ ~fresh[p]

\* An operation without a rival shares its runtime with look-ups only.
Exclusive ==
    \A p, q \in Procs : p \in alone /\ q # p /\ rt[q] = rt[p] => op[q] = "get"

\* No operation but look-ups is at work on a settled runtime.
Quiet == \A r \in settled : \A p \in Procs : rt[p] = r => op[p] = "get"

\* An operation without a rival has the container where it put it.
ContainerKnown ==
    \A p \in alone :
        /\ pc[p] = "commit" \/ (pc[p] = "save" /\ op[p] = "start") =>
               container[rt[p]] = "up"
        /\ pc[p] = "save" /\ op[p] # "start" => container[rt[p]] # "up"

\* The only operation there is knows the rows, and what it has written.
SoloKnown ==
    \A p \in Procs : solo = p =>
        /\ pc[p] # "idle"
        /\ \A q \in Procs \ {p} : pc[q] = "idle"
        /\ pc[p] \in {"sync", "mirror", "resync"} => snap[p] = Existing(View(p))
        /\ op[p] = "create" /\ pc[p] \in {"mirror_read", "mirror", "up", "commit"} =>
               file["compose"] = Existing(view)
        /\ op[p] = "create" /\ pc[p] \in {"up", "commit"} => file["json"] = Existing(view)
        /\ pc[p] \in {"resync_read", "resync"} => file["json"] = Existing(rows)

\* The inductive invariant.
IInv ==
    /\ TypeOK /\ Flow /\ Transaction /\ FreshRow /\ Inserted
    /\ RowsAccounted /\ ViewAccounted
    /\ ServiceNamed
    /\ Exclusive /\ Quiet /\ ContainerKnown /\ StatusTruthful
    /\ SoloKnown

-----------------------------------------------------------------------------
(***************************************************************************)
(* Every step keeps the invariant                                          *)
(***************************************************************************)

\* The types of what the operations share.
StoreType ==
    /\ rows \in [Runtimes -> Statuses \cup {"none"}]
    /\ view \in [Runtimes -> Statuses \cup {"none"}]
    /\ writer \in Procs \cup {NoProc}
    /\ file \in [Files -> SUBSET Runtimes]
    /\ container \in [Runtimes -> {"absent", "up", "stopped"}]
    /\ drift \in [Files -> SUBSET Runtimes]
    /\ settled \subseteq Runtimes

\* An operation that is over has the types it began with.
LEMMA OverType ==
    ASSUME TypeOK, NEW p \in Procs, Over(p), StoreType'
    PROVE  TypeOK'
BY OpsAssumption DEF TypeOK, StoreType, Over, Goto, AllOps, Statuses

\* An operation begins; those that have it for a rival are no longer alone.
LEMMA RequestStep ==
    ASSUME NEW p \in Procs, NEW o \in Ops, NEW r \in Runtimes, IInv, Request(p, o, r)
    PROVE  IInv'
<1> USE OpsAssumption DEF Request, Goto, dbVars, procVars, histVars
<1>1. TypeOK'
  BY DEF IInv, TypeOK, AllOps, Statuses, Flow, Files
<1>2. Flow'
  BY DEF IInv, Flow, TypeOK, AllOps
<1>3. Transaction'
  BY DEF IInv, Transaction, TypeOK, Flow
<1>4. FreshRow'
  BY DEF IInv, FreshRow, TypeOK, Flow, Transaction, View
<1>5. Inserted'
  BY DEF IInv, Inserted, TypeOK, Flow, Transaction
<1>6. RowsAccounted'
  BY SMTT(30) DEF IInv, RowsAccounted, TypeOK, Flow, Transaction, Owed, Files,
      Existing, Differ
<1>7. ViewAccounted'
  BY DEF IInv, ViewAccounted, TypeOK, Flow, Transaction, Owed, Unwritten,
      Files, Existing, Differ
<1>8. ServiceNamed'
  BY DEF IInv, ServiceNamed, TypeOK, Flow, Files
<1>9. Exclusive'
  <2>1. CASE o = "get"
    BY <2>1 DEF IInv, Exclusive, TypeOK, Flow
  <2>2. CASE o # "get"
    <3> DEFINE rivals == {q \in Procs : rt[q] = r /\ op[q] # "get"}
    <3>1. alone' = IF rivals = {} THEN alone \cup {p} ELSE alone \ rivals
      BY <2>2
    <3>2. /\ \A q \in Procs \ {p} : rt'[q] = rt[q] /\ op'[q] = op[q]
          /\ rt'[p] = r /\ op'[p] = o
      BY DEF IInv, TypeOK
    <3>3. CASE rivals = {}
      BY <3>1, <3>2, <3>3 DEF IInv, Exclusive, TypeOK, Flow
    <3>4. CASE rivals # {}
      <4>1. p \notin alone'
        BY <3>1, <3>4 DEF IInv, Flow
      <4>2. \A q \in alone' : q \in alone /\ q \notin rivals
        BY <3>1, <3>4
      <4> QED
        BY <3>2, <4>1, <4>2 DEF IInv, Exclusive, Flow, TypeOK
    <3> QED
      BY <3>3, <3>4
  <2> QED
    BY <2>1, <2>2
<1>10. Quiet'
  BY DEF IInv, Quiet, TypeOK, Flow
<1>11. ContainerKnown'
  BY DEF IInv, ContainerKnown, TypeOK, Flow, Exclusive
<1>12. StatusTruthful'
  BY DEF IInv, StatusTruthful, TypeOK, Flow, Quiet, Transaction
<1>13. SoloKnown'
  BY DEF IInv, SoloKnown, TypeOK, Flow, Transaction, View, Files
<1> QED
  BY <1>1, <1>2, <1>3, <1>4, <1>5, <1>6, <1>7, <1>8, <1>9, <1>10, <1>11,
      <1>12, <1>13
  DEF IInv

\* A creation takes the lock.
LEMMA EnterStep ==
    ASSUME NEW p \in Procs, IInv, Enter(p)
    PROVE  IInv'
<1> USE OpsAssumption DEF Enter, Goto, dbVars, procVars, histVars
<1>1. TypeOK'
  BY DEF IInv, TypeOK, AllOps, Statuses, Flow, Files
<1>2. Flow'
  BY DEF IInv, Flow, TypeOK, AllOps
<1>3. Transaction'
  BY DEF IInv, Transaction, TypeOK, Flow
<1>4. FreshRow'
  BY DEF IInv, FreshRow, TypeOK, Flow, Transaction, View
<1>5. Inserted'
  BY DEF IInv, Inserted, TypeOK, Flow, Transaction
<1>6. RowsAccounted'
  BY SMTT(30) DEF IInv, RowsAccounted, TypeOK, Flow, Transaction, Owed, Files,
      Existing, Differ
<1>7. ViewAccounted'
  BY DEF IInv, ViewAccounted, TypeOK, Flow, Transaction, Owed, Unwritten,
      Files, Existing, Differ
<1>8. ServiceNamed'
  BY DEF IInv, ServiceNamed, TypeOK, Flow, Files
<1>9. Exclusive'
  BY DEF IInv, Exclusive, TypeOK, Flow
<1>10. Quiet'
  BY DEF IInv, Quiet, TypeOK, Flow
<1>11. ContainerKnown'
  BY DEF IInv, ContainerKnown, TypeOK, Flow, Exclusive
<1>12. StatusTruthful'
  BY DEF IInv, StatusTruthful, TypeOK, Flow, Quiet, Transaction
<1>13. SoloKnown'
  BY DEF IInv, SoloKnown, TypeOK, Flow, Transaction, View, Files
<1> QED
  BY <1>1, <1>2, <1>3, <1>4, <1>5, <1>6, <1>7, <1>8, <1>9, <1>10, <1>11,
      <1>12, <1>13
  DEF IInv

\* An operation finds runtimes, or imports those of the JSON state.
LEMMA CheckStep ==
    ASSUME NEW p \in Procs, IInv, Check(p)
    PROVE  IInv'
<1> USE OpsAssumption DEF Check, Ready, Goto, dbVars, procVars, histVars
<1>1. TypeOK'
  BY DEF IInv, TypeOK, AllOps, Statuses, Flow, Files
<1>2. Flow'
  BY DEF IInv, Flow, TypeOK, AllOps
<1>3. Transaction'
  BY DEF IInv, Transaction, TypeOK, Flow
<1>4. FreshRow'
  BY DEF IInv, FreshRow, TypeOK, Flow, Transaction, View
<1>5. Inserted'
  BY DEF IInv, Inserted, TypeOK, Flow, Transaction
<1>6. RowsAccounted'
  BY SMTT(30) DEF IInv, RowsAccounted, TypeOK, Flow, Transaction, Owed, Files,
      Existing, Differ
<1>7. ViewAccounted'
  BY DEF IInv, ViewAccounted, TypeOK, Flow, Transaction, Owed, Unwritten,
      Files, Existing, Differ
<1>8. ServiceNamed'
  BY DEF IInv, ServiceNamed, TypeOK, Flow, Files
<1>9. Exclusive'
  BY DEF IInv, Exclusive, TypeOK, Flow
<1>10. Quiet'
  BY DEF IInv, Quiet, TypeOK, Flow
<1>11. ContainerKnown'
  BY DEF IInv, ContainerKnown, TypeOK, Flow, Exclusive
<1>12. StatusTruthful'
  BY DEF IInv, StatusTruthful, TypeOK, Flow, Quiet, Transaction
<1>13. SoloKnown'
  BY DEF IInv, SoloKnown, TypeOK, Flow, Transaction, View, Files
<1> QED
  BY <1>1, <1>2, <1>3, <1>4, <1>5, <1>6, <1>7, <1>8, <1>9, <1>10, <1>11,
      <1>12, <1>13
  DEF IInv

\* A row is imported, in the open transaction or outside of any.
LEMMA ImportStep ==
    ASSUME NEW p \in Procs, IInv, Import(p)
    PROVE  IInv'
<1> USE OpsAssumption DEF Import, WriteRows, Appeared, View, Goto, dbVars,
      procVars, histVars
<1>1. TypeOK'
  BY DEF IInv, TypeOK, AllOps, Statuses, Flow, Files
<1>2. Flow'
  BY DEF IInv, Flow, TypeOK, AllOps
<1>3. Transaction'
  <2>1. PICK r \in snap[p] : /\ View(p)[r] = "none"
                             /\ WriteRows(p, [View(p) EXCEPT ![r] = "created"])
    OBVIOUS
  <2>2. CASE writer = p
    BY <2>1, <2>2 DEF IInv, TypeOK, Transaction
  <2>3. CASE writer # p
    BY <2>1, <2>3 DEF IInv, TypeOK, Transaction
  <2> QED
    BY <2>2, <2>3
<1>4. FreshRow'
  BY DEF IInv, FreshRow, TypeOK, Flow, Transaction, View
<1>5. Inserted'
  BY DEF IInv, Inserted, TypeOK, Flow, Transaction
<1>6. RowsAccounted'
  BY SMTT(30) DEF IInv, RowsAccounted, TypeOK, Flow, Transaction, Owed, Files,
      Existing, Differ
<1>7. ViewAccounted'
  BY DEF IInv, ViewAccounted, TypeOK, Flow, Transaction, Owed, Unwritten,
      Files, Existing, Differ
<1>8. ServiceNamed'
  BY DEF IInv, ServiceNamed, TypeOK, Flow, Files
<1>9. Exclusive'
  BY DEF IInv, Exclusive, TypeOK, Flow
<1>10. Quiet'
  BY DEF IInv, Quiet, TypeOK, Flow
<1>11. ContainerKnown'
  BY DEF IInv, ContainerKnown, TypeOK, Flow, Exclusive
<1>12. StatusTruthful'
  BY DEF IInv, StatusTruthful, TypeOK, Flow, Quiet, Transaction
<1>13. SoloKnown'
  BY DEF IInv, SoloKnown, TypeOK, Flow, Transaction, View, Files
<1> QED
  BY <1>1, <1>2, <1>3, <1>4, <1>5, <1>6, <1>7, <1>8, <1>9, <1>10, <1>11,
      <1>12, <1>13
  DEF IInv

\* The import is over.
LEMMA ImportDoneStep ==
    ASSUME NEW p \in Procs, IInv, ImportDone(p)
    PROVE  IInv'
<1> USE OpsAssumption DEF ImportDone, Ready, Goto, dbVars, procVars, histVars
<1>1. TypeOK'
  BY DEF IInv, TypeOK, AllOps, Statuses, Flow, Files
<1>2. Flow'
  BY DEF IInv, Flow, TypeOK, AllOps
<1>3. Transaction'
  BY DEF IInv, Transaction, TypeOK, Flow
<1>4. FreshRow'
  BY DEF IInv, FreshRow, TypeOK, Flow, Transaction, View
<1>5. Inserted'
  BY DEF IInv, Inserted, TypeOK, Flow, Transaction
<1>6. RowsAccounted'
  BY SMTT(30) DEF IInv, RowsAccounted, TypeOK, Flow, Transaction, Owed, Files,
      Existing, Differ
<1>7. ViewAccounted'
  BY DEF IInv, ViewAccounted, TypeOK, Flow, Transaction, Owed, Unwritten,
      Files, Existing, Differ
<1>8. ServiceNamed'
  BY DEF IInv, ServiceNamed, TypeOK, Flow, Files
<1>9. Exclusive'
  BY DEF IInv, Exclusive, TypeOK, Flow
<1>10. Quiet'
  BY DEF IInv, Quiet, TypeOK, Flow
<1>11. ContainerKnown'
  BY DEF IInv, ContainerKnown, TypeOK, Flow, Exclusive
<1>12. StatusTruthful'
  BY DEF IInv, StatusTruthful, TypeOK, Flow, Quiet, Transaction
<1>13. SoloKnown'
  BY DEF IInv, SoloKnown, TypeOK, Flow, Transaction, View, Files
<1> QED
  BY <1>1, <1>2, <1>3, <1>4, <1>5, <1>6, <1>7, <1>8, <1>9, <1>10, <1>11,
      <1>12, <1>13
  DEF IInv

\* A row has been loaded.
LEMMA GetStep ==
    ASSUME NEW p \in Procs, IInv, Get(p)
    PROVE  IInv'
<1> USE OpsAssumption DEF Get, Over, Goto, dbVars, procVars, histVars
<1>1. TypeOK'
  <2>1. CASE op[p] = "get"
    <3>1. Over(p)
      BY <2>1
    <3>2. StoreType'
      BY DEF IInv, TypeOK, StoreType
    <3> QED
      BY <3>1, <3>2, OverType DEF IInv
  <2>2. CASE op[p] # "get"
    <3>1. /\ pc' = [pc EXCEPT ![p] = IF op[p] = "limits" THEN "overwrite" ELSE "sync_read"]
          /\ fresh' = [fresh EXCEPT ![p] = TRUE]
          /\ loaded' \in {loaded, [loaded EXCEPT ![p] = rows[rt[p]]]}
          /\ UNCHANGED <<op, rt, snap, alone, solo>>
      BY <2>2
    <3>2. loaded' \in [Procs -> Statuses \cup {"none"}]
      BY <3>1 DEF IInv, TypeOK, Flow
    <3>3. StoreType'
      BY DEF IInv, TypeOK, StoreType
    <3> HIDE DEF Get
    <3> QED
      BY <3>1, <3>2, <3>3 DEF IInv, TypeOK, StoreType
  <2> QED
    BY <2>1, <2>2
<1>2. Flow'
  <2>1. CASE op[p] = "get"
    BY <2>1 DEF IInv, TypeOK, Flow, AllOps
  <2>2. CASE ~(op[p] = "get")
    BY <2>2 DEF IInv, TypeOK, Flow, AllOps
  <2> QED
    BY <2>1, <2>2
<1>3. Transaction'
  BY DEF IInv, Transaction, TypeOK, Flow
<1>4. FreshRow'
  BY DEF IInv, FreshRow, TypeOK, Flow, Transaction, View
<1>5. Inserted'
  BY DEF IInv, Inserted, TypeOK, Flow, Transaction
<1>6. RowsAccounted'
  BY SMTT(30) DEF IInv, RowsAccounted, TypeOK, Flow, Transaction, Owed, Files,
      Existing, Differ
<1>7. ViewAccounted'
  BY DEF IInv, ViewAccounted, TypeOK, Flow, Transaction, Owed, Unwritten,
      Files, Existing, Differ
<1>8. ServiceNamed'
  BY DEF IInv, ServiceNamed, TypeOK, Flow, Files
<1>9. Exclusive'
  BY DEF IInv, Exclusive, TypeOK, Flow
<1>10. Quiet'
  BY DEF IInv, Quiet, TypeOK, Flow
<1>11. ContainerKnown'
  BY DEF IInv, ContainerKnown, TypeOK, Flow, Exclusive
<1>12. StatusTruthful'
  BY DEF IInv, StatusTruthful, TypeOK, Flow, Quiet, Transaction
<1>13. SoloKnown'
  BY DEF IInv, SoloKnown, TypeOK, Flow, Transaction, View, Files
<1> QED
  BY <1>1, <1>2, <1>3, <1>4, <1>5, <1>6, <1>7, <1>8, <1>9, <1>10, <1>11,
      <1>12, <1>13
  DEF IInv

\* A creation has its row, in its transaction.
LEMMA InsertStep ==
    ASSUME NEW p \in Procs, IInv, Insert(p)
    PROVE  IInv'
<1> USE OpsAssumption DEF Insert, Goto, dbVars, procVars, histVars
<1>1. TypeOK'
  BY DEF IInv, TypeOK, AllOps, Statuses, Flow, Files
<1>2. Flow'
  BY DEF IInv, Flow, TypeOK, AllOps
<1>3. Transaction'
  BY DEF IInv, Transaction, TypeOK, Flow
<1>4. FreshRow'
  BY DEF IInv, FreshRow, TypeOK, Flow, Transaction, View
<1>5. Inserted'
  BY DEF IInv, Inserted, TypeOK, Flow, Transaction
<1>6. RowsAccounted'
  BY SMTT(30) DEF IInv, RowsAccounted, TypeOK, Flow, Transaction, Owed, Files,
      Existing, Differ
<1>7. ViewAccounted'
  BY DEF IInv, ViewAccounted, TypeOK, Flow, Transaction, Owed, Unwritten,
      Files, Existing, Differ
<1>8. ServiceNamed'
  BY DEF IInv, ServiceNamed, TypeOK, Flow, Files
<1>9. Exclusive'
  BY DEF IInv, Exclusive, TypeOK, Flow
<1>10. Quiet'
  BY DEF IInv, Quiet, TypeOK, Flow
<1>11. ContainerKnown'
  BY DEF IInv, ContainerKnown, TypeOK, Flow, Exclusive
<1>12. StatusTruthful'
  BY DEF IInv, StatusTruthful, TypeOK, Flow, Quiet, Transaction
<1>13. SoloKnown'
  BY DEF IInv, SoloKnown, TypeOK, Flow, Transaction, View, Files, Existing
<1> QED
  BY <1>1, <1>2, <1>3, <1>4, <1>5, <1>6, <1>7, <1>8, <1>9, <1>10, <1>11,
      <1>12, <1>13
  DEF IInv

\* The rows are read.
LEMMA ReadRowsStep ==
    ASSUME NEW p \in Procs, IInv, ReadRows(p)
    PROVE  IInv'
<1> USE OpsAssumption DEF ReadRows, Goto, dbVars, procVars, histVars
<1>1. TypeOK'
  BY DEF IInv, TypeOK, AllOps, Statuses, Flow, Files, Existing
<1>2. Flow'
  BY DEF IInv, Flow, TypeOK, AllOps
<1>3. Transaction'
  BY DEF IInv, Transaction, TypeOK, Flow
<1>4. FreshRow'
  BY DEF IInv, FreshRow, TypeOK, Flow, Transaction, View
<1>5. Inserted'
  BY DEF IInv, Inserted, TypeOK, Flow, Transaction
<1>6. RowsAccounted'
  BY SMTT(30) DEF IInv, RowsAccounted, TypeOK, Flow, Transaction, Owed, Files,
      Existing, Differ
<1>7. ViewAccounted'
  BY DEF IInv, ViewAccounted, TypeOK, Flow, Transaction, Owed, Unwritten,
      Files, Existing, Differ
<1>8. ServiceNamed'
  BY DEF IInv, ServiceNamed, TypeOK, Flow, Files
<1>9. Exclusive'
  BY DEF IInv, Exclusive, TypeOK, Flow
<1>10. Quiet'
  BY DEF IInv, Quiet, TypeOK, Flow
<1>11. ContainerKnown'
  BY DEF IInv, ContainerKnown, TypeOK, Flow, Exclusive
<1>12. StatusTruthful'
  BY DEF IInv, StatusTruthful, TypeOK, Flow, Quiet, Transaction
<1>13. SoloKnown'
  BY DEF IInv, SoloKnown, TypeOK, Flow, Transaction, View, Files
<1> QED
  BY <1>1, <1>2, <1>3, <1>4, <1>5, <1>6, <1>7, <1>8, <1>9, <1>10, <1>11,
      <1>12, <1>13
  DEF IInv

\* The compose file is written with the rows that were read.
LEMMA SyncStep ==
    ASSUME NEW p \in Procs, IInv, Sync(p)
    PROVE  IInv'
<1> USE OpsAssumption DEF Sync, WriteFile, Drifted, AfterSync, Goto, dbVars,
      procVars, histVars
<1>1. TypeOK'
  BY DEF IInv, TypeOK, AllOps, Statuses, Flow, Files, Existing, Differ
<1>2. Flow'
  BY DEF IInv, Flow, TypeOK, AllOps
<1>3. Transaction'
  BY DEF IInv, Transaction, TypeOK, Flow
<1>4. FreshRow'
  BY DEF IInv, FreshRow, TypeOK, Flow, Transaction, View
<1>5. Inserted'
  BY DEF IInv, Inserted, TypeOK, Flow, Transaction
<1>6. RowsAccounted'
  BY SMTT(30) DEF IInv, RowsAccounted, TypeOK, Flow, Transaction, Owed, Files,
      Existing, Differ, View
<1>7. ViewAccounted'
  BY DEF IInv, ViewAccounted, TypeOK, Flow, Transaction, Owed, Unwritten,
      Files, Existing, Differ, View
<1>8. ServiceNamed'
  <2> DEFINE served(q) == \/ rt[q] \in file["compose"]
                          \/ rt[q] \in drift["compose"]
                          \/ ~fresh[q]
  <2> SUFFICES ASSUME NEW q \in Procs,
                      pc'[q] = "up" \/ (op'[q] = "create" /\ pc'[q] \in {"mirror_read", "mirror"})
               PROVE  served(q)'
    BY DEF ServiceNamed
  <2>1. /\ rt'[q] = rt[q] /\ fresh'[q] = fresh[q] /\ rt[q] \in Runtimes
        /\ file'["compose"] = snap[p]
        /\ drift'["compose"] = Differ(snap[p], Existing(View(p)))
                                   \cup Differ(snap[p], Existing(view))
    BY DEF IInv, TypeOK, Flow, Files
  <2>2. fresh[q] => View(q)[rt[q]] # "none"
    BY DEF IInv, FreshRow
  <2>3. fresh[q] => View(p)[rt[q]] # "none" \/ view[rt[q]] # "none"
    BY <2>2 DEF View, IInv, Transaction, TypeOK, Flow
  <2> QED
    BY <2>1, <2>3 DEF Existing, Differ
<1>9. Exclusive'
  BY DEF IInv, Exclusive, TypeOK, Flow
<1>10. Quiet'
  BY DEF IInv, Quiet, TypeOK, Flow
<1>11. ContainerKnown'
  BY DEF IInv, ContainerKnown, TypeOK, Flow, Exclusive
<1>12. StatusTruthful'
  BY DEF IInv, StatusTruthful, TypeOK, Flow, Quiet, Transaction
<1>13. SoloKnown'
  BY DEF IInv, SoloKnown, TypeOK, Flow, Transaction, View, Files
<1> QED
  BY <1>1, <1>2, <1>3, <1>4, <1>5, <1>6, <1>7, <1>8, <1>9, <1>10, <1>11,
      <1>12, <1>13
  DEF IInv

\* The JSON state is written with the rows that were read.
LEMMA MirrorStep ==
    ASSUME NEW p \in Procs, IInv, Mirror(p)
    PROVE  IInv'
<1> USE OpsAssumption DEF Mirror, Drifted, AfterMirror, Over, Goto, dbVars,
      procVars, histVars
<1>1. TypeOK'
  <2>1. StoreType'
    BY DEF IInv, TypeOK, StoreType, Differ, Existing, Files
  <2>2. PICK step \in AfterMirror(op[p]) :
            IF step = "idle"
            THEN Over(p)
            ELSE /\ Goto(p, step)
                 /\ snap' = [snap EXCEPT ![p] = {}]
                 /\ op' = [op EXCEPT ![p] = IF @ = "limits" THEN "start" ELSE @]
                 /\ fresh' = [fresh EXCEPT ![p] = @ /\ step # "check"]
                 /\ loaded' = [loaded EXCEPT ![p] = "none"]
                 /\ UNCHANGED <<rt, alone, solo>>
    BY DEF Mirror
  <2>3. step \in {"up", "resync_read", "idle", "check"}
    BY DEF IInv, Flow
  <2>4. CASE step = "idle"
    BY <2>1, <2>2, <2>4, OverType DEF IInv
  <2>5. CASE step # "idle"
    <3>1. fresh' \in [Procs -> BOOLEAN]
      <4>1. (fresh[p] /\ step # "check") \in BOOLEAN
        OBVIOUS
      <4>2. fresh' = [fresh EXCEPT ![p] = fresh[p] /\ step # "check"]
        BY <2>2, <2>5
      <4> QED
        BY <4>1, <4>2 DEF IInv, TypeOK
    <3>2. op' \in [Procs -> AllOps]
      BY <2>2, <2>5 DEF IInv, TypeOK, AllOps
    <3>3. /\ pc' = [pc EXCEPT ![p] = step] /\ snap' = [snap EXCEPT ![p] = {}]
          /\ loaded' = [loaded EXCEPT ![p] = "none"]
          /\ UNCHANGED <<rt, alone, solo>>
      BY <2>2, <2>5
    <3> HIDE DEF Mirror
    <3> QED
      BY <2>1, <2>3, <3>1, <3>2, <3>3 DEF IInv, TypeOK, StoreType, AllOps
  <2> QED
    BY <2>4, <2>5
<1>2. Flow'
  BY DEF IInv, Flow, TypeOK, AllOps
<1>3. Transaction'
  BY DEF IInv, Transaction, TypeOK, Flow
<1>4. FreshRow'
  BY DEF IInv, FreshRow, TypeOK, Flow, Transaction, View
<1>5. Inserted'
  BY DEF IInv, Inserted, TypeOK, Flow, Transaction
<1>6. RowsAccounted'
  BY SMTT(30) DEF IInv, RowsAccounted, TypeOK, Flow, Transaction, Owed, Files,
      Existing, Differ, View
<1>7. ViewAccounted'
  BY DEF IInv, ViewAccounted, TypeOK, Flow, Transaction, Owed, Unwritten,
      Files, Existing, Differ, View
<1>8. ServiceNamed'
  BY DEF IInv, ServiceNamed, TypeOK, Flow, Files
<1>9. Exclusive'
  BY DEF IInv, Exclusive, TypeOK, Flow
<1>10. Quiet'
  BY DEF IInv, Quiet, TypeOK, Flow
<1>11. ContainerKnown'
  BY DEF IInv, ContainerKnown, TypeOK, Flow, Exclusive
<1>12. StatusTruthful'
  BY DEF IInv, StatusTruthful, TypeOK, Flow, Quiet, Transaction
<1>13. SoloKnown'
  BY DEF IInv, SoloKnown, TypeOK, Flow, Transaction, View, Files
<1> QED
  BY <1>1, <1>2, <1>3, <1>4, <1>5, <1>6, <1>7, <1>8, <1>9, <1>10, <1>11,
      <1>12, <1>13
  DEF IInv

\* The compose file is written again.
LEMMA ResyncStep ==
    ASSUME NEW p \in Procs, IInv, Resync(p)
    PROVE  IInv'
<1> USE OpsAssumption DEF Resync, WriteFile, Drifted, Over, Goto, dbVars,
      procVars, histVars
<1>1. TypeOK'
  BY DEF IInv, TypeOK, AllOps, Statuses, Flow, Files, Existing, Differ
<1>2. Flow'
  BY DEF IInv, Flow, TypeOK, AllOps
<1>3. Transaction'
  BY DEF IInv, Transaction, TypeOK, Flow
<1>4. FreshRow'
  BY DEF IInv, FreshRow, TypeOK, Flow, Transaction, View
<1>5. Inserted'
  BY DEF IInv, Inserted, TypeOK, Flow, Transaction
<1>6. RowsAccounted'
  BY SMTT(30) DEF IInv, RowsAccounted, TypeOK, Flow, Transaction, Owed, Files,
      Existing, Differ, View
<1>7. ViewAccounted'
  BY DEF IInv, ViewAccounted, TypeOK, Flow, Transaction, Owed, Unwritten,
      Files, Existing, Differ, View
<1>8. ServiceNamed'
  BY DEF IInv, ServiceNamed, TypeOK, Flow, Files, FreshRow, Inserted, View,
      Transaction, Existing, Differ
<1>9. Exclusive'
  BY DEF IInv, Exclusive, TypeOK, Flow
<1>10. Quiet'
  BY DEF IInv, Quiet, TypeOK, Flow
<1>11. ContainerKnown'
  BY DEF IInv, ContainerKnown, TypeOK, Flow, Exclusive
<1>12. StatusTruthful'
  BY DEF IInv, StatusTruthful, TypeOK, Flow, Quiet, Transaction
<1>13. SoloKnown'
  BY DEF IInv, SoloKnown, TypeOK, Flow, Transaction, View, Files
<1> QED
  BY <1>1, <1>2, <1>3, <1>4, <1>5, <1>6, <1>7, <1>8, <1>9, <1>10, <1>11,
      <1>12, <1>13
  DEF IInv

\* The container is started.
LEMMA UpStep ==
    ASSUME NEW p \in Procs, IInv, Up(p)
    PROVE  IInv'
<1> USE OpsAssumption DEF Up, Goto, dbVars, procVars, histVars
<1>1. TypeOK'
  BY DEF IInv, TypeOK, AllOps, Statuses, Flow, Files
<1>2. Flow'
  BY DEF IInv, Flow, TypeOK, AllOps
<1>3. Transaction'
  BY DEF IInv, Transaction, TypeOK, Flow
<1>4. FreshRow'
  BY DEF IInv, FreshRow, TypeOK, Flow, Transaction, View
<1>5. Inserted'
  BY DEF IInv, Inserted, TypeOK, Flow, Transaction
<1>6. RowsAccounted'
  BY SMTT(30) DEF IInv, RowsAccounted, TypeOK, Flow, Transaction, Owed, Files,
      Existing, Differ
<1>7. ViewAccounted'
  BY DEF IInv, ViewAccounted, TypeOK, Flow, Transaction, Owed, Unwritten,
      Files, Existing, Differ
<1>8. ServiceNamed'
  BY DEF IInv, ServiceNamed, TypeOK, Flow, Files
<1>9. Exclusive'
  BY DEF IInv, Exclusive, TypeOK, Flow
<1>10. Quiet'
  BY DEF IInv, Quiet, TypeOK, Flow
<1>11. ContainerKnown'
  BY DEF IInv, ContainerKnown, TypeOK, Flow, Exclusive
<1>12. StatusTruthful'
  BY DEF IInv, StatusTruthful, TypeOK, Flow, Quiet, Transaction
<1>13. SoloKnown'
  BY DEF IInv, SoloKnown, TypeOK, Flow, Transaction, View, Files
<1> QED
  BY <1>1, <1>2, <1>3, <1>4, <1>5, <1>6, <1>7, <1>8, <1>9, <1>10, <1>11,
      <1>12, <1>13
  DEF IInv

\* The container is stopped.
LEMMA StopStep ==
    ASSUME NEW p \in Procs, IInv, Stop(p)
    PROVE  IInv'
<1> USE OpsAssumption DEF Stop, Stopped, Goto, dbVars, procVars, histVars
<1>1. TypeOK'
  BY DEF IInv, TypeOK, AllOps, Statuses, Flow, Files
<1>2. Flow'
  BY DEF IInv, Flow, TypeOK, AllOps
<1>3. Transaction'
  BY DEF IInv, Transaction, TypeOK, Flow
<1>4. FreshRow'
  BY DEF IInv, FreshRow, TypeOK, Flow, Transaction, View
<1>5. Inserted'
  BY DEF IInv, Inserted, TypeOK, Flow, Transaction
<1>6. RowsAccounted'
  BY SMTT(30) DEF IInv, RowsAccounted, TypeOK, Flow, Transaction, Owed, Files,
      Existing, Differ
<1>7. ViewAccounted'
  BY DEF IInv, ViewAccounted, TypeOK, Flow, Transaction, Owed, Unwritten,
      Files, Existing, Differ
<1>8. ServiceNamed'
  BY DEF IInv, ServiceNamed, TypeOK, Flow, Files
<1>9. Exclusive'
  BY DEF IInv, Exclusive, TypeOK, Flow
<1>10. Quiet'
  BY DEF IInv, Quiet, TypeOK, Flow
<1>11. ContainerKnown'
  BY DEF IInv, ContainerKnown, TypeOK, Flow, Exclusive
<1>12. StatusTruthful'
  BY DEF IInv, StatusTruthful, TypeOK, Flow, Quiet, Transaction
<1>13. SoloKnown'
  BY DEF IInv, SoloKnown, TypeOK, Flow, Transaction, View, Files
<1> QED
  BY <1>1, <1>2, <1>3, <1>4, <1>5, <1>6, <1>7, <1>8, <1>9, <1>10, <1>11,
      <1>12, <1>13
  DEF IInv

\* The container is stopped and removed, or is not.
LEMMA HaltStep ==
    ASSUME NEW p \in Procs, IInv, Halt(p)
    PROVE  IInv'
<1> USE OpsAssumption DEF Halt, Stopped, Goto, dbVars, procVars, histVars
<1>1. TypeOK'
  BY DEF IInv, TypeOK, AllOps, Statuses, Flow, Files
<1>2. Flow'
  BY DEF IInv, Flow, TypeOK, AllOps
<1>3. Transaction'
  BY DEF IInv, Transaction, TypeOK, Flow
<1>4. FreshRow'
  BY DEF IInv, FreshRow, TypeOK, Flow, Transaction, View
<1>5. Inserted'
  BY DEF IInv, Inserted, TypeOK, Flow, Transaction
<1>6. RowsAccounted'
  BY SMTT(30) DEF IInv, RowsAccounted, TypeOK, Flow, Transaction, Owed, Files,
      Existing, Differ
<1>7. ViewAccounted'
  BY DEF IInv, ViewAccounted, TypeOK, Flow, Transaction, Owed, Unwritten,
      Files, Existing, Differ
<1>8. ServiceNamed'
  BY DEF IInv, ServiceNamed, TypeOK, Flow, Files
<1>9. Exclusive'
  BY DEF IInv, Exclusive, TypeOK, Flow
<1>10. Quiet'
  BY DEF IInv, Quiet, TypeOK, Flow
<1>11. ContainerKnown'
  BY DEF IInv, ContainerKnown, TypeOK, Flow, Exclusive
<1>12. StatusTruthful'
  BY DEF IInv, StatusTruthful, TypeOK, Flow, Quiet, Transaction
<1>13. SoloKnown'
  BY DEF IInv, SoloKnown, TypeOK, Flow, Transaction, View, Files
<1> QED
  BY <1>1, <1>2, <1>3, <1>4, <1>5, <1>6, <1>7, <1>8, <1>9, <1>10, <1>11,
      <1>12, <1>13
  DEF IInv

\* The row is deleted, and the files are still to follow.
LEMMA RemoveStep ==
    ASSUME NEW p \in Procs, IInv, Remove(p)
    PROVE  IInv'
<1> USE OpsAssumption DEF Remove, WriteRows, Goto, dbVars, procVars, histVars
<1>1. TypeOK'
  BY DEF IInv, TypeOK, AllOps, Statuses, Flow, Files
<1>2. Flow'
  BY DEF IInv, Flow, TypeOK, AllOps
<1>3. Transaction'
  BY DEF IInv, Transaction, TypeOK, Flow
<1>4. FreshRow'
  <2>1. ASSUME NEW q \in Procs, fresh'[q]
        PROVE  View(q)'[rt'[q]] # "none"
    <3>1. fresh[q] /\ (fresh[p] => rt[q] # rt[p]) /\ rt'[q] = rt[q]
      BY <2>1 DEF IInv, TypeOK
    <3>2. View(q)[rt[q]] # "none"
      BY <3>1 DEF IInv, FreshRow
    <3>3. writer # p /\ rt[q] \in Runtimes /\ rt[p] \in Runtimes
      BY <3>1 DEF IInv, TypeOK, Flow
    <3>4. CASE fresh[p]
      BY <3>1, <3>2, <3>3, <3>4 DEF IInv, TypeOK, View
    <3>5. CASE ~fresh[p]
      BY <3>1, <3>2, <3>5 DEF View
    <3> QED
      BY <3>4, <3>5
  <2> QED
    BY <2>1 DEF FreshRow
<1>5. Inserted'
  BY DEF IInv, Inserted, TypeOK, Flow, Transaction
<1>6. RowsAccounted'
  BY SMTT(30) DEF IInv, RowsAccounted, TypeOK, Flow, Transaction, Owed, Files,
      Existing, Differ
<1>7. ViewAccounted'
  BY DEF IInv, ViewAccounted, TypeOK, Flow, Transaction, Owed, Unwritten,
      Files, Existing, Differ
<1>8. ServiceNamed'
  BY DEF IInv, ServiceNamed, TypeOK, Flow, Files
<1>9. Exclusive'
  BY DEF IInv, Exclusive, TypeOK, Flow
<1>10. Quiet'
  BY DEF IInv, Quiet, TypeOK, Flow
<1>11. ContainerKnown'
  BY DEF IInv, ContainerKnown, TypeOK, Flow, Exclusive
<1>12. StatusTruthful'
  BY DEF IInv, StatusTruthful, TypeOK, Flow, Quiet, Transaction
<1>13. SoloKnown'
  BY DEF IInv, SoloKnown, TypeOK, Flow, Transaction, View, Files
<1> QED
  BY <1>1, <1>2, <1>3, <1>4, <1>5, <1>6, <1>7, <1>8, <1>9, <1>10, <1>11,
      <1>12, <1>13
  DEF IInv

\* The status is saved to a row that is there.
LEMMA SaveStep ==
    ASSUME NEW p \in Procs, IInv, Save(p)
    PROVE  IInv'
<1> USE OpsAssumption DEF Save, WriteRows, Over, Goto, dbVars, procVars,
      histVars
<1>1. TypeOK'
  <2>1. StoreType'
    BY DEF IInv, TypeOK, Flow, StoreType, Statuses
  <2>2. CASE op[p] = "restart"
    <3>1. /\ pc' = [pc EXCEPT ![p] = "check"]
          /\ op' = [op EXCEPT ![p] = "start"]
          /\ fresh' = [fresh EXCEPT ![p] = FALSE]
          /\ UNCHANGED <<rt, loaded, snap, alone, solo, settled>>
      BY <2>2
    <3> HIDE DEF Save
    <3> QED
      BY <2>1, <3>1 DEF IInv, TypeOK, StoreType, AllOps
  <2>3. CASE op[p] # "restart"
    <3>1. Over(p)
      BY <2>3
    <3> QED
      BY <2>1, <3>1, OverType DEF IInv
  <2> QED
    BY <2>2, <2>3
<1>2. Flow'
  BY DEF IInv, Flow, TypeOK, AllOps
<1>3. Transaction'
  BY DEF IInv, Transaction, TypeOK, Flow
<1>4. FreshRow'
  BY DEF IInv, FreshRow, TypeOK, Flow, Transaction, View
<1>5. Inserted'
  BY DEF IInv, Inserted, TypeOK, Flow, Transaction
<1>6. RowsAccounted'
  BY SMTT(30) DEF IInv, RowsAccounted, TypeOK, Flow, Transaction, Owed, Files,
      Existing, Differ, FreshRow, View
<1>7. ViewAccounted'
  BY SMTT(30) DEF IInv, ViewAccounted, TypeOK, Flow, Transaction, Owed, Unwritten,
      Files, Existing, Differ, FreshRow, View
<1>8. ServiceNamed'
  BY DEF IInv, ServiceNamed, TypeOK, Flow, Files
<1>9. Exclusive'
  BY DEF IInv, Exclusive, TypeOK, Flow
<1>10. Quiet'
  BY DEF IInv, Quiet, TypeOK, Flow, Exclusive
<1>11. ContainerKnown'
  BY DEF IInv, ContainerKnown, TypeOK, Flow, Exclusive
<1>12. StatusTruthful'
  BY DEF IInv, StatusTruthful, TypeOK, Flow, Quiet, Transaction, Exclusive,
      ContainerKnown
<1>13. SoloKnown'
  BY DEF IInv, SoloKnown, TypeOK, Flow, Transaction, View, Files
<1> QED
  BY <1>1, <1>2, <1>3, <1>4, <1>5, <1>6, <1>7, <1>8, <1>9, <1>10, <1>11,
      <1>12, <1>13
  DEF IInv

\* The row is saved, or inserted again.
LEMMA OverwriteStep ==
    ASSUME NEW p \in Procs, IInv, Overwrite(p)
    PROVE  IInv'
<1> USE OpsAssumption DEF Overwrite, WriteRows, Appeared, Goto, dbVars,
      procVars, histVars
<1>1. TypeOK'
  BY DEF IInv, TypeOK, AllOps, Statuses, Flow, Files
<1>2. Flow'
  BY DEF IInv, Flow, TypeOK, AllOps
<1>3. Transaction'
  BY DEF IInv, Transaction, TypeOK, Flow
<1>4. FreshRow'
  BY DEF IInv, FreshRow, TypeOK, Flow, Transaction, View
<1>5. Inserted'
  BY DEF IInv, Inserted, TypeOK, Flow, Transaction
<1>6. RowsAccounted'
  <2>1. /\ rt[p] \in Runtimes /\ loaded[p] # "none" /\ loaded[p] \in Statuses
        /\ writer = NoProc /\ view = rows
    BY DEF IInv, TypeOK, Flow, Transaction
  <2>2. rows' = [rows EXCEPT ![rt[p]] = loaded[p]] /\ view' = rows'
    BY <2>1
  <2>3. Existing(rows)' = Existing(rows) \cup {rt[p]}
    BY <2>1, <2>2 DEF IInv, TypeOK, Existing
  <2>4. \A q \in Procs, f \in Files : Owed(q, f)' = Owed(q, f)
    BY <2>1 DEF IInv, TypeOK, Flow, Owed
  <2>5. CASE fresh[p]
    <3>1. Existing(rows)' = Existing(rows)
      BY <2>1, <2>3, <2>5 DEF IInv, FreshRow, View, Existing
    <3> QED
      BY <2>1, <2>4, <2>5, <3>1 DEF IInv, RowsAccounted
  <2>6. CASE ~fresh[p]
    <3>1. \A f \in Files, r \in Runtimes :
              r \in drift'[f] <=> IF r = rt[p] THEN r \notin file[f] ELSE r \in drift[f]
      BY <2>6 DEF IInv, TypeOK
    <3> QED
      BY <2>1, <2>3, <2>4, <3>1 DEF IInv, TypeOK, Differ, RowsAccounted
  <2> QED
    BY <2>5, <2>6
<1>7. ViewAccounted'
  <2>1. /\ rt[p] \in Runtimes /\ loaded[p] # "none" /\ loaded[p] \in Statuses
        /\ writer = NoProc /\ view = rows
    BY DEF IInv, TypeOK, Flow, Transaction
  <2>2. rows' = [rows EXCEPT ![rt[p]] = loaded[p]] /\ view' = rows'
    BY <2>1
  <2>3. Existing(view)' = Existing(view) \cup {rt[p]}
    BY <2>1, <2>2 DEF IInv, TypeOK, Existing
  <2>4. \A q \in Procs, f \in Files : Owed(q, f)' = Owed(q, f)
    BY <2>1 DEF IInv, TypeOK, Flow, Owed
  <2>5. CASE fresh[p]
    <3>1. Existing(view)' = Existing(view)
      BY <2>1, <2>3, <2>5 DEF IInv, FreshRow, View, Existing
    <3> QED
      BY <2>1, <2>4, <2>5, <3>1 DEF IInv, ViewAccounted, Unwritten
  <2>6. CASE ~fresh[p]
    <3>1. \A f \in Files, r \in Runtimes :
              r \in drift'[f] <=> IF r = rt[p] THEN r \notin file[f] ELSE r \in drift[f]
      BY <2>6 DEF IInv, TypeOK
    <3> QED
      BY <2>1, <2>3, <2>4, <3>1 DEF IInv, TypeOK, Differ, ViewAccounted, Unwritten
  <2> QED
    BY <2>5, <2>6
<1>8. ServiceNamed'
  BY DEF IInv, ServiceNamed, TypeOK, Flow, Files
<1>9. Exclusive'
  BY DEF IInv, Exclusive, TypeOK, Flow
<1>10. Quiet'
  BY DEF IInv, Quiet, TypeOK, Flow
<1>11. ContainerKnown'
  BY DEF IInv, ContainerKnown, TypeOK, Flow, Exclusive
<1>12. StatusTruthful'
  BY DEF IInv, StatusTruthful, TypeOK, Flow, Quiet, Transaction
<1>13. SoloKnown'
  BY DEF IInv, SoloKnown, TypeOK, Flow, Transaction, View, Files
<1> QED
  BY <1>1, <1>2, <1>3, <1>4, <1>5, <1>6, <1>7, <1>8, <1>9, <1>10, <1>11,
      <1>12, <1>13
  DEF IInv

\* The rows of the transaction are there for everybody.
LEMMA CommitStep ==
    ASSUME NEW p \in Procs, IInv, Commit(p)
    PROVE  IInv'
<1> USE OpsAssumption DEF Commit, Over, Goto, dbVars, procVars, histVars
<1>1. TypeOK'
  BY DEF IInv, TypeOK, AllOps, Statuses, Flow, Files
<1>2. Flow'
  BY DEF IInv, Flow, TypeOK, AllOps
<1>3. Transaction'
  BY DEF IInv, Transaction, TypeOK, Flow
<1>4. FreshRow'
  BY DEF IInv, FreshRow, TypeOK, Flow, Transaction, View
<1>5. Inserted'
  BY DEF IInv, Inserted, TypeOK, Flow, Transaction
<1>6. RowsAccounted'
  BY SMTT(30) DEF IInv, RowsAccounted, TypeOK, Flow, Transaction, Owed, Files,
      Existing, Differ, ViewAccounted, Unwritten, Inserted
<1>7. ViewAccounted'
  BY DEF IInv, ViewAccounted, TypeOK, Flow, Transaction, Owed, Unwritten,
      Files, Existing, Differ, Inserted
<1>8. ServiceNamed'
  BY DEF IInv, ServiceNamed, TypeOK, Flow, Files
<1>9. Exclusive'
  BY DEF IInv, Exclusive, TypeOK, Flow
<1>10. Quiet'
  BY DEF IInv, Quiet, TypeOK, Flow, Exclusive
<1>11. ContainerKnown'
  BY DEF IInv, ContainerKnown, TypeOK, Flow, Exclusive
<1>12. StatusTruthful'
  BY DEF IInv, StatusTruthful, TypeOK, Flow, Quiet, Transaction, Exclusive,
      ContainerKnown
<1>13. SoloKnown'
  BY DEF IInv, SoloKnown, TypeOK, Flow, Transaction, View, Files
<1> QED
  BY <1>1, <1>2, <1>3, <1>4, <1>5, <1>6, <1>7, <1>8, <1>9, <1>10, <1>11,
      <1>12, <1>13
  DEF IInv

\* A transaction is rolled back; what an operation owes is left as it is.
LEMMA AbortStep ==
    ASSUME NEW p \in Procs, IInv, Abort(p)
    PROVE  IInv'
<1> USE OpsAssumption DEF Abort, Over, Goto, dbVars, procVars, histVars
<1>1. TypeOK'
  <2>1. StoreType'
    <3>1. \A f \in Files : Owed(p, f) \subseteq Runtimes
      BY DEF IInv, TypeOK, Flow, Owed, Differ, Existing
    <3> QED
      BY <3>1 DEF IInv, TypeOK, StoreType
  <2> QED
    BY <2>1, OverType DEF IInv
<1>2. Flow'
  BY DEF IInv, Flow, TypeOK, AllOps
<1>3. Transaction'
  BY DEF IInv, Transaction, TypeOK, Flow
<1>4. FreshRow'
  BY DEF IInv, FreshRow, TypeOK, Flow, Transaction, View
<1>5. Inserted'
  BY DEF IInv, Inserted, TypeOK, Flow, Transaction
<1>6. RowsAccounted'
  BY SMTT(30) DEF IInv, RowsAccounted, TypeOK, Flow, Transaction, Owed, Files,
      Existing, Differ
<1>7. ViewAccounted'
  BY DEF IInv, ViewAccounted, TypeOK, Flow, Transaction, Owed, Unwritten,
      Files, Existing, Differ, RowsAccounted
<1>8. ServiceNamed'
  BY DEF IInv, ServiceNamed, TypeOK, Flow, Files
<1>9. Exclusive'
  BY DEF IInv, Exclusive, TypeOK, Flow
<1>10. Quiet'
  BY DEF IInv, Quiet, TypeOK, Flow
<1>11. ContainerKnown'
  BY DEF IInv, ContainerKnown, TypeOK, Flow, Exclusive
<1>12. StatusTruthful'
  BY DEF IInv, StatusTruthful, TypeOK, Flow, Quiet, Transaction
<1>13. SoloKnown'
  BY DEF IInv, SoloKnown, TypeOK, Flow, Transaction, View, Files
<1> QED
  BY <1>1, <1>2, <1>3, <1>4, <1>5, <1>6, <1>7, <1>8, <1>9, <1>10, <1>11,
      <1>12, <1>13
  DEF IInv

-----------------------------------------------------------------------------
(***************************************************************************)
(* The invariant and the theorems                                          *)
(***************************************************************************)

\* A database without runtimes, beside the files and containers of an older
\* installation, satisfies the invariant.
LEMMA InitIInv == Init => IInv
<1> SUFFICES ASSUME Init PROVE IInv
  OBVIOUS
<1> USE OpsAssumption DEF Init
<1>1. TypeOK
  BY DEF TypeOK, AllOps, Statuses, Files
<1>2. Flow /\ Transaction /\ FreshRow /\ Inserted
  BY DEF Flow, Transaction, FreshRow, Inserted
<1>3. RowsAccounted /\ ViewAccounted
  BY DEF RowsAccounted, ViewAccounted, Differ, Existing
<1>4. ServiceNamed /\ Exclusive /\ Quiet /\ ContainerKnown /\ StatusTruthful
  BY DEF ServiceNamed, Exclusive, Quiet, ContainerKnown, StatusTruthful
<1>5. SoloKnown
  BY DEF SoloKnown
<1> QED
  BY <1>1, <1>2, <1>3, <1>4, <1>5 DEF IInv

\* A step that changes nothing keeps the invariant.
LEMMA StutterStep == IInv /\ UNCHANGED vars => IInv'
<1> SUFFICES ASSUME IInv, UNCHANGED vars PROVE IInv'
  OBVIOUS
<1> USE DEF vars, dbVars, procVars, histVars
<1>1. (TypeOK /\ Flow /\ Transaction /\ FreshRow /\ Inserted)'
  BY DEF IInv, TypeOK, Flow, Transaction, FreshRow, Inserted, View
<1>2. (RowsAccounted /\ ViewAccounted /\ ServiceNamed)'
  BY DEF IInv, RowsAccounted, ViewAccounted, ServiceNamed, Differ, Existing, Owed, Unwritten
<1>3. (Exclusive /\ Quiet /\ ContainerKnown /\ StatusTruthful)'
  BY DEF IInv, Exclusive, Quiet, ContainerKnown, StatusTruthful
<1>4. SoloKnown'
  BY DEF IInv, SoloKnown, Existing, View
<1> QED
  BY <1>1, <1>2, <1>3, <1>4 DEF IInv

\* Every step keeps the invariant.
LEMMA NextIInv == IInv /\ [Next]_vars => IInv'
<1> SUFFICES ASSUME IInv, [Next]_vars PROVE IInv'
  OBVIOUS
<1>1. ASSUME NEW p \in Procs, NEW o \in Ops, NEW r \in Runtimes, Request(p, o, r)
      PROVE  IInv'
  BY <1>1, RequestStep
<1>2. ASSUME NEW p \in Procs, Work(p)
      PROVE  IInv'
  BY <1>2, EnterStep, CheckStep, ImportStep, ImportDoneStep, GetStep, InsertStep,
     ReadRowsStep, SyncStep, MirrorStep, ResyncStep, UpStep, StopStep, HaltStep,
     RemoveStep, SaveStep, OverwriteStep, CommitStep
  DEF Work
<1>3. ASSUME NEW p \in Procs, Abort(p)
      PROVE  IInv'
  BY <1>3, AbortStep
<1>4. CASE UNCHANGED vars
  BY <1>4, StutterStep
<1> QED
  BY <1>1, <1>2, <1>3, <1>4 DEF Next

\* The invariant holds in every reachable state.
THEOREM Invariance == Spec => []IInv
BY InitIInv, NextIInv, PTL DEF Spec

\* Both files name the runtimes of the database, but for what an operation is
\* about to correct and what an accident left.
THEOREM FilesExplained == Spec => []FilesAccounted
<1>1. IInv => FilesAccounted
  BY DEF IInv, RowsAccounted, FilesAccounted
<1> QED
  BY <1>1, Invariance, PTL

\* A container is started from a compose file with its service, unless the
\* runtime was deleted or the file overwritten meanwhile.
THEOREM ServicesFound == Spec => []UpFindsService
<1>1. IInv => UpFindsService
  BY DEF IInv, ServiceNamed, UpFindsService
<1> QED
  BY <1>1, Invariance, PTL

\* An operation that had no rival and reported success leaves lifecycle_status
\* true, whatever is done to other runtimes.
THEOREM StatusesTrue == Spec => []StatusTruthful
<1>1. IInv => StatusTruthful
  BY DEF IInv
<1> QED
  BY <1>1, Invariance, PTL

\* No row goes while a creation's transaction is open.
THEOREM TransactionsAdd == Spec => []TransactionAdds
<1>1. IInv => TransactionAdds
  BY DEF IInv, Transaction, TransactionAdds, Existing
<1> QED
  BY <1>1, Invariance, PTL

\* A create or delete that was the only operation leaves both files as the
\* rows are.
THEOREM FilesRewritten == Spec => FilesHealed
<1>1. ASSUME IInv, NEW p \in Procs, Resync(p), solo = p
      PROVE  \A f \in Files : file'[f] = Existing(rows')
  <2>1. /\ snap[p] = Existing(View(p)) /\ file["json"] = Existing(rows)
        /\ writer # p
    BY <1>1 DEF IInv, SoloKnown, Flow, Resync
  <2>2. file' = [file EXCEPT !["compose"] = Existing(rows)] /\ rows' = rows
    BY <1>1, <2>1 DEF Resync, WriteFile, View, dbVars
  <2> QED
    BY <1>1, <2>1, <2>2 DEF IInv, TypeOK, Files
<1>2. ASSUME IInv, NEW p \in Procs, Commit(p), solo = p
      PROVE  \A f \in Files : file'[f] = Existing(rows')
  <2>1. file["compose"] = Existing(view) /\ file["json"] = Existing(view)
    BY <1>2 DEF IInv, SoloKnown, Flow, Commit
  <2>2. rt[p] \in Runtimes /\ view[rt[p]] # "none"
    BY <1>2 DEF IInv, TypeOK, Flow, Inserted, Commit
  <2>3. Existing(rows') = Existing(view)
    BY <1>2, <2>2 DEF IInv, TypeOK, Existing, Commit
  <2> QED
    BY <1>2, <2>1, <2>3 DEF Commit, Files
<1>3. IInv /\ [Next]_vars =>
        [\A p \in Procs : (Resync(p) \/ Commit(p)) /\ solo = p =>
            \A f \in Files : file'[f] = Existing(rows')]_vars
  BY <1>1, <1>2
<1> QED
  BY <1>3, Invariance, PTL DEF Spec, FilesHealed

-----------------------------------------------------------------------------
(***************************************************************************)
(* Undisturbed operation                                                   *)
(*                                                                         *)
(* The properties name what may go wrong.  Nothing of it happens without   *)
(* an accident: while one operation runs at a time and none breaks off,    *)
(* whoever finds none at work finds the four copies in agreement.          *)
(***************************************************************************)

\* One operation at a time, which ends normally or is refused by the look-up
\* it begins with.
SerialNext ==
    \E p \in Procs :
        /\ \A q \in Procs \ {p} : pc[q] = "idle"
        /\ \/ \E o \in Ops, r \in Runtimes : Request(p, o, r)
           \/ Work(p)
           \/ pc[p] \in {"enter", "check", "get"} /\ Abort(p)

Undisturbed == Init /\ [][SerialNext]_vars

\* Both files name the runtimes of the database.
InLine == \A f \in Files : file[f] = Existing(rows)

\* The database has none yet, and both files name those of an older
\* installation, which are up.
Unimported ==
    /\ Existing(rows) = {}
    /\ file["json"] = file["compose"] /\ file["json"] \subseteq Legacy
    /\ \A r \in file["json"] : container[r] = "up"

\* The status of the row is that of the container.
Truthful(r) ==
    /\ rows[r] = "running" => container[r] = "up"
    /\ rows[r] = "stopped" => container[r] # "up"

\* Rows, files and containers agree when no operation is at work.
AtRest ==
    (\A p \in Procs : pc[p] = "idle") =>
        (InLine \/ Unimported) /\ \A r \in Runtimes : Truthful(r)

\* The operation at work is the only one.
Sole ==
    \A p \in Procs : pc[p] # "idle" =>
        /\ solo = p
        /\ op[p] # "get" => p \in alone

\* It knows the row it has loaded; a creation has changed none before it looks
\* for any.
RowKnown ==
    \A p \in Procs :
        /\ pc[p] \in {"sync_read", "sync", "up", "stop", "halt", "remove",
                      "save", "overwrite"} => fresh[p]
        /\ op[p] = "create" /\ pc[p] \in {"mirror_read", "mirror"} => fresh[p]
        /\ pc[p] = "overwrite" => loaded[p] = rows[rt[p]]
        /\ pc[p] = "check" => view = rows

\* Files are out of line only while a creation or a deletion is at work.
FilesKept ==
    /\ (\A p \in Procs : pc[p] = "idle") => InLine \/ Unimported
    /\ \A p \in Procs :
          /\ pc[p] \in {"enter", "check"} => InLine \/ Unimported
          /\ pc[p] = "import" => \A f \in Files : file[f] = Existing(View(p)) \cup snap[p]
          /\ pc[p] = "insert" => \A f \in Files : file[f] = Existing(view)
          /\ pc[p] = "get" => InLine
          /\ op[p] # "create" /\ pc[p] \in {"sync_read", "sync", "up", "stop", "halt",
                                            "remove", "save", "overwrite"} => InLine
          /\ op[p] = "limits" /\ pc[p] \in {"mirror_read", "mirror"} => InLine

\* A status is wrong only between the change of a container and that of its row.
StatusKept ==
    \A r \in Runtimes :
        Truthful(r) \/ \E p \in Procs : rt[p] = r /\ pc[p] \in {"save", "remove", "commit"}

SerialInv == Sole /\ RowKnown /\ FilesKept /\ StatusKept

\* An operation begins on copies that agree.
LEMMA RequestSerial ==
    ASSUME NEW p \in Procs, NEW o \in Ops, NEW r \in Runtimes, Request(p, o, r),
           IInv, SerialInv, \A q \in Procs \ {p} : pc[q] = "idle"
    PROVE  SerialInv'
<1> USE DEF Request, Goto, dbVars, procVars, histVars
<1>1. Sole'
  BY DEF IInv, TypeOK, Flow, SerialInv, Sole
<1>2. RowKnown'
  BY DEF IInv, TypeOK, Flow, SerialInv, RowKnown, Sole, Transaction
<1>3. FilesKept'
  BY DEF IInv, TypeOK, Flow, SerialInv, Sole, RowKnown, SoloKnown, Transaction, FilesKept, InLine,
      Unimported, View, Existing, Files
<1>4. StatusKept'
  BY DEF IInv, TypeOK, Flow, SerialInv, Sole, RowKnown, Transaction, ContainerKnown,
      StatusKept, Truthful, View
<1> QED
  BY <1>1, <1>2, <1>3, <1>4 DEF SerialInv

\* A creation takes the lock.
LEMMA EnterSerial ==
    ASSUME NEW p \in Procs, Enter(p),
           IInv, SerialInv, \A q \in Procs \ {p} : pc[q] = "idle"
    PROVE  SerialInv'
<1> USE DEF Enter, Goto, dbVars, procVars, histVars
<1>1. Sole'
  BY DEF IInv, TypeOK, Flow, SerialInv, Sole
<1>2. RowKnown'
  BY DEF IInv, TypeOK, Flow, SerialInv, RowKnown, Sole, Transaction
<1>3. FilesKept'
  BY DEF IInv, TypeOK, Flow, SerialInv, Sole, RowKnown, SoloKnown, Transaction, FilesKept, InLine,
      Unimported, View, Existing, Files
<1>4. StatusKept'
  BY DEF IInv, TypeOK, Flow, SerialInv, Sole, RowKnown, Transaction, ContainerKnown,
      StatusKept, Truthful, View
<1> QED
  BY <1>1, <1>2, <1>3, <1>4 DEF SerialInv

\* The operation finds runtimes, or those of the JSON state.
LEMMA CheckSerial ==
    ASSUME NEW p \in Procs, Check(p),
           IInv, SerialInv, \A q \in Procs \ {p} : pc[q] = "idle"
    PROVE  SerialInv'
<1> USE DEF Check, Ready, Goto, dbVars, procVars, histVars
<1>1. Sole'
  BY DEF IInv, TypeOK, Flow, SerialInv, Sole
<1>2. RowKnown'
  BY DEF IInv, TypeOK, Flow, SerialInv, RowKnown, Sole, Transaction
<1>3. FilesKept'
  BY DEF IInv, TypeOK, Flow, SerialInv, Sole, RowKnown, SoloKnown, Transaction, FilesKept, InLine,
      Unimported, View, Existing, Files
<1>4. StatusKept'
  BY DEF IInv, TypeOK, Flow, SerialInv, Sole, RowKnown, Transaction, ContainerKnown,
      StatusKept, Truthful, View
<1> QED
  BY <1>1, <1>2, <1>3, <1>4 DEF SerialInv

\* A runtime of both files gets its row.
LEMMA ImportSerial ==
    ASSUME NEW p \in Procs, Import(p),
           IInv, SerialInv, \A q \in Procs \ {p} : pc[q] = "idle"
    PROVE  SerialInv'
<1> USE DEF Import, WriteRows, Appeared, Goto, dbVars, procVars, histVars
<1>1. Sole'
  BY DEF IInv, TypeOK, Flow, SerialInv, Sole
<1>2. RowKnown'
  BY DEF IInv, TypeOK, Flow, SerialInv, RowKnown, Sole, Transaction
<1>3. FilesKept'
  BY DEF IInv, TypeOK, Flow, SerialInv, Sole, RowKnown, SoloKnown, Transaction, FilesKept, InLine,
      Unimported, View, Existing, Files
<1>4. StatusKept'
  BY DEF IInv, TypeOK, Flow, SerialInv, Sole, RowKnown, Transaction, ContainerKnown,
      StatusKept, Truthful, View
<1> QED
  BY <1>1, <1>2, <1>3, <1>4 DEF SerialInv

\* Both files are in line with the rows.
LEMMA ImportDoneSerial ==
    ASSUME NEW p \in Procs, ImportDone(p),
           IInv, SerialInv, \A q \in Procs \ {p} : pc[q] = "idle"
    PROVE  SerialInv'
<1> USE DEF ImportDone, Ready, Goto, dbVars, procVars, histVars
<1>1. Sole'
  BY DEF IInv, TypeOK, Flow, SerialInv, Sole
<1>2. RowKnown'
  BY DEF IInv, TypeOK, Flow, SerialInv, RowKnown, Sole, Transaction
<1>3. FilesKept'
  BY DEF IInv, TypeOK, Flow, SerialInv, Sole, RowKnown, SoloKnown, Transaction, FilesKept, InLine,
      Unimported, View, Existing, Files
<1>4. StatusKept'
  BY DEF IInv, TypeOK, Flow, SerialInv, Sole, RowKnown, Transaction, ContainerKnown,
      StatusKept, Truthful, View
<1> QED
  BY <1>1, <1>2, <1>3, <1>4 DEF SerialInv

\* The row is loaded.
LEMMA GetSerial ==
    ASSUME NEW p \in Procs, Get(p),
           IInv, SerialInv, \A q \in Procs \ {p} : pc[q] = "idle"
    PROVE  SerialInv'
<1> USE DEF Get, Over, Goto, dbVars, procVars, histVars
<1>1. Sole'
  BY DEF IInv, TypeOK, Flow, SerialInv, Sole
<1>2. RowKnown'
  BY DEF IInv, TypeOK, Flow, SerialInv, RowKnown, Sole, Transaction
<1>3. FilesKept'
  BY DEF IInv, TypeOK, Flow, SerialInv, Sole, RowKnown, SoloKnown, Transaction, FilesKept, InLine,
      Unimported, View, Existing, Files
<1>4. StatusKept'
  BY DEF IInv, TypeOK, Flow, SerialInv, Sole, RowKnown, Transaction, ContainerKnown,
      StatusKept, Truthful, View
<1> QED
  BY <1>1, <1>2, <1>3, <1>4 DEF SerialInv

\* A creation adds its row to its view.
LEMMA InsertSerial ==
    ASSUME NEW p \in Procs, Insert(p),
           IInv, SerialInv, \A q \in Procs \ {p} : pc[q] = "idle"
    PROVE  SerialInv'
<1> USE DEF Insert, Goto, dbVars, procVars, histVars
<1>1. Sole'
  BY DEF IInv, TypeOK, Flow, SerialInv, Sole
<1>2. RowKnown'
  BY DEF IInv, TypeOK, Flow, SerialInv, RowKnown, Sole, Transaction
<1>3. FilesKept'
  BY DEF IInv, TypeOK, Flow, SerialInv, Sole, RowKnown, SoloKnown, Transaction, FilesKept, InLine,
      Unimported, View, Existing, Files
<1>4. StatusKept'
  BY DEF IInv, TypeOK, Flow, SerialInv, Sole, RowKnown, Transaction, ContainerKnown,
      StatusKept, Truthful, View
<1> QED
  BY <1>1, <1>2, <1>3, <1>4 DEF SerialInv

\* The rows are read for a file.
LEMMA ReadRowsSerial ==
    ASSUME NEW p \in Procs, ReadRows(p),
           IInv, SerialInv, \A q \in Procs \ {p} : pc[q] = "idle"
    PROVE  SerialInv'
<1> USE DEF ReadRows, Goto, dbVars, procVars, histVars
<1>1. Sole'
  BY DEF IInv, TypeOK, Flow, SerialInv, Sole
<1>2. RowKnown'
  BY DEF IInv, TypeOK, Flow, SerialInv, RowKnown, Sole, Transaction
<1>3. FilesKept'
  BY DEF IInv, TypeOK, Flow, SerialInv, Sole, RowKnown, SoloKnown, Transaction, FilesKept, InLine,
      Unimported, View, Existing, Files
<1>4. StatusKept'
  BY DEF IInv, TypeOK, Flow, SerialInv, Sole, RowKnown, Transaction, ContainerKnown,
      StatusKept, Truthful, View
<1> QED
  BY <1>1, <1>2, <1>3, <1>4 DEF SerialInv

\* The compose file is rewritten.
LEMMA SyncSerial ==
    ASSUME NEW p \in Procs, Sync(p),
           IInv, SerialInv, \A q \in Procs \ {p} : pc[q] = "idle"
    PROVE  SerialInv'
<1> USE DEF Sync, AfterSync, WriteFile, Goto, dbVars, procVars, histVars
<1>1. Sole'
  BY DEF IInv, TypeOK, Flow, SerialInv, Sole
<1>2. RowKnown'
  BY DEF IInv, TypeOK, Flow, SerialInv, RowKnown, Sole, Transaction
<1>3. FilesKept'
  BY DEF IInv, TypeOK, Flow, SerialInv, Sole, RowKnown, SoloKnown, Transaction, FilesKept, InLine,
      Unimported, View, Existing, Files
<1>4. StatusKept'
  BY DEF IInv, TypeOK, Flow, SerialInv, Sole, RowKnown, Transaction, ContainerKnown,
      StatusKept, Truthful, View
<1> QED
  BY <1>1, <1>2, <1>3, <1>4 DEF SerialInv

\* The JSON state is rewritten.
LEMMA MirrorSerial ==
    ASSUME NEW p \in Procs, Mirror(p),
           IInv, SerialInv, \A q \in Procs \ {p} : pc[q] = "idle"
    PROVE  SerialInv'
<1> USE DEF Mirror, AfterMirror, Over, Goto, dbVars, procVars, histVars
<1>1. Sole'
  BY DEF IInv, TypeOK, Flow, SerialInv, Sole
<1>2. RowKnown'
  <2>1. op[p] # "create" => view = rows
    BY DEF IInv, TypeOK, Flow, Transaction
  <2> QED
    BY <2>1 DEF IInv, TypeOK, Flow, SerialInv, RowKnown
<1>3. FilesKept'
  BY DEF IInv, TypeOK, Flow, SerialInv, Sole, RowKnown, SoloKnown, Transaction, FilesKept, InLine,
      Unimported, View, Existing, Files
<1>4. StatusKept'
  BY DEF IInv, TypeOK, Flow, SerialInv, Sole, RowKnown, Transaction, ContainerKnown,
      StatusKept, Truthful, View
<1> QED
  BY <1>1, <1>2, <1>3, <1>4 DEF SerialInv

\* A deletion has rewritten both files.
LEMMA ResyncSerial ==
    ASSUME NEW p \in Procs, Resync(p),
           IInv, SerialInv, \A q \in Procs \ {p} : pc[q] = "idle"
    PROVE  SerialInv'
<1> USE DEF Resync, WriteFile, Over, Goto, dbVars, procVars, histVars
<1>1. Sole'
  BY DEF IInv, TypeOK, Flow, SerialInv, Sole
<1>2. RowKnown'
  BY DEF IInv, TypeOK, Flow, SerialInv, RowKnown, Sole, Transaction
<1>3. FilesKept'
  BY DEF IInv, TypeOK, Flow, SerialInv, Sole, RowKnown, SoloKnown, Transaction, FilesKept, InLine,
      Unimported, View, Existing, Files
<1>4. StatusKept'
  BY DEF IInv, TypeOK, Flow, SerialInv, Sole, RowKnown, Transaction, ContainerKnown,
      StatusKept, Truthful, View
<1> QED
  BY <1>1, <1>2, <1>3, <1>4 DEF SerialInv

\* The container is up, the row is saved next.
LEMMA UpSerial ==
    ASSUME NEW p \in Procs, Up(p),
           IInv, SerialInv, \A q \in Procs \ {p} : pc[q] = "idle"
    PROVE  SerialInv'
<1> USE DEF Up, Goto, dbVars, procVars, histVars
<1>1. Sole'
  BY DEF IInv, TypeOK, Flow, SerialInv, Sole
<1>2. RowKnown'
  BY DEF IInv, TypeOK, Flow, SerialInv, RowKnown, Sole, Transaction
<1>3. FilesKept'
  BY DEF IInv, TypeOK, Flow, SerialInv, Sole, RowKnown, SoloKnown, Transaction, FilesKept, InLine,
      Unimported, View, Existing, Files
<1>4. StatusKept'
  BY DEF IInv, TypeOK, Flow, SerialInv, Sole, RowKnown, Transaction, ContainerKnown,
      StatusKept, Truthful, View
<1> QED
  BY <1>1, <1>2, <1>3, <1>4 DEF SerialInv

\* The container is stopped, the row is saved next.
LEMMA StopSerial ==
    ASSUME NEW p \in Procs, Stop(p),
           IInv, SerialInv, \A q \in Procs \ {p} : pc[q] = "idle"
    PROVE  SerialInv'
<1> USE DEF Stop, Stopped, Goto, dbVars, procVars, histVars
<1>1. Sole'
  BY DEF IInv, TypeOK, Flow, SerialInv, Sole
<1>2. RowKnown'
  BY DEF IInv, TypeOK, Flow, SerialInv, RowKnown, Sole, Transaction
<1>3. FilesKept'
  BY DEF IInv, TypeOK, Flow, SerialInv, Sole, RowKnown, SoloKnown, Transaction, FilesKept, InLine,
      Unimported, View, Existing, Files
<1>4. StatusKept'
  BY DEF IInv, TypeOK, Flow, SerialInv, Sole, RowKnown, Transaction, ContainerKnown,
      StatusKept, Truthful, View
<1> QED
  BY <1>1, <1>2, <1>3, <1>4 DEF SerialInv

\* The container may be left, the row goes next.
LEMMA HaltSerial ==
    ASSUME NEW p \in Procs, Halt(p),
           IInv, SerialInv, \A q \in Procs \ {p} : pc[q] = "idle"
    PROVE  SerialInv'
<1> USE DEF Halt, Stopped, Goto, dbVars, procVars, histVars
<1>1. Sole'
  BY DEF IInv, TypeOK, Flow, SerialInv, Sole
<1>2. RowKnown'
  BY DEF IInv, TypeOK, Flow, SerialInv, RowKnown, Sole, Transaction
<1>3. FilesKept'
  BY DEF IInv, TypeOK, Flow, SerialInv, Sole, RowKnown, SoloKnown, Transaction, FilesKept, InLine,
      Unimported, View, Existing, Files
<1>4. StatusKept'
  BY DEF IInv, TypeOK, Flow, SerialInv, Sole, RowKnown, Transaction, ContainerKnown,
      StatusKept, Truthful, View
<1> QED
  BY <1>1, <1>2, <1>3, <1>4 DEF SerialInv

\* The row is gone, the files are next.
LEMMA RemoveSerial ==
    ASSUME NEW p \in Procs, Remove(p),
           IInv, SerialInv, \A q \in Procs \ {p} : pc[q] = "idle"
    PROVE  SerialInv'
<1> USE DEF Remove, WriteRows, Goto, dbVars, procVars, histVars
<1>1. Sole'
  BY DEF IInv, TypeOK, Flow, SerialInv, Sole
<1>2. RowKnown'
  BY DEF IInv, TypeOK, Flow, SerialInv, RowKnown, Sole, Transaction
<1>3. FilesKept'
  BY DEF IInv, TypeOK, Flow, SerialInv, Sole, RowKnown, SoloKnown, Transaction, FilesKept, InLine,
      Unimported, View, Existing, Files
<1>4. StatusKept'
  BY DEF IInv, TypeOK, Flow, SerialInv, Sole, RowKnown, Transaction, ContainerKnown,
      StatusKept, Truthful, View
<1> QED
  BY <1>1, <1>2, <1>3, <1>4 DEF SerialInv

\* The row has the status of the container.
LEMMA SaveSerial ==
    ASSUME NEW p \in Procs, Save(p),
           IInv, SerialInv, \A q \in Procs \ {p} : pc[q] = "idle"
    PROVE  SerialInv'
<1> USE DEF Save, WriteRows, Over, Goto, dbVars, procVars, histVars
<1>1. Sole'
  BY DEF IInv, TypeOK, Flow, SerialInv, Sole
<1>2. RowKnown'
  BY DEF IInv, TypeOK, Flow, SerialInv, RowKnown, Sole, Transaction
<1>3. FilesKept'
  <2>1. writer # p /\ rows[rt[p]] # "none" /\ rt[p] \in Runtimes
    BY DEF IInv, TypeOK, Flow, FreshRow, View
  <2>2. Existing(rows') = Existing(rows) /\ InLine
    BY <2>1 DEF IInv, TypeOK, Flow, SerialInv, FilesKept, Existing
  <2>3. InLine'
    BY <2>2 DEF InLine
  <2>4. pc'[p] \in {"idle", "check"} /\ \A q \in Procs \ {p} : pc'[q] = "idle"
    BY DEF IInv, TypeOK
  <2> QED
    BY <2>3, <2>4 DEF FilesKept
<1>4. StatusKept'
  BY DEF IInv, TypeOK, Flow, SerialInv, Sole, RowKnown, Transaction, ContainerKnown,
      StatusKept, Truthful, View
<1> QED
  BY <1>1, <1>2, <1>3, <1>4 DEF SerialInv

\* The row is written as it is.
LEMMA OverwriteSerial ==
    ASSUME NEW p \in Procs, Overwrite(p),
           IInv, SerialInv, \A q \in Procs \ {p} : pc[q] = "idle"
    PROVE  SerialInv'
<1> USE DEF Overwrite, WriteRows, Goto, dbVars, procVars, histVars
<1>1. Sole'
  BY DEF IInv, TypeOK, Flow, SerialInv, Sole
<1>2. RowKnown'
  BY DEF IInv, TypeOK, Flow, SerialInv, RowKnown, Sole, Transaction
<1>3. FilesKept'
  BY DEF IInv, TypeOK, Flow, SerialInv, Sole, RowKnown, SoloKnown, Transaction, FilesKept, InLine,
      Unimported, View, Existing, Files
<1>4. StatusKept'
  BY DEF IInv, TypeOK, Flow, SerialInv, Sole, RowKnown, Transaction, ContainerKnown,
      StatusKept, Truthful, View
<1> QED
  BY <1>1, <1>2, <1>3, <1>4 DEF SerialInv

\* The row is running, as the container is.
LEMMA CommitSerial ==
    ASSUME NEW p \in Procs, Commit(p),
           IInv, SerialInv, \A q \in Procs \ {p} : pc[q] = "idle"
    PROVE  SerialInv'
<1> USE DEF Commit, Over, Goto, dbVars, procVars, histVars
<1>1. Sole'
  BY DEF IInv, TypeOK, Flow, SerialInv, Sole
<1>2. RowKnown'
  BY DEF IInv, TypeOK, Flow, SerialInv, RowKnown, Sole, Transaction
<1>3. FilesKept'
  <2>1. \A f \in Files : file[f] = Existing(view)
    BY DEF IInv, Flow, SerialInv, Sole, SoloKnown, Files
  <2>2. view[rt[p]] # "none" /\ rt[p] \in Runtimes
    BY DEF IInv, TypeOK, Flow, Inserted
  <2>3. Existing(rows') = Existing(view)
    BY <2>2 DEF IInv, TypeOK, Existing
  <2>4. InLine' /\ \A q \in Procs : pc'[q] = "idle"
    BY <2>1, <2>3 DEF IInv, TypeOK, InLine
  <2> QED
    BY <2>4 DEF FilesKept
<1>4. StatusKept'
  BY DEF IInv, TypeOK, Flow, SerialInv, Sole, RowKnown, Transaction, ContainerKnown,
      StatusKept, Truthful, View
<1> QED
  BY <1>1, <1>2, <1>3, <1>4 DEF SerialInv

\* An operation that is refused has changed nothing, but imported all there was.
LEMMA AbortSerial ==
    ASSUME NEW p \in Procs, pc[p] \in {"enter", "check", "get"}, Abort(p),
           IInv, SerialInv, \A q \in Procs \ {p} : pc[q] = "idle"
    PROVE  SerialInv'
<1> USE DEF Abort, Over, Goto, dbVars, procVars, histVars
<1>1. Sole'
  BY DEF IInv, TypeOK, Flow, SerialInv, Sole
<1>2. RowKnown'
  BY DEF IInv, TypeOK, Flow, SerialInv, RowKnown, Sole, Transaction
<1>3. FilesKept'
  BY DEF IInv, TypeOK, Flow, SerialInv, Sole, RowKnown, SoloKnown, Transaction, FilesKept, InLine,
      Unimported, View, Existing, Files
<1>4. StatusKept'
  BY DEF IInv, TypeOK, Flow, SerialInv, Sole, RowKnown, Transaction, ContainerKnown,
      StatusKept, Truthful, View
<1> QED
  BY <1>1, <1>2, <1>3, <1>4 DEF SerialInv

\* Such a behaviour is one of the specification.
LEMMA SerialIsNext == SerialNext => Next
BY DEF SerialNext, Next

\* Every step of undisturbed operation keeps the agreement.
LEMMA SerialStep == IInv /\ SerialInv /\ [SerialNext]_vars => SerialInv'
<1> SUFFICES ASSUME IInv, SerialInv, [SerialNext]_vars PROVE SerialInv'
  OBVIOUS
<1>1. ASSUME SerialNext PROVE SerialInv'
  <2>1. PICK p \in Procs :
            /\ \A q \in Procs \ {p} : pc[q] = "idle"
            /\ \/ \E o \in Ops, r \in Runtimes : Request(p, o, r)
               \/ Work(p)
               \/ pc[p] \in {"enter", "check", "get"} /\ Abort(p)
    BY <1>1 DEF SerialNext
  <2>2. CASE \E o \in Ops, r \in Runtimes : Request(p, o, r)
    BY <2>1, <2>2, RequestSerial
  <2>3. CASE Work(p)
    BY <2>1, <2>3, EnterSerial, CheckSerial, ImportSerial, ImportDoneSerial, GetSerial,
       InsertSerial, ReadRowsSerial, SyncSerial, MirrorSerial, ResyncSerial, UpSerial,
       StopSerial, HaltSerial, RemoveSerial, SaveSerial, OverwriteSerial, CommitSerial
    DEF Work
  <2>4. CASE pc[p] \in {"enter", "check", "get"} /\ Abort(p)
    BY <2>1, <2>4, AbortSerial
  <2> QED
    BY <2>1, <2>2, <2>3, <2>4
<1>2. CASE UNCHANGED vars
  BY <1>2 DEF vars, dbVars, procVars, histVars, SerialInv, Sole, RowKnown, FilesKept,
      StatusKept, InLine, Unimported, Truthful, View, Existing
<1> QED
  BY <1>1, <1>2

\* While one operation runs at a time and none breaks off, rows, files and
\* containers agree whenever none is at work: each difference the invariants
\* allow has an accident for a cause.
THEOREM UndisturbedAgrees == Undisturbed => []AtRest
<1>1. Init => SerialInv
  <2> SUFFICES ASSUME Init PROVE SerialInv
    OBVIOUS
  <2>1. Unimported
    BY OpsAssumption DEF Init, Unimported, Existing, Files
  <2>2. Sole /\ RowKnown /\ StatusKept
    BY DEF Init, Sole, RowKnown, StatusKept, Truthful
  <2> QED
    BY <2>1, <2>2 DEF SerialInv, FilesKept, Init
<1>2. SerialInv => AtRest
  BY DEF SerialInv, FilesKept, StatusKept, AtRest
<1>3. [SerialNext]_vars => [Next]_vars
  BY SerialIsNext
<1> QED
  BY InitIInv, NextIInv, SerialStep, <1>1, <1>2, <1>3, PTL DEF Undisturbed

=============================================================================

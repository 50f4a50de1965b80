-------------------------- MODULE RuntimeLimitsProofs --------------------------
(***************************************************************************)
(* The invariants of RuntimeLimits, proved for any number of operations,   *)
(* runtimes, limits and models.                                            *)
(*                                                                         *)
(* What they need beside themselves: where each kind of operation can be   *)
(* (Flow), what the transaction sees of the rows (ViewKept), that an       *)
(* operation without a rival shares its runtime with none that writes the  *)
(* row (Exclusive), and what such an operation has already brought         *)
(* together when it is at a step (RowLoaded, KeyMade, GatewayMade).  The   *)
(* last three say nothing of an operation with a rival: what it has loaded *)
(* may be old, its key replaced.                                           *)
(***************************************************************************)
EXTENDS RuntimeLimits, TLAPS

\* Which operation is where.
Flow ==
    \A p \in Procs :
        /\ pc[p] = "idle" => p \notin alone
        /\ pc[p] = "save" => op[p] = "update"
        /\ pc[p] \in {"lookup", "apply", "touch"} => op[p] \in {"update", "sync"}
        /\ pc[p] \in {"enter", "write", "drop", "store", "commit"} => op[p] \in Provision
        /\ pc[p] = "log" => op[p] \notin Provision
        /\ pc[p] \in {"env", "up"} =>
               op[p] \in Provision \cup {"secret"} \/ (op[p] = "update" /\ remodel[p])
        /\ remodel[p] => op[p] = "update" /\ pc[p] \notin {"idle", "load"}

\* A transaction sees the committed rows, but for its own write.
ViewKept ==
    /\ writer = NoProc => view = rows
    /\ \A p \in Procs : writer = p =>
          /\ \A r \in Runtimes \ {rt[p]} : view[r] = rows[r]
          /\ view[rt[p]] = IF pc[p] = "write" THEN rows[rt[p]] ELSE obj[p]

\* An operation without a rival shares its runtime with such operations only,
\* and none of them writes the row.
Exclusive ==
    \A p, q \in Procs :
        p \in alone /\ q # p /\ rt[q] = rt[p] =>
            q \in alone /\ op[p] \notin Writers /\ op[q] \notin Writers

\* The object an operation without a rival has loaded, or saved, is the row.
RowLoaded ==
    \A p \in alone :
        /\ pc[p] \in {"lookup", "apply", "touch", "env", "up", "log"} /\ op[p] \notin Provision =>
               rows[rt[p]] = obj[p]
        /\ pc[p] = "save" => (remodel[p] <=> obj[p].model # rows[rt[p]].model)

\* LiteLLM enforces for r's key what the row says.
KeyGood(r) ==
    /\ key[r] # None
    /\ key[r].model = rows[r].model
    /\ rows[r].limit \in {Unset, key[r].limit}

\* An update or a sync that has sent its limits has sent them for the stored
\* key; a provisioning that has stored a key has given it the row's.
KeyMade ==
    \A p \in alone :
        /\ pc[p] = "apply" => seen[p]
        /\ op[p] \in {"update", "sync"} /\ pc[p] \in {"touch", "env", "up", "log"} =>
               KeyGood(rt[p])
        /\ op[p] \in Provision /\ pc[p] \in {"env", "up", "commit"} => key[rt[p]] = obj[p]

\* The env file has the model of the operation that has written it, and the
\* gateway that of the operation that has re-created it.
GatewayMade ==
    \A p \in alone :
        /\ pc[p] = "up" => env[rt[p]] = obj[p].model
        /\ pc[p] \in {"log", "commit"} /\ (remodel[p] \/ op[p] \in Provision \cup {"secret"}) =>
               env[rt[p]] = obj[p].model /\ gateway[rt[p]] = obj[p].model

\* What KeyFollowsRow says beside the types.
KeyFollows ==
    \A r \in Runtimes : "key" \in trouble[r] \/ Working(r, "key") \/ KeyGood(r)

\* The inductive invariant.
IInv ==
    /\ TypeOK /\ Flow /\ ViewKept /\ Exclusive
    /\ RowLoaded /\ KeyMade /\ GatewayMade
    /\ KeyFollows /\ GatewayFollowsRow

-----------------------------------------------------------------------------
(***************************************************************************)
(* Every step keeps the invariant                                          *)
(***************************************************************************)

\* An operation begins; those that have it for a rival are no longer alone.
LEMMA RequestStep ==
    ASSUME NEW p \in Procs, NEW o \in Ops, NEW r \in Runtimes, IInv, Request(p, o, r)
    PROVE  IInv'
<1> USE LimitsAssumption DEF Request, Rivals, Goto, dbVars, procVars,
      histVars, Inside, Provision
<1>1. TypeOK'
  BY DEF IInv, TypeOK, AllOps, Aspects, Flow
<1>2. Flow'
  BY DEF IInv, Flow, TypeOK
<1>3. ViewKept'
  BY DEF IInv, ViewKept, TypeOK
<1>4. Exclusive'
  BY DEF IInv, Exclusive, TypeOK, Flow, Writers
<1>5. RowLoaded'
  BY DEF IInv, RowLoaded, TypeOK, Flow, Exclusive, Writers, Row
<1>6. KeyMade'
  BY DEF IInv, KeyMade, TypeOK, Flow, Exclusive, KeyGood, Writers, RowLoaded
<1>7. GatewayMade'
  BY DEF IInv, GatewayMade, TypeOK, Flow, Exclusive, Writers
<1>8. KeyFollows'
  BY DEF IInv, KeyFollows, TypeOK, Flow, Exclusive, KeyGood, Working, Owes,
      Aspects, Writers
<1>9. GatewayFollowsRow'
  BY DEF IInv, GatewayFollowsRow, TypeOK, Flow, Exclusive, Working, Owes,
      Aspects, Writers
<1> QED
  BY <1>1, <1>2, <1>3, <1>4, <1>5, <1>6, <1>7, <1>8, <1>9
  DEF IInv

\* An update has the row and the columns it is to change.
LEMMA LoadUpdateStep ==
    ASSUME NEW p \in Procs, IInv, LoadUpdate(p)
    PROVE  IInv'
<1> USE LimitsAssumption DEF LoadUpdate, Row, Goto, dbVars, procVars,
      histVars, Inside, Provision
<1>1. TypeOK'
  BY DEF IInv, TypeOK, AllOps, Aspects, Flow
<1>2. Flow'
  BY DEF IInv, Flow, TypeOK
<1>3. ViewKept'
  BY DEF IInv, ViewKept, TypeOK
<1>4. Exclusive'
  BY DEF IInv, Exclusive, TypeOK, Flow, Writers
<1>5. RowLoaded'
  <2>1. PICK limit \in Limits \cup {rows[rt[p]].limit}, model \in Models :
            /\ obj' = [obj EXCEPT ![p] = [limit |-> limit, model |-> model]]
            /\ remodel' = [remodel EXCEPT ![p] = model # rows[rt[p]].model]
    OBVIOUS
  <2>2. obj'[p].model = model /\ (remodel'[p] <=> model # rows[rt[p]].model)
    BY <2>1, ZenonT(40) DEF IInv, TypeOK
  <2>3. \A q \in Procs \ {p} :
            obj'[q] = obj[q] /\ remodel'[q] = remodel[q] /\ pc'[q] = pc[q]
    BY DEF IInv, TypeOK
  <2>4. pc'[p] = "save"
    BY DEF IInv, TypeOK
  <2> QED
    BY <2>2, <2>3, <2>4 DEF IInv, TypeOK, RowLoaded
<1>6. KeyMade'
  BY DEF IInv, KeyMade, TypeOK, Flow, Exclusive, KeyGood, Writers, RowLoaded
<1>7. GatewayMade'
  BY DEF IInv, GatewayMade, TypeOK, Flow, Exclusive, Writers
<1>8. KeyFollows'
  BY SMTT(30) DEF IInv, KeyFollows, TypeOK, Flow, Exclusive, KeyGood, Working, Owes,
      Aspects, Writers
<1>9. GatewayFollowsRow'
  BY DEF IInv, GatewayFollowsRow, TypeOK, Flow, Exclusive, Working, Owes,
      Aspects, Writers
<1> QED
  BY <1>1, <1>2, <1>3, <1>4, <1>5, <1>6, <1>7, <1>8, <1>9
  DEF IInv

\* An operation has loaded the row.
LEMMA LoadStep ==
    ASSUME NEW p \in Procs, IInv, Load(p)
    PROVE  IInv'
<1> USE LimitsAssumption DEF Load, Row, Goto, dbVars, procVars, histVars,
      Inside, Provision
<1>1. TypeOK'
  <2>1. obj' \in [Procs -> Row \cup {None}] /\ obj'[p] # None
    <3>1. rt[p] \in Runtimes /\ rows[rt[p]] \in Row
      BY DEF IInv, TypeOK
    <3>2. \A limit \in Limits : [rows[rt[p]] EXCEPT !.limit = limit] \in Row
      BY <3>1 DEF Row
    <3>3. \E row \in Row : obj' = [obj EXCEPT ![p] = row]
      BY <3>1, <3>2
    <3> QED
      BY <3>3 DEF IInv, TypeOK
  <2>2. \A q \in Procs \ {p} : obj'[q] = obj[q]
    BY DEF IInv, TypeOK
  <2>3. pc' = [pc EXCEPT ![p] = IF op[p] = "sync" THEN "lookup"
                                ELSE IF op[p] = "secret" THEN "env" ELSE "enter"]
    OBVIOUS
  <2> QED
    BY <2>1, <2>2, <2>3 DEF IInv, TypeOK, Flow
<1>2. Flow'
  BY DEF IInv, Flow, TypeOK
<1>3. ViewKept'
  BY DEF IInv, ViewKept, TypeOK
<1>4. Exclusive'
  BY DEF IInv, Exclusive, TypeOK, Flow, Writers
<1>5. RowLoaded'
  BY DEF IInv, RowLoaded, TypeOK, Flow, Exclusive, Writers, Row
<1>6. KeyMade'
  BY DEF IInv, KeyMade, TypeOK, Flow, Exclusive, KeyGood, Writers, RowLoaded
<1>7. GatewayMade'
  BY DEF IInv, GatewayMade, TypeOK, Flow, Exclusive, Writers
<1>8. KeyFollows'
  BY DEF IInv, KeyFollows, TypeOK, Flow, Exclusive, KeyGood, Working, Owes,
      Aspects, Writers
<1>9. GatewayFollowsRow'
  BY DEF IInv, GatewayFollowsRow, TypeOK, Flow, Exclusive, Working, Owes,
      Aspects, Writers
<1> QED
  BY <1>1, <1>2, <1>3, <1>4, <1>5, <1>6, <1>7, <1>8, <1>9
  DEF IInv

\* A creation has a row of its own.
LEMMA LoadCreateStep ==
    ASSUME NEW p \in Procs, IInv, LoadCreate(p)
    PROVE  IInv'
<1> USE LimitsAssumption DEF LoadCreate, Row, Goto, dbVars, procVars,
      histVars, Inside, Provision
<1>1. TypeOK'
  BY DEF IInv, TypeOK, AllOps, Aspects, Flow
<1>2. Flow'
  BY DEF IInv, Flow, TypeOK
<1>3. ViewKept'
  BY DEF IInv, ViewKept, TypeOK
<1>4. Exclusive'
  BY DEF IInv, Exclusive, TypeOK, Flow, Writers
<1>5. RowLoaded'
  BY DEF IInv, RowLoaded, TypeOK, Flow, Exclusive, Writers, Row
<1>6. KeyMade'
  BY DEF IInv, KeyMade, TypeOK, Flow, Exclusive, KeyGood, Writers, RowLoaded
<1>7. GatewayMade'
  BY DEF IInv, GatewayMade, TypeOK, Flow, Exclusive, Writers
<1>8. KeyFollows'
  BY DEF IInv, KeyFollows, TypeOK, Flow, Exclusive, KeyGood, Working, Owes,
      Aspects, Writers
<1>9. GatewayFollowsRow'
  BY DEF IInv, GatewayFollowsRow, TypeOK, Flow, Exclusive, Working, Owes,
      Aspects, Writers
<1> QED
  BY <1>1, <1>2, <1>3, <1>4, <1>5, <1>6, <1>7, <1>8, <1>9
  DEF IInv

\* An update writes the row, and owes the key and the gateway.
LEMMA SaveStep ==
    ASSUME NEW p \in Procs, IInv, Save(p)
    PROVE  IInv'
<1> USE LimitsAssumption DEF Save, SaveRow, Goto, dbVars, procVars, histVars,
      Inside, Provision
<1>1. TypeOK'
  BY DEF IInv, TypeOK, AllOps, Aspects, Flow
<1>2. Flow'
  BY DEF IInv, Flow, TypeOK
<1>3. ViewKept'
  BY DEF IInv, ViewKept, TypeOK
<1>4. Exclusive'
  BY DEF IInv, Exclusive, TypeOK, Flow, Writers
<1>5. RowLoaded'
  BY DEF IInv, RowLoaded, TypeOK, Flow, Exclusive, Writers, Row
<1>6. KeyMade'
  BY DEF IInv, KeyMade, TypeOK, Flow, Exclusive, KeyGood, Writers, RowLoaded
<1>7. GatewayMade'
  BY DEF IInv, GatewayMade, TypeOK, Flow, Exclusive, Writers
<1>8. KeyFollows'
  BY DEF IInv, KeyFollows, TypeOK, Flow, Exclusive, KeyGood, Working, Owes,
      Aspects, Writers, RowLoaded
<1>9. GatewayFollowsRow'
  BY DEF IInv, GatewayFollowsRow, TypeOK, Flow, Exclusive, Working, Owes,
      Aspects, Writers, RowLoaded
<1> QED
  BY <1>1, <1>2, <1>3, <1>4, <1>5, <1>6, <1>7, <1>8, <1>9
  DEF IInv

\* The key that is looked up is the stored one.
LEMMA LookupStep ==
    ASSUME NEW p \in Procs, IInv, Lookup(p)
    PROVE  IInv'
<1> USE LimitsAssumption DEF Lookup, Goto, dbVars, procVars, histVars, Inside,
      Provision
<1>1. TypeOK'
  BY DEF IInv, TypeOK, AllOps, Aspects, Flow
<1>2. Flow'
  BY DEF IInv, Flow, TypeOK
<1>3. ViewKept'
  BY DEF IInv, ViewKept, TypeOK
<1>4. Exclusive'
  BY DEF IInv, Exclusive, TypeOK, Flow, Writers
<1>5. RowLoaded'
  BY DEF IInv, RowLoaded, TypeOK, Flow, Exclusive, Writers, Row
<1>6. KeyMade'
  BY DEF IInv, KeyMade, TypeOK, Flow, Exclusive, KeyGood, Writers, RowLoaded
<1>7. GatewayMade'
  BY DEF IInv, GatewayMade, TypeOK, Flow, Exclusive, Writers
<1>8. KeyFollows'
  BY DEF IInv, KeyFollows, TypeOK, Flow, Exclusive, KeyGood, Working, Owes,
      Aspects, Writers
<1>9. GatewayFollowsRow'
  BY DEF IInv, GatewayFollowsRow, TypeOK, Flow, Exclusive, Working, Owes,
      Aspects, Writers
<1> QED
  BY <1>1, <1>2, <1>3, <1>4, <1>5, <1>6, <1>7, <1>8, <1>9
  DEF IInv

\* The limits of the row are sent for the stored key.
LEMMA ApplyStep ==
    ASSUME NEW p \in Procs, IInv, Apply(p)
    PROVE  IInv'
<1> USE LimitsAssumption DEF Apply, Push, Enforce, Goto, dbVars, procVars,
      histVars, Inside, Provision
<1>1. TypeOK'
  <2>1. key' \in [Runtimes -> Row \cup {None}]
    <3>1. /\ rt[p] \in Runtimes /\ obj[p] \in Row
          /\ key \in [Runtimes -> Row \cup {None}]
      BY DEF IInv, TypeOK
    <3>2. CASE seen[p]
      <4>1. key[rt[p]] \in Row
        BY <3>1, <3>2
      <4> QED
        BY <3>1, <3>2, <4>1 DEF Row
    <3> QED
      BY <3>1, <3>2
  <2> QED
    BY <2>1 DEF IInv, TypeOK, Flow
<1>2. Flow'
  BY DEF IInv, Flow, TypeOK
<1>3. ViewKept'
  BY DEF IInv, ViewKept, TypeOK
<1>4. Exclusive'
  BY DEF IInv, Exclusive, TypeOK, Flow, Writers
<1>5. RowLoaded'
  BY DEF IInv, RowLoaded, TypeOK, Flow, Exclusive, Writers, Row
<1>6. KeyMade'
  BY DEF IInv, KeyMade, TypeOK, Flow, Exclusive, KeyGood, Writers, RowLoaded,
      Row
<1>7. GatewayMade'
  BY DEF IInv, GatewayMade, TypeOK, Flow, Exclusive, Writers
<1>8. KeyFollows'
  <2> SUFFICES ASSUME NEW r \in Runtimes
               PROVE  ("key" \in trouble[r] \/ Working(r, "key") \/ KeyGood(r))'
    BY DEF KeyFollows
  <2>1. CASE r # rt[p]
    <3>1. key'[r] = key[r]
      BY <2>1 DEF IInv, TypeOK
    <3>2. Working(r, "key") => Working(r, "key")'
      BY <2>1 DEF IInv, TypeOK, Working, Owes
    <3> QED
      BY <3>1, <3>2 DEF IInv, KeyFollows, KeyGood
  <2>2. CASE r = rt[p] /\ p \notin alone
    BY <2>2 DEF Working
  <2>3. CASE r = rt[p] /\ p \in alone
    <3>1. seen[p] /\ rows[r] = obj[p] /\ rows[r] \in Row
      BY <2>3 DEF IInv, TypeOK, Flow, KeyMade, RowLoaded
    <3>2. key'[r] = [limit |-> IF obj[p].limit = Unset THEN key[r].limit ELSE obj[p].limit,
                     model |-> obj[p].model]
      BY <2>3, <3>1 DEF IInv, TypeOK
    <3>3. key'[r] \in Row
      BY <2>3, <3>1, <3>2 DEF IInv, TypeOK, Row
    <3> QED
      BY <3>1, <3>2, <3>3 DEF KeyGood
  <2> QED
    BY <2>1, <2>2, <2>3
<1>9. GatewayFollowsRow'
  BY DEF IInv, GatewayFollowsRow, TypeOK, Flow, Exclusive, Working, Owes,
      Aspects, Writers
<1> QED
  BY <1>1, <1>2, <1>3, <1>4, <1>5, <1>6, <1>7, <1>8, <1>9
  DEF IInv

\* The row is touched.
LEMMA TouchStep ==
    ASSUME NEW p \in Procs, IInv, Touch(p)
    PROVE  IInv'
<1> USE LimitsAssumption DEF Touch, Goto, dbVars, procVars, histVars, Inside,
      Provision
<1>1. TypeOK'
  BY DEF IInv, TypeOK, AllOps, Aspects, Flow
<1>2. Flow'
  BY DEF IInv, Flow, TypeOK
<1>3. ViewKept'
  BY DEF IInv, ViewKept, TypeOK
<1>4. Exclusive'
  BY DEF IInv, Exclusive, TypeOK, Flow, Writers
<1>5. RowLoaded'
  BY DEF IInv, RowLoaded, TypeOK, Flow, Exclusive, Writers, Row
<1>6. KeyMade'
  BY DEF IInv, KeyMade, TypeOK, Flow, Exclusive, KeyGood, Writers, RowLoaded
<1>7. GatewayMade'
  BY DEF IInv, GatewayMade, TypeOK, Flow, Exclusive, Writers
<1>8. KeyFollows'
  BY DEF IInv, KeyFollows, TypeOK, Flow, Exclusive, KeyGood, Working, Owes,
      Aspects, Writers
<1>9. GatewayFollowsRow'
  BY DEF IInv, GatewayFollowsRow, TypeOK, Flow, Exclusive, Working, Owes,
      Aspects, Writers
<1> QED
  BY <1>1, <1>2, <1>3, <1>4, <1>5, <1>6, <1>7, <1>8, <1>9
  DEF IInv

\* The env file gets the model of the row.
LEMMA WriteEnvStep ==
    ASSUME NEW p \in Procs, IInv, WriteEnv(p)
    PROVE  IInv'
<1> USE LimitsAssumption DEF WriteEnv, Goto, dbVars, procVars, histVars,
      Inside, Provision
<1>1. TypeOK'
  BY DEF IInv, TypeOK, AllOps, Aspects, Flow, Row
<1>2. Flow'
  BY DEF IInv, Flow, TypeOK
<1>3. ViewKept'
  BY DEF IInv, ViewKept, TypeOK
<1>4. Exclusive'
  BY DEF IInv, Exclusive, TypeOK, Flow, Writers
<1>5. RowLoaded'
  BY DEF IInv, RowLoaded, TypeOK, Flow, Exclusive, Writers, Row
<1>6. KeyMade'
  BY DEF IInv, KeyMade, TypeOK, Flow, Exclusive, KeyGood, Writers, RowLoaded
<1>7. GatewayMade'
  BY DEF IInv, GatewayMade, TypeOK, Flow, Exclusive, Writers, RowLoaded
<1>8. KeyFollows'
  BY DEF IInv, KeyFollows, TypeOK, Flow, Exclusive, KeyGood, Working, Owes,
      Aspects, Writers
<1>9. GatewayFollowsRow'
  BY DEF IInv, GatewayFollowsRow, TypeOK, Flow, Exclusive, Working, Owes,
      Aspects, Writers, RowLoaded
<1> QED
  BY <1>1, <1>2, <1>3, <1>4, <1>5, <1>6, <1>7, <1>8, <1>9
  DEF IInv

\* The gateway is created anew with the model of the env file.
LEMMA UpStep ==
    ASSUME NEW p \in Procs, IInv, Up(p)
    PROVE  IInv'
<1> USE LimitsAssumption DEF Up, Goto, dbVars, procVars, histVars, Inside,
      Provision
<1>1. TypeOK'
  BY DEF IInv, TypeOK, AllOps, Aspects, Flow
<1>2. Flow'
  BY DEF IInv, Flow, TypeOK
<1>3. ViewKept'
  BY DEF IInv, ViewKept, TypeOK
<1>4. Exclusive'
  BY DEF IInv, Exclusive, TypeOK, Flow, Writers
<1>5. RowLoaded'
  BY DEF IInv, RowLoaded, TypeOK, Flow, Exclusive, Writers, Row
<1>6. KeyMade'
  BY DEF IInv, KeyMade, TypeOK, Flow, Exclusive, KeyGood, Writers, RowLoaded
<1>7. GatewayMade'
  BY DEF IInv, GatewayMade, TypeOK, Flow, Exclusive, Writers, RowLoaded
<1>8. KeyFollows'
  BY DEF IInv, KeyFollows, TypeOK, Flow, Exclusive, KeyGood, Working, Owes,
      Aspects, Writers
<1>9. GatewayFollowsRow'
  BY DEF IInv, GatewayFollowsRow, TypeOK, Flow, Exclusive, Working, Owes,
      Aspects, Writers, RowLoaded, GatewayMade
<1> QED
  BY <1>1, <1>2, <1>3, <1>4, <1>5, <1>6, <1>7, <1>8, <1>9
  DEF IInv

\* An operation that ends well has brought together what it repairs.
LEMMA LogStep ==
    ASSUME NEW p \in Procs, IInv, Log(p)
    PROVE  IInv'
<1> USE LimitsAssumption DEF Log, Over, Repaired, Goto, dbVars, procVars,
      histVars, Inside, Provision
<1>1. TypeOK'
  BY DEF IInv, TypeOK, AllOps, Aspects, Flow
<1>2. Flow'
  BY DEF IInv, Flow, TypeOK
<1>3. ViewKept'
  BY DEF IInv, ViewKept, TypeOK
<1>4. Exclusive'
  BY DEF IInv, Exclusive, TypeOK, Flow, Writers
<1>5. RowLoaded'
  BY DEF IInv, RowLoaded, TypeOK, Flow, Exclusive, Writers, Row
<1>6. KeyMade'
  BY DEF IInv, KeyMade, TypeOK, Flow, Exclusive, KeyGood, Writers, RowLoaded
<1>7. GatewayMade'
  BY DEF IInv, GatewayMade, TypeOK, Flow, Exclusive, Writers
<1>8. KeyFollows'
  <2> SUFFICES ASSUME NEW r \in Runtimes
               PROVE  ("key" \in trouble[r] \/ Working(r, "key")
                          \/ KeyGood(r))'
    BY DEF KeyFollows, KeyGood
  <2>1. \A q \in Procs \ {p} : rt'[q] = rt[q] /\ op'[q] = op[q] /\ pc'[q] = pc[q]
                               /\ remodel'[q] = remodel[q] /\ (q \in alone' <=> q \in alone)
    BY DEF IInv, TypeOK
  <2>2. CASE r # rt[p]
    <3>1. trouble'[r] = trouble[r]
      BY <2>2 DEF IInv, TypeOK
    <3>2. Working(r, "key") => Working(r, "key")'
      BY <2>1, <2>2 DEF Working, Owes
    <3> QED
      BY <3>1, <3>2 DEF IInv, KeyFollows, KeyGood
  <2>3. CASE r = rt[p] /\ p \notin alone
    BY <2>3 DEF IInv, TypeOK, Aspects
  <2>4. CASE r = rt[p] /\ p \in alone
    <3>1. trouble'[r] = trouble[r] \ Repaired(p)
      BY <2>4 DEF IInv, TypeOK
    <3>2. Working(r, "key") => Working(r, "key")'
      BY <2>1, <2>4 DEF IInv, Flow, Working, Owes
    <3>3. op[p] \in {"update", "sync", "secret"}
      BY DEF IInv, TypeOK, Flow, AllOps
    <3>4. "key" \in Repaired(p) => KeyGood(r)
      BY <2>4, <3>3 DEF IInv, Flow, KeyMade, Provision, Repaired
    <3> QED
      BY <3>1, <3>2, <3>4 DEF IInv, KeyFollows, KeyGood
  <2> QED
    BY <2>2, <2>3, <2>4
<1>9. GatewayFollowsRow'
  <2> SUFFICES ASSUME NEW r \in Runtimes
               PROVE  ("gateway" \in trouble[r] \/ Working(r, "gateway")
                          \/ (gateway[r] = rows[r].model /\ env[r] = rows[r].model))'
    BY DEF GatewayFollowsRow
  <2>1. \A q \in Procs \ {p} : rt'[q] = rt[q] /\ op'[q] = op[q] /\ pc'[q] = pc[q]
                               /\ remodel'[q] = remodel[q] /\ (q \in alone' <=> q \in alone)
    BY DEF IInv, TypeOK
  <2>2. CASE r # rt[p]
    <3>1. trouble'[r] = trouble[r]
      BY <2>2 DEF IInv, TypeOK
    <3>2. Working(r, "gateway") => Working(r, "gateway")'
      BY <2>1, <2>2 DEF Working, Owes
    <3> QED
      BY <3>1, <3>2 DEF IInv, GatewayFollowsRow
  <2>3. CASE r = rt[p] /\ p \notin alone
    BY <2>3 DEF IInv, TypeOK, Aspects
  <2>4. CASE r = rt[p] /\ p \in alone
    <3>1. trouble'[r] = trouble[r] \ Repaired(p)
      BY <2>4 DEF IInv, TypeOK
    <3>2. Working(r, "gateway") => Working(r, "gateway")'
      BY <2>1, <2>4 DEF IInv, Flow, Working, Owes
    <3>3. op[p] \in {"update", "sync", "secret"}
      BY DEF IInv, TypeOK, Flow, AllOps
    <3>4. "gateway" \in Repaired(p) => (gateway[r] = rows[r].model /\ env[r] = rows[r].model)
      BY <2>4, <3>3 DEF IInv, Flow, GatewayMade, RowLoaded, Repaired
    <3> QED
      BY <3>1, <3>2, <3>4 DEF IInv, GatewayFollowsRow
  <2> QED
    BY <2>2, <2>3, <2>4
<1> QED
  BY <1>1, <1>2, <1>3, <1>4, <1>5, <1>6, <1>7, <1>8, <1>9
  DEF IInv

\* A transaction begins.
LEMMA EnterStep ==
    ASSUME NEW p \in Procs, IInv, Enter(p)
    PROVE  IInv'
<1> USE LimitsAssumption DEF Enter, Goto, dbVars, procVars, histVars, Inside,
      Provision
<1>1. TypeOK'
  BY DEF IInv, TypeOK, AllOps, Aspects, Flow
<1>2. Flow'
  BY DEF IInv, Flow, TypeOK
<1>3. ViewKept'
  BY DEF IInv, ViewKept, TypeOK
<1>4. Exclusive'
  BY DEF IInv, Exclusive, TypeOK, Flow, Writers
<1>5. RowLoaded'
  BY DEF IInv, RowLoaded, TypeOK, Flow, Exclusive, Writers, Row
<1>6. KeyMade'
  BY DEF IInv, KeyMade, TypeOK, Flow, Exclusive, KeyGood, Writers, RowLoaded
<1>7. GatewayMade'
  BY DEF IInv, GatewayMade, TypeOK, Flow, Exclusive, Writers
<1>8. KeyFollows'
  BY DEF IInv, KeyFollows, TypeOK, Flow, Exclusive, KeyGood, Working, Owes,
      Aspects, Writers
<1>9. GatewayFollowsRow'
  BY DEF IInv, GatewayFollowsRow, TypeOK, Flow, Exclusive, Working, Owes,
      Aspects, Writers
<1> QED
  BY <1>1, <1>2, <1>3, <1>4, <1>5, <1>6, <1>7, <1>8, <1>9
  DEF IInv

\* A transaction writes the row.
LEMMA WriteStep ==
    ASSUME NEW p \in Procs, IInv, Write(p)
    PROVE  IInv'
<1> USE LimitsAssumption DEF Write, Goto, dbVars, procVars, histVars, Inside,
      Provision
<1>1. TypeOK'
  BY DEF IInv, TypeOK, AllOps, Aspects, Flow
<1>2. Flow'
  BY DEF IInv, Flow, TypeOK
<1>3. ViewKept'
  BY DEF IInv, ViewKept, TypeOK
<1>4. Exclusive'
  BY DEF IInv, Exclusive, TypeOK, Flow, Writers
<1>5. RowLoaded'
  BY DEF IInv, RowLoaded, TypeOK, Flow, Exclusive, Writers, Row
<1>6. KeyMade'
  BY DEF IInv, KeyMade, TypeOK, Flow, Exclusive, KeyGood, Writers, RowLoaded
<1>7. GatewayMade'
  BY DEF IInv, GatewayMade, TypeOK, Flow, Exclusive, Writers
<1>8. KeyFollows'
  BY DEF IInv, KeyFollows, TypeOK, Flow, Exclusive, KeyGood, Working, Owes,
      Aspects, Writers
<1>9. GatewayFollowsRow'
  BY DEF IInv, GatewayFollowsRow, TypeOK, Flow, Exclusive, Working, Owes,
      Aspects, Writers
<1> QED
  BY <1>1, <1>2, <1>3, <1>4, <1>5, <1>6, <1>7, <1>8, <1>9
  DEF IInv

\* The old key is deleted, or is not.
LEMMA DropStep ==
    ASSUME NEW p \in Procs, IInv, Drop(p)
    PROVE  IInv'
<1> USE LimitsAssumption DEF Drop, Goto, dbVars, procVars, histVars, Inside,
      Provision
<1>1. TypeOK'
  BY DEF IInv, TypeOK, AllOps, Aspects, Flow
<1>2. Flow'
  BY DEF IInv, Flow, TypeOK
<1>3. ViewKept'
  BY DEF IInv, ViewKept, TypeOK
<1>4. Exclusive'
  BY DEF IInv, Exclusive, TypeOK, Flow, Writers
<1>5. RowLoaded'
  BY DEF IInv, RowLoaded, TypeOK, Flow, Exclusive, Writers, Row
<1>6. KeyMade'
  BY DEF IInv, KeyMade, TypeOK, Flow, Exclusive, KeyGood, Writers, RowLoaded
<1>7. GatewayMade'
  BY DEF IInv, GatewayMade, TypeOK, Flow, Exclusive, Writers
<1>8. KeyFollows'
  BY DEF IInv, KeyFollows, TypeOK, Flow, Exclusive, KeyGood, Working, Owes,
      Aspects, Writers
<1>9. GatewayFollowsRow'
  BY DEF IInv, GatewayFollowsRow, TypeOK, Flow, Exclusive, Working, Owes,
      Aspects, Writers
<1> QED
  BY <1>1, <1>2, <1>3, <1>4, <1>5, <1>6, <1>7, <1>8, <1>9
  DEF IInv

\* The new key has the limits of the row.
LEMMA StoreStep ==
    ASSUME NEW p \in Procs, IInv, Store(p)
    PROVE  IInv'
<1> USE LimitsAssumption DEF Store, Goto, dbVars, procVars, histVars, Inside,
      Provision
<1>1. TypeOK'
  BY DEF IInv, TypeOK, AllOps, Aspects, Flow, Row
<1>2. Flow'
  BY DEF IInv, Flow, TypeOK
<1>3. ViewKept'
  BY DEF IInv, ViewKept, TypeOK
<1>4. Exclusive'
  BY DEF IInv, Exclusive, TypeOK, Flow, Writers
<1>5. RowLoaded'
  BY DEF IInv, RowLoaded, TypeOK, Flow, Exclusive, Writers, Row
<1>6. KeyMade'
  BY DEF IInv, KeyMade, TypeOK, Flow, Exclusive, KeyGood, Writers, RowLoaded,
      ViewKept
<1>7. GatewayMade'
  BY DEF IInv, GatewayMade, TypeOK, Flow, Exclusive, Writers
<1>8. KeyFollows'
  BY DEF IInv, KeyFollows, TypeOK, Flow, Exclusive, KeyGood, Working, Owes,
      Aspects, Writers
<1>9. GatewayFollowsRow'
  BY DEF IInv, GatewayFollowsRow, TypeOK, Flow, Exclusive, Working, Owes,
      Aspects, Writers
<1> QED
  BY <1>1, <1>2, <1>3, <1>4, <1>5, <1>6, <1>7, <1>8, <1>9
  DEF IInv

\* A provisioning ends well, with its row, its key and its gateway.
LEMMA CommitStep ==
    ASSUME NEW p \in Procs, IInv, Commit(p)
    PROVE  IInv'
<1> USE LimitsAssumption DEF Commit, Over, Repaired, Goto, dbVars, procVars,
      histVars, Inside, Provision
<1>1. TypeOK'
  BY DEF IInv, TypeOK, AllOps, Aspects, Flow
<1>2. Flow'
  BY DEF IInv, Flow, TypeOK
<1>3. ViewKept'
  BY DEF IInv, ViewKept, TypeOK
<1>4. Exclusive'
  BY DEF IInv, Exclusive, TypeOK, Flow, Writers
<1>5. RowLoaded'
  BY DEF IInv, RowLoaded, TypeOK, Flow, Exclusive, Writers, Row, ViewKept
<1>6. KeyMade'
  BY DEF IInv, KeyMade, TypeOK, Flow, Exclusive, KeyGood, Writers, RowLoaded,
      ViewKept
<1>7. GatewayMade'
  BY DEF IInv, GatewayMade, TypeOK, Flow, Exclusive, Writers
<1>8. KeyFollows'
  BY DEF IInv, KeyFollows, TypeOK, Flow, Exclusive, KeyGood, Working, Owes,
      Aspects, Writers, KeyMade, ViewKept
<1>9. GatewayFollowsRow'
  BY DEF IInv, GatewayFollowsRow, TypeOK, Flow, Exclusive, Working, Owes,
      Aspects, Writers, GatewayMade, ViewKept
<1> QED
  BY <1>1, <1>2, <1>3, <1>4, <1>5, <1>6, <1>7, <1>8, <1>9
  DEF IInv

\* An operation breaks off; what it owes is left apart.
LEMMA FailStep ==
    ASSUME NEW p \in Procs, IInv, Fail(p)
    PROVE  IInv'
<1> USE LimitsAssumption DEF Fail, Break, Over, Goto, dbVars, procVars,
      histVars, Inside, Provision
<1>1. TypeOK'
  BY DEF IInv, TypeOK, AllOps, Aspects, Flow
<1>2. Flow'
  BY DEF IInv, Flow, TypeOK
<1>3. ViewKept'
  BY DEF IInv, ViewKept, TypeOK
<1>4. Exclusive'
  BY DEF IInv, Exclusive, TypeOK, Flow, Writers
<1>5. RowLoaded'
  BY DEF IInv, RowLoaded, TypeOK, Flow, Exclusive, Writers, Row
<1>6. KeyMade'
  BY DEF IInv, KeyMade, TypeOK, Flow, Exclusive, KeyGood, Writers, RowLoaded
<1>7. GatewayMade'
  BY DEF IInv, GatewayMade, TypeOK, Flow, Exclusive, Writers
<1>8. KeyFollows'
  BY DEF IInv, KeyFollows, TypeOK, Flow, Exclusive, KeyGood, Working, Owes,
      Aspects, Writers
<1>9. GatewayFollowsRow'
  BY DEF IInv, GatewayFollowsRow, TypeOK, Flow, Exclusive, Working, Owes,
      Aspects, Writers
<1> QED
  BY <1>1, <1>2, <1>3, <1>4, <1>5, <1>6, <1>7, <1>8, <1>9
  DEF IInv

\* An operation breaks off when its limits have been taken.
LEMMA ApplyUnansweredStep ==
    ASSUME NEW p \in Procs, IInv, ApplyUnanswered(p)
    PROVE  IInv'
<1> USE LimitsAssumption DEF ApplyUnanswered, Break, Over, Push, Enforce,
      Goto, dbVars, procVars, histVars, Inside, Provision
<1>1. TypeOK'
  BY DEF IInv, TypeOK, AllOps, Aspects, Flow, Row
<1>2. Flow'
  BY DEF IInv, Flow, TypeOK
<1>3. ViewKept'
  BY DEF IInv, ViewKept, TypeOK
<1>4. Exclusive'
  BY DEF IInv, Exclusive, TypeOK, Flow, Writers
<1>5. RowLoaded'
  BY DEF IInv, RowLoaded, TypeOK, Flow, Exclusive, Writers, Row
<1>6. KeyMade'
  BY DEF IInv, KeyMade, TypeOK, Flow, Exclusive, KeyGood, Writers, RowLoaded,
      Row
<1>7. GatewayMade'
  BY DEF IInv, GatewayMade, TypeOK, Flow, Exclusive, Writers
<1>8. KeyFollows'
  BY DEF IInv, KeyFollows, TypeOK, Flow, Exclusive, KeyGood, Working, Owes,
      Aspects, Writers, RowLoaded, KeyMade, Row
<1>9. GatewayFollowsRow'
  BY DEF IInv, GatewayFollowsRow, TypeOK, Flow, Exclusive, Working, Owes,
      Aspects, Writers
<1> QED
  BY <1>1, <1>2, <1>3, <1>4, <1>5, <1>6, <1>7, <1>8, <1>9
  DEF IInv

\* The gateway is created anew with the model of the env file.
LEMMA RecreateStep ==
    ASSUME NEW r \in Runtimes, IInv, Recreate(r)
    PROVE  IInv'
<1> USE LimitsAssumption DEF Recreate, Goto, dbVars, procVars, histVars,
      Inside, Provision
<1>1. TypeOK'
  BY DEF IInv, TypeOK, AllOps, Aspects, Flow
<1>2. Flow'
  BY DEF IInv, Flow, TypeOK
<1>3. ViewKept'
  BY DEF IInv, ViewKept, TypeOK
<1>4. Exclusive'
  BY DEF IInv, Exclusive, TypeOK, Flow, Writers
<1>5. RowLoaded'
  BY DEF IInv, RowLoaded, TypeOK, Flow, Exclusive, Writers, Row
<1>6. KeyMade'
  BY DEF IInv, KeyMade, TypeOK, Flow, Exclusive, KeyGood, Writers, RowLoaded
<1>7. GatewayMade'
  BY DEF IInv, GatewayMade, TypeOK, Flow, Exclusive, Writers
<1>8. KeyFollows'
  BY DEF IInv, KeyFollows, TypeOK, Flow, Exclusive, KeyGood, Working, Owes,
      Aspects, Writers
<1>9. GatewayFollowsRow'
  BY DEF IInv, GatewayFollowsRow, TypeOK, Flow, Exclusive, Working, Owes,
      Aspects, Writers
<1> QED
  BY <1>1, <1>2, <1>3, <1>4, <1>5, <1>6, <1>7, <1>8, <1>9
  DEF IInv

-----------------------------------------------------------------------------
(***************************************************************************)
(* The invariant and the theorems                                          *)
(***************************************************************************)

\* Runtimes as they have been provisioned satisfy the invariant.
LEMMA InitIInv == Init => IInv
<1> SUFFICES ASSUME Init PROVE IInv
  OBVIOUS
<1> USE LimitsAssumption DEF Init
<1>1. TypeOK
  BY DEF TypeOK, Row, Inside, Provision, AllOps, Aspects
<1>2. Flow /\ ViewKept /\ Exclusive
  BY DEF Flow, ViewKept, Exclusive
<1>3. RowLoaded /\ KeyMade /\ GatewayMade
  BY DEF RowLoaded, KeyMade, GatewayMade
<1>4. KeyFollows
  <2>1. \A r \in Runtimes : rows[r] \in Row /\ key[r] = rows[r]
    OBVIOUS
  <2> QED
    BY <2>1 DEF KeyFollows, KeyGood
<1>5. GatewayFollowsRow
  BY DEF GatewayFollowsRow
<1> QED
  BY <1>1, <1>2, <1>3, <1>4, <1>5 DEF IInv

\* A step that changes nothing keeps the invariant.
LEMMA StutterStep == IInv /\ UNCHANGED vars => IInv'
<1> SUFFICES ASSUME IInv, UNCHANGED vars PROVE IInv'
  OBVIOUS
<1> USE DEF vars, dbVars, procVars, histVars
<1>1. (TypeOK /\ Flow /\ ViewKept /\ Exclusive)'
  BY DEF IInv, TypeOK, Flow, ViewKept, Exclusive, Inside
<1>2. (RowLoaded /\ KeyMade /\ GatewayMade)'
  BY DEF IInv, RowLoaded, KeyMade, GatewayMade, KeyGood
<1>3. (KeyFollows /\ GatewayFollowsRow)'
  BY DEF IInv, KeyFollows, GatewayFollowsRow, KeyGood, Working, Owes
<1> QED
  BY <1>1, <1>2, <1>3 DEF IInv

\* Every step keeps the invariant.
LEMMA NextIInv == IInv /\ [Next]_vars => IInv'
<1> SUFFICES ASSUME IInv, [Next]_vars PROVE IInv'
  OBVIOUS
<1>1. ASSUME NEW p \in Procs, NEW o \in Ops, NEW r \in Runtimes, Request(p, o, r)
      PROVE  IInv'
  BY <1>1, RequestStep
<1>2. ASSUME NEW p \in Procs,
             \/ LoadUpdate(p) \/ Load(p) \/ LoadCreate(p) \/ Save(p) \/ Lookup(p)
             \/ Apply(p) \/ Touch(p) \/ WriteEnv(p) \/ Up(p) \/ Log(p) \/ Enter(p)
             \/ Write(p) \/ Drop(p) \/ Store(p) \/ Commit(p) \/ Fail(p)
             \/ ApplyUnanswered(p)
      PROVE  IInv'
  BY <1>2, LoadUpdateStep, LoadStep, LoadCreateStep, SaveStep, LookupStep, ApplyStep,
     TouchStep, WriteEnvStep, UpStep, LogStep, EnterStep, WriteStep, DropStep, StoreStep,
     CommitStep, FailStep, ApplyUnansweredStep
<1>3. ASSUME NEW r \in Runtimes, Recreate(r)
      PROVE  IInv'
  BY <1>3, RecreateStep
<1>4. CASE UNCHANGED vars
  BY <1>4, StutterStep
<1> QED
  BY <1>1, <1>2, <1>3, <1>4 DEF Next, Request

\* The invariant holds in every reachable state.
THEOREM Invariance == Spec => []IInv
BY InitIInv, NextIInv, PTL DEF Spec

\* LiteLLM enforces what the row says, except while an operation is about to
\* change it and after one that broke off or had a rival.
THEOREM KeysFollow == Spec => []KeyFollowsRow
<1>1. IInv => KeyFollowsRow
  BY DEF IInv, KeyFollows, KeyGood, KeyFollowsRow
<1> QED
  BY <1>1, Invariance, PTL

\* The gateway runs with the model of the row, under the same exceptions.
THEOREM GatewaysFollow == Spec => []GatewayFollowsRow
<1>1. IInv => GatewayFollowsRow
  BY DEF IInv
<1> QED
  BY <1>1, Invariance, PTL

-----------------------------------------------------------------------------
(***************************************************************************)
(* Undisturbed operation                                                   *)
(*                                                                         *)
(* The properties name what may have left a runtime's copies apart.        *)
(* Without such an accident they agree wherever nobody is at work, however *)
(* many operations there are on other runtimes, and however many that only *)
(* read the row on the same one.                                           *)
(***************************************************************************)

\* p has taken nothing apart yet, or has brought it together.
OwesNothing(p) == \A aspect \in Aspects : ~ Owes(p, aspect)

\* No operation has a rival, and none breaks off while it owes something.
CalmNext ==
    \/ \E p \in Procs :
          \/ \E o \in Ops, r \in Runtimes : Request(p, o, r) /\ Rivals(o, r) = {}
          \/ LoadUpdate(p) \/ Load(p) \/ LoadCreate(p)
          \/ Save(p) \/ Lookup(p) \/ Apply(p) \/ Touch(p)
          \/ WriteEnv(p) \/ Up(p) \/ Log(p)
          \/ Enter(p) \/ Write(p) \/ Drop(p) \/ Store(p) \/ Commit(p)
          \/ OwesNothing(p) /\ (Fail(p) \/ ApplyUnanswered(p))
    \/ \E r \in Runtimes : Recreate(r)

Undisturbed == Init /\ [][CalmNext]_vars

\* LiteLLM, env file and gateway follow the row of every runtime that nobody is
\* at.
AtRest ==
    \A r \in Runtimes :
        (\A p \in Procs : rt[p] # r) =>
            KeyGood(r) /\ gateway[r] = rows[r].model /\ env[r] = rows[r].model

\* There are no rivals and there is no trouble.
Calm ==
    /\ \A p \in Procs : pc[p] # "idle" => p \in alone
    /\ \A r \in Runtimes : trouble[r] = {}

\* Every step of undisturbed operation is one of the specification.
LEMMA CalmIsNext == CalmNext => Next
BY DEF CalmNext, Next

\* An operation that is over leaves no trouble when it owes nothing.
LEMMA OverCalm ==
    ASSUME NEW p \in Procs, NEW left, Over(p, left), left = {}, pc[p] # "idle", TypeOK, Calm
    PROVE  Calm'
<1>1. p \in alone /\ rt[p] \in Runtimes
  BY DEF Calm, TypeOK
<1>2. trouble' = [trouble EXCEPT ![rt[p]] = {}]
  BY <1>1 DEF Over
<1> QED
  BY <1>1, <1>2 DEF Calm, Over, Goto, TypeOK

\* Every step of undisturbed operation keeps it so.
LEMMA CalmStep == IInv /\ Calm /\ [CalmNext]_vars => Calm'
<1> SUFFICES ASSUME IInv, Calm, [CalmNext]_vars PROVE Calm'
  OBVIOUS
<1>1. TypeOK
  BY DEF IInv
<1>2. ASSUME NEW p \in Procs, NEW o \in Ops, NEW r \in Runtimes,
             Request(p, o, r), Rivals(o, r) = {}
      PROVE  Calm'
  BY <1>1, <1>2 DEF Calm, TypeOK, Request, Goto
<1>3. ASSUME NEW p \in Procs,
             \/ LoadUpdate(p) \/ Load(p) \/ LoadCreate(p)
             \/ Save(p) \/ Lookup(p) \/ Apply(p) \/ Touch(p) \/ WriteEnv(p) \/ Up(p)
             \/ Enter(p) \/ Write(p) \/ Drop(p) \/ Store(p)
      PROVE  Calm'
  <2>1. pc[p] # "idle" /\ alone' = alone /\ trouble' = trouble
        /\ \A q \in Procs \ {p} : pc'[q] = pc[q]
    BY <1>1, <1>3 DEF TypeOK, LoadUpdate, Load, LoadCreate, Save, Lookup, Apply, Touch,
        WriteEnv, Up, Enter, Write, Drop, Store, Goto, histVars
  <2> QED
    BY <2>1 DEF Calm
<1>4. ASSUME NEW p \in Procs, Log(p) \/ Commit(p) PROVE Calm'
  <2>1. trouble[rt[p]] = {} /\ pc[p] # "idle"
    BY <1>1, <1>4 DEF Calm, TypeOK, Log, Commit
  <2>2. Over(p, trouble[rt[p]] \ Repaired(p))
    BY <1>4 DEF Log, Commit
  <2> QED
    BY <1>1, <2>1, <2>2, OverCalm
<1>5. ASSUME NEW p \in Procs, OwesNothing(p), Fail(p) \/ ApplyUnanswered(p) PROVE Calm'
  <2>1. trouble[rt[p]] = {} /\ pc[p] # "idle"
    BY <1>1, <1>5 DEF Calm, TypeOK, Fail, ApplyUnanswered
  <2>2. Over(p, trouble[rt[p]] \cup {aspect \in Aspects : Owes(p, aspect)})
    BY <1>5 DEF Fail, ApplyUnanswered, Break
  <2>3. {aspect \in Aspects : Owes(p, aspect)} = {}
    BY <1>5 DEF OwesNothing
  <2> QED
    BY <1>1, <2>1, <2>2, <2>3, OverCalm
<1>6. ASSUME NEW r \in Runtimes, Recreate(r) PROVE Calm'
  BY <1>6 DEF Calm, Recreate, procVars, histVars
<1>7. CASE UNCHANGED vars
  BY <1>7 DEF Calm, vars, procVars, histVars
<1> QED
  BY <1>2, <1>3, <1>4, <1>5, <1>6, <1>7 DEF CalmNext

\* While no operation has a rival, and none breaks off between a write and what
\* has to follow it, LiteLLM, env file and gateway follow the row of every
\* runtime that nobody is at: the exceptions of KeyFollowsRow and
\* GatewayFollowsRow all have an accident for a cause.
THEOREM UndisturbedAgrees == Undisturbed => []AtRest
<1>1. Init => Calm
  BY DEF Init, Calm
<1>2. IInv /\ Calm => AtRest
  <2> SUFFICES ASSUME IInv, Calm, NEW r \in Runtimes, \A p \in Procs : rt[p] # r
               PROVE  KeyGood(r) /\ gateway[r] = rows[r].model /\ env[r] = rows[r].model
    BY DEF AtRest
  <2>1. trouble[r] = {} /\ ~ Working(r, "key") /\ ~ Working(r, "gateway")
    BY DEF Calm, Working
  <2> QED
    BY <2>1 DEF IInv, KeyFollows, GatewayFollowsRow
<1>3. [CalmNext]_vars => [Next]_vars
  BY CalmIsNext
<1> QED
  BY InitIInv, NextIInv, CalmStep, <1>1, <1>2, <1>3, PTL DEF Undisturbed

=============================================================================

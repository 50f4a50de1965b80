--------------------------- MODULE AgentLaunchProofs ---------------------------
(***************************************************************************)
(* The invariants of AgentLaunch and, at the end, of AgentSpecs, which is  *)
(* about the same agents, proved for any number of requests, agents,       *)
(* deployments, skills and ports.                                          *)
(*                                                                         *)
(* What those of AgentLaunch need beside themselves: where each kind of    *)
(* operation can be (Flow) and that it has a deployment there (Placed);    *)
(* that a look-up has every runtime behind it or before it (Looking), as   *)
(* it is, while the runtime has no agent (ReadTrue); that an operation     *)
(* without a rival meets its like only (Exclusive), what such a launch and *)
(* such a stop have reached (LaunchKnown, StopKnown), and that a current   *)
(* deployment without a runtime is that of a launch in progress, or known  *)
(* to be trouble (RefKnown).                                               *)
(***************************************************************************)
EXTENDS AgentLaunch, AgentSpecs, FiniteSetTheorems, WellFoundedInduction, TLAPS

\* Which operation is where.
Flow ==
    \A p \in Procs :
        /\ pc[p] = "idle" <=> ag[p] = NoAgent
        /\ pc[p] = "idle" => op[p] = "get" /\ p \notin alone
        /\ pc[p] = "draft" => op[p] = "draft"
        /\ pc[p] \in {"backfill", "load"} => op[p] \in {"launch", "stop", "get"}
        /\ pc[p] \in {"deploy", "mark", "enter", "provision"} => op[p] = "launch"
        /\ pc[p] \in {"halt", "save_runtime"} => op[p] = "stop"
        /\ pc[p] \in {"save_deployment", "save_agent"} => op[p] \in {"launch", "stop"}
        /\ writer = p <=> pc[p] = "provision"

\* An operation past its look-up has an agent, and a deployment once it has
\* made or loaded one; two launches have two.
Placed ==
    /\ current \in [Agents -> Nat]
    /\ \A a \in Agents : status[a] \notin {"none", "draft"} => current[a] # 0
    /\ \A p \in Procs :
          /\ pc[p] \notin {"idle", "draft", "backfill", "load"} => status[ag[p]] # "none"
          /\ pc[p] \notin {"idle", "draft", "backfill", "load", "deploy"} =>
                 dep[p] \in 1 .. Len(deployments[ag[p]])
          /\ pc[p] \in {"enter", "provision", "halt", "save_runtime",
                        "save_deployment", "save_agent"} =>
                 current[ag[p]] # 0
    /\ \A p, q \in Procs :
          /\ pc[p] \in {"mark", "enter", "provision", "save_deployment", "save_agent"}
          /\ pc[q] \in {"mark", "enter", "provision", "save_deployment", "save_agent"}
          /\ op[p] = "launch" /\ op[q] = "launch" /\ ag[p] = ag[q] /\ dep[p] = dep[q]
          => p = q

\* A runtime that was there when the look-up began has an agent, or is still
\* to get one.
Looking ==
    \A p \in Procs :
        /\ todo[p] # {} => pc[p] = "backfill"
        /\ \A r \in todo[p] : read[p][r] # "none"
        /\ pc[p] \in {"backfill", "load"} =>
               \A r \in Agents : read[p][r] # "none" => status[r] # "none" \/ r \in todo[p]

\* What has been read of a runtime without an agent is still so, and true.
ReadTrue ==
    \A r \in Agents : status[r] = "none" =>
        /\ runtime[r] = "running" => r \in up
        /\ runtime[r] = "stopped" => r \notin up
        /\ r \notin trouble => \A p \in Procs : r \in todo[p] => read[p][r] = runtime[r]

\* An operation without a rival shares its agent with such operations of its
\* kind only.
Exclusive ==
    \A p, q \in Procs :
        /\ p \in alone /\ q # p /\ ag[q] = ag[p]
        /\ {op[p], op[q]} \subseteq {"launch", "stop"}
        => q \in alone /\ op[q] = op[p]

\* What a launch without a rival has reached.
LaunchKnown ==
    \A p \in alone : op[p] = "launch" =>
        /\ pc[p] \in {"save_deployment", "save_agent"} => ag[p] \in up
        /\ pc[p] = "save_agent" =>
               deployments[ag[p]][dep[p]] = [status |-> "running", ref |-> TRUE]

\* What a stop without a rival has loaded is current, and the container of a
\* deployment with a runtime is down once it has halted it.
StopKnown ==
    \A p \in alone :
        op[p] = "stop" /\ pc[p] \in {"halt", "save_runtime", "save_deployment", "save_agent"} =>
            /\ current[ag[p]] = dep[p]
            /\ deployments[ag[p]][dep[p]].ref = ref[p]
            /\ ~ref[p] => ag[p] \in trouble
            /\ ref[p] /\ pc[p] # "halt" => ag[p] \notin up

\* The launch p has marked its agent and is still at work.
Launching(p) ==
    /\ op[p] = "launch"
    /\ pc[p] \in {"enter", "provision", "save_deployment", "save_agent"}

\* Where there is no trouble, a current deployment without a runtime is that of
\* a launch in progress.
RefKnown ==
    \A a \in Agents \ trouble :
        \/ \E p \in Procs : ag[p] = a /\ Launching(p)
        \/ current[a] # 0 => deployments[a][current[a]].ref

\* Working, without the look-ups and drafts.
Busy(a) ==
    \E p \in Procs :
        /\ ag[p] = a /\ op[p] \in {"launch", "stop"}
        /\ p \notin alone \/ Begun(p)

\* What AgentTruthful says beside the types, without excuse for look-ups.
Truthful ==
    \A a \in Agents \ trouble :
        \/ Busy(a)
        \/ /\ status[a] = "running" =>
                 a \in up /\ deployments[a][current[a]] = [status |-> "running", ref |-> TRUE]
           /\ status[a] = "stopped" => a \notin up
           /\ status[a] # "launching"

\* The inductive invariant.
IInv ==
    /\ TypeOK /\ Flow /\ Placed /\ Looking /\ ReadTrue
    /\ Exclusive /\ LaunchKnown /\ StopKnown /\ RefKnown
    /\ Truthful

-----------------------------------------------------------------------------
(***************************************************************************)
(* Every step keeps the invariant                                          *)
(***************************************************************************)

\* The types of the rows and of what the operations share.
RowType ==
    /\ status \in [Agents -> {"none", "draft", "ready", "launching", "running", "stopped"}]
    /\ deployments \in [Agents -> Seq(Deployment)]
    /\ \A a \in Agents :
          /\ Len(deployments[a]) <= MaxDeployments
          /\ current[a] \in 0 .. Len(deployments[a])
    /\ runtime \in [Agents -> Lifecycle \cup {"none"}]
    /\ up \subseteq Agents
    /\ writer \in Procs \cup {NoProc}

\* An operation that is over has the types it began with.
LEMMA OverType ==
    ASSUME TypeOK, NEW p \in Procs, NEW bad \in BOOLEAN, Over(p, bad), RowType',
           ag[p] \in Agents
    PROVE  TypeOK'
<1> USE LaunchAssumption DEF TypeOK, Over, Goto
<1>1. NothingRead \in [Agents -> Lifecycle \cup {"none"}]
  BY DEF NothingRead
<1>2. read' \in [Procs -> [Agents -> Lifecycle \cup {"none"}]]
  BY <1>1
<1>3. trouble' \subseteq Agents /\ alone' \subseteq Procs
  OBVIOUS
<1>4. /\ op' \in [Procs -> AllOps] /\ ag' \in [Procs -> Agents \cup {NoAgent}]
      /\ dep' \in [Procs -> 0 .. MaxDeployments] /\ ref' \in [Procs -> BOOLEAN]
      /\ todo' \in [Procs -> SUBSET Agents]
  BY DEF AllOps
<1>5. pc' \in [Procs -> {"idle", "draft", "backfill", "load", "deploy", "mark",
                         "enter", "provision", "halt", "save_runtime",
                         "save_deployment", "save_agent"}]
  OBVIOUS
<1> QED
  BY <1>2, <1>3, <1>4, <1>5 DEF RowType

\* An operation begins; those that have it for a rival are no longer alone.
LEMMA RequestStep ==
    ASSUME NEW p \in Procs, NEW o \in Ops, NEW a \in Agents, IInv, Request(p, o, a)
    PROVE  IInv'
<1> USE LaunchAssumption DEF Request, Goto, Unlocked, rowVars, procVars
<1>a. /\ pc[p] = "idle" /\ ag[p] = NoAgent /\ todo[p] = {} /\ a # NoAgent
      /\ \A q \in Procs \ {p} : pc'[q] = pc[q] /\ op'[q] = op[q] /\ ag'[q] = ag[q]
      /\ \A q \in Procs \ {p} : read'[q] = read[q] /\ todo'[q] = todo[q]
      /\ op'[p] = o /\ ag'[p] = a
      /\ pc'[p] = IF o = "draft" THEN "draft" ELSE "backfill"
      /\ o = "draft" => todo'[p] = {}
      /\ o # "draft" => read'[p] = runtime
      /\ o # "draft" => \A r \in Agents : r \in todo'[p] <=> runtime[r] # "none"
  <2>1. /\ pc[p] = "idle" /\ ag[p] = NoAgent /\ todo[p] = {} /\ a # NoAgent
    BY DEF IInv, Flow, Looking
  <2>2. CASE o = "draft"
    BY <2>1, <2>2 DEF IInv, TypeOK
  <2>3. CASE o # "draft"
    BY <2>1, <2>3 DEF IInv, TypeOK
  <2> QED
    BY <2>1, <2>2, <2>3
<1>b. /\ status' = status /\ current' = current /\ deployments' = deployments
      /\ runtime' = runtime /\ up' = up /\ writer' = writer
      /\ dep' = dep /\ ref' = ref /\ trouble' = trouble
  OBVIOUS
<1>c. o \in AllOps
  OBVIOUS
<1>d. alone' = IF Rivals(o, a) = {} THEN alone \cup {p} ELSE alone \ Rivals(o, a)
  OBVIOUS
<1>e. p \notin alone /\ \A q \in alone' : q # p => q \in alone
  BY <1>d DEF IInv, Flow
<1>f. alone' \subseteq Procs
  BY <1>d DEF IInv, TypeOK
<1>g. pc' \in [Procs -> {"idle", "draft", "backfill", "load", "deploy", "mark",
                         "enter", "provision", "halt", "save_runtime",
                         "save_deployment", "save_agent"}]
  <2>1. pc' = [pc EXCEPT ![p] = "draft"] \/ pc' = [pc EXCEPT ![p] = "backfill"]
    OBVIOUS
  <2> HIDE DEF Request, Rivals
  <2> QED
    BY <2>1 DEF IInv, TypeOK
<1>h. op' \in [Procs -> AllOps] /\ ag' \in [Procs -> Agents \cup {NoAgent}]
  BY <1>c DEF IInv, TypeOK
<1>i. read' \in [Procs -> [Agents -> Lifecycle \cup {"none"}]]
  BY DEF IInv, TypeOK
<1>j. todo' \in [Procs -> SUBSET Agents]
  <2>1. {r \in Agents : runtime[r] # "none"} \in SUBSET Agents
    OBVIOUS
  <2> QED
    BY <2>1, ZenonT(40) DEF IInv, TypeOK
<1> HIDE DEF Request, Rivals
<1>1. TypeOK'
  BY <1>b, <1>f, <1>g, <1>h, <1>i, <1>j DEF IInv, TypeOK
<1>2. Flow'
  BY <1>a, <1>b, <1>c, <1>e DEF IInv, Flow, TypeOK, AllOps
<1>3. Placed'
  BY <1>a, <1>b DEF IInv, Placed
<1>4. Looking'
  BY <1>a, <1>b, <1>j DEF IInv, Looking
<1>5. ReadTrue'
  BY <1>a, <1>b DEF IInv, ReadTrue
<1>6. Exclusive'
  <2>1. CASE Rivals(o, a) = {}
    BY <1>a, <1>d, <2>1 DEF Rivals, IInv, Exclusive, TypeOK, Flow
  <2>2. CASE Rivals(o, a) # {}
    <3>1. p \notin alone'
      BY <1>d, <1>e, <2>2
    <3>2. \A q \in alone' : q \in alone /\ q \notin Rivals(o, a)
      BY <1>d, <2>2
    <3>3. \A q \in alone, s \in Procs :
              /\ q # s /\ ag[q] = ag[s] /\ {op[q], op[s]} \subseteq {"launch", "stop"}
              => s \in alone /\ op[s] = op[q]
      BY DEF IInv, Exclusive, TypeOK
    <3>4. ASSUME NEW q \in Procs, q \in alone', ag[q] = a, {o, op[q]} \subseteq {"launch", "stop"}
          PROVE  o = op[q]
      BY <3>2, <3>4 DEF Rivals
    <3>5. \A q, s \in Procs : 
             /\ q \in alone' /\ s # q /\ s # p /\ ag[q] = ag[s] /\ {op[q], op[s]} \subseteq {"launch", "stop"}
             => s \in alone'
      <4> SUFFICES ASSUME NEW q \in Procs, NEW s \in Procs, q \in alone', s # q, s # p, ag[q] = ag[s],
                          {op[q], op[s]} \subseteq {"launch", "stop"}
                   PROVE  s \in alone'
        OBVIOUS
      <4> QED
        BY <1>d, <2>2, <3>2, <3>3 DEF Rivals
    <3> QED
      <4> SUFFICES ASSUME NEW q \in Procs, NEW s \in Procs, q \in alone', s # q,
                          ag'[s] = ag'[q], {op'[q], op'[s]} \subseteq {"launch", "stop"}
                   PROVE  s \in alone' /\ op'[s] = op'[q]
        BY DEF Exclusive
      <4>1. q # p /\ q \in alone
        BY <3>1, <3>2
      <4>2. s # p
        <5> SUFFICES ASSUME s = p PROVE FALSE
          OBVIOUS
        <5>1. ag[q] = a /\ op[q] = o
          BY <1>a, <3>4, <4>1
        <5>2. PICK t \in Procs : t \in Rivals(o, a)
          BY <2>2 DEF Rivals
        <5> QED
          BY <3>2, <3>3, <4>1, <5>1, <5>2 DEF Rivals
      <4> QED
        BY <1>a, <3>3, <3>5, <4>1, <4>2
  <2> QED
    BY <2>1, <2>2
<1>7. LaunchKnown'
  BY <1>a, <1>b, <1>e, <1>f DEF IInv, LaunchKnown
<1>8. StopKnown'
  BY <1>a, <1>b, <1>e, <1>f DEF IInv, StopKnown
<1>9. RefKnown'
  BY <1>a, <1>b DEF IInv, RefKnown, Launching
<1>10. Truthful'
  BY <1>a, <1>b, <1>e DEF IInv, Truthful, Busy, Begun
<1> QED
  BY <1>1, <1>2, <1>3, <1>4, <1>5, <1>6, <1>7, <1>8, <1>9, <1>10
  DEF IInv

\* An agent is drafted.
LEMMA DraftStep ==
    ASSUME NEW p \in Procs, IInv, Draft(p)
    PROVE  IInv'
<1> USE LaunchAssumption DEF Draft, Over, NothingRead, Goto, Unlocked,
      rowVars, procVars
<1>1. TypeOK'
  BY DEF IInv, TypeOK, AllOps, Lifecycle, Flow
<1>2. Flow'
  BY DEF IInv, Flow, TypeOK, AllOps
<1>3. Placed'
  BY DEF IInv, Placed, TypeOK, Flow
<1>4. Looking'
  BY DEF IInv, Looking, TypeOK, Flow
<1>5. ReadTrue'
  BY DEF IInv, ReadTrue, TypeOK, Flow, Placed, Looking
<1>6. Exclusive'
  BY DEF IInv, Exclusive, TypeOK, Flow
<1>7. LaunchKnown'
  BY DEF IInv, LaunchKnown, TypeOK, Flow, Placed, Exclusive
<1>8. StopKnown'
  BY DEF IInv, StopKnown, TypeOK, Flow, Placed, Exclusive
<1>9. RefKnown'
  BY DEF IInv, RefKnown, TypeOK, Flow, Placed, Launching
<1>10. Truthful'
  BY ZenonT(40) DEF IInv, Truthful, TypeOK, Flow, Placed, Busy, Begun
<1> QED
  BY <1>1, <1>2, <1>3, <1>4, <1>5, <1>6, <1>7, <1>8, <1>9, <1>10
  DEF IInv

\* A runtime gets an agent with the status it was read with.
LEMMA BackfillStep ==
    ASSUME NEW p \in Procs, IInv, Backfill(p)
    PROVE  IInv'
<1> USE LaunchAssumption DEF Backfill, AddAgent, AgentStatus,
      DeploymentStatus, Goto, Unlocked, rowVars, procVars
<1>a. PICK r \in todo[p] :
          /\ todo' = [todo EXCEPT ![p] = @ \ {r}]
          /\ IF status[r] # "none"
             THEN UNCHANGED <<status, current, deployments>>
             ELSE AddAgent(p, r)
  OBVIOUS
<1>b. /\ runtime' = runtime /\ up' = up /\ writer' = writer
      /\ pc' = pc /\ op' = op /\ ag' = ag /\ read' = read
      /\ dep' = dep /\ ref' = ref /\ alone' = alone /\ trouble' = trouble
  OBVIOUS
<1>c. /\ r \in Agents /\ pc[p] = "backfill" /\ read[p][r] \in Lifecycle
      /\ \A q \in Procs \ {p} : todo'[q] = todo[q]
      /\ todo'[p] = todo[p] \ {r}
      /\ todo' \in [Procs -> SUBSET Agents]
  BY <1>a DEF IInv, TypeOK, Looking
<1>d. ASSUME status[r] # "none"
      PROVE  status' = status /\ current' = current /\ deployments' = deployments
  BY <1>a, <1>d
<1>e. ASSUME status[r] = "none"
      PROVE  /\ \A a \in Agents \ {r} : /\ status'[a] = status[a] /\ current'[a] = current[a]
                                        /\ deployments'[a] = deployments[a]
             /\ status'[r] = AgentStatus(read[p][r])
             /\ current'[r] = 1
             /\ deployments'[r] =
                    <<[status |-> DeploymentStatus(read[p][r]), ref |-> TRUE]>>
  BY <1>a, <1>c, <1>e DEF IInv, TypeOK, Placed
<1>f. AgentStatus(read[p][r]) \in {"ready", "running", "stopped"}
  BY <1>c DEF Lifecycle
<1> HIDE DEF Backfill, AddAgent, AgentStatus, DeploymentStatus
<1>g. status[r] = "none" =>
         /\ \A q \in Procs : pc[q] \notin {"idle", "draft", "backfill", "load"} =>
                ag[q] \in Agents \ {r}
         /\ r \notin trouble => read[p][r] = runtime[r]
  BY <1>a, <1>c DEF IInv, Flow, Placed, ReadTrue, TypeOK
<1>h. alone \subseteq Procs
  BY DEF IInv, TypeOK
<1>i. current' \in [Agents -> Nat]
  BY <1>a, <1>c, <1>d DEF IInv, Placed, AddAgent
<1>1. TypeOK'
  <2>1. CASE status[r] # "none"
    BY <1>b, <1>c, <1>d, <2>1 DEF IInv, TypeOK
  <2>2. CASE status[r] = "none"
    <3> DEFINE new == [status |-> DeploymentStatus(read[p][r]), ref |-> TRUE]
    <3>1. new \in Deployment
      BY DEF Deployment, DeploymentStatus
    <3>2. <<new>> \in Seq(Deployment) /\ Len(<<new>>) = 1
      BY <3>1
    <3>3. /\ status' = [status EXCEPT ![r] = AgentStatus(read[p][r])]
          /\ current' = [current EXCEPT ![r] = 1]
          /\ deployments' = [deployments EXCEPT ![r] = <<new>>]
      BY <1>a, <2>2 DEF AddAgent
    <3> HIDE DEF new
    <3>4. deployments' \in [Agents -> Seq(Deployment)]
      BY <3>2, <3>3 DEF IInv, TypeOK
    <3>5. status' \in [Agents -> {"none", "draft", "ready", "launching", "running", "stopped"}]
      BY <1>f, <3>3 DEF IInv, TypeOK
    <3>6. \A a \in Agents : /\ Len(deployments'[a]) <= MaxDeployments
                            /\ current'[a] \in 0 .. Len(deployments'[a])
      BY <1>c, <3>2, <3>3 DEF IInv, TypeOK, Placed
    <3> QED
      BY <1>b, <1>c, <3>4, <3>5, <3>6 DEF IInv, TypeOK
  <2> QED
    BY <2>1, <2>2
<1>2. Flow'
  BY <1>b DEF IInv, Flow
<1>3. Placed'
  <2>1. CASE status[r] # "none"
    BY <1>b, <1>d, <2>1 DEF IInv, Placed
  <2>2. CASE status[r] = "none"
    <3>1. \A b \in Agents : status'[b] \notin {"none", "draft"} => current'[b] # 0
      BY <1>e, <2>2 DEF IInv, Placed
    <3>2. \A q \in Procs :
            /\ pc[q] \notin {"idle", "draft", "backfill", "load"} => status'[ag[q]] # "none"
            /\ pc[q] \notin {"idle", "draft", "backfill", "load", "deploy"} =>
                   dep[q] \in 1 .. Len(deployments'[ag[q]])
            /\ pc[q] \in {"enter", "provision", "halt", "save_runtime",
                          "save_deployment", "save_agent"} =>
                   current'[ag[q]] # 0
      BY <1>e, <1>g, <2>2 DEF IInv, Placed
    <3> QED
      BY <1>b, <1>i, <3>1, <3>2 DEF IInv, Placed
  <2> QED
    BY <2>1, <2>2
<1>4. Looking'
  <2>1. CASE status[r] # "none"
    BY <1>b, <1>c, <1>d, <2>1 DEF IInv, Looking
  <2>2. CASE status[r] = "none"
    BY <1>b, <1>c, <1>e, <1>f, <2>2 DEF IInv, Looking
  <2> QED
    BY <2>1, <2>2
<1>5. ReadTrue'
  <2>1. CASE status[r] # "none"
    BY <1>b, <1>c, <1>d, <2>1 DEF IInv, ReadTrue
  <2>2. CASE status[r] = "none"
    BY <1>b, <1>c, <1>e, <1>f, <2>2 DEF IInv, ReadTrue
  <2> QED
    BY <2>1, <2>2
<1>6. Exclusive'
  BY <1>b DEF IInv, Exclusive
<1>7. LaunchKnown'
  <2>1. CASE status[r] # "none"
    BY <1>b, <1>d, <2>1 DEF IInv, LaunchKnown
  <2>2. CASE status[r] = "none"
    BY <1>b, <1>c, <1>e, <1>g, <1>h, <2>2 DEF IInv, LaunchKnown
  <2> QED
    BY <2>1, <2>2
<1>8. StopKnown'
  <2>1. CASE status[r] # "none"
    BY <1>b, <1>d, <2>1 DEF IInv, StopKnown
  <2>2. CASE status[r] = "none"
    BY <1>b, <1>c, <1>e, <1>g, <1>h, <2>2 DEF IInv, StopKnown
  <2> QED
    BY <2>1, <2>2
<1>9. RefKnown'
  <2>1. CASE status[r] # "none"
    BY <1>b, <1>d, <2>1 DEF IInv, RefKnown, Launching
  <2>2. CASE status[r] = "none"
    BY <1>b, <1>c, <1>e, <1>g, <1>h, <2>2 DEF IInv, RefKnown, Launching
  <2> QED
    BY <2>1, <2>2
<1>10. Truthful'
  <2>1. CASE status[r] # "none"
    BY <1>b, <1>d, <2>1 DEF IInv, Truthful, Busy, Begun
  <2>2. CASE status[r] = "none"
    <3>1. r \notin trouble =>
              /\ status'[r] = "running" =>
                    /\ r \in up
                    /\ deployments'[r][current'[r]] = [status |-> "running", ref |-> TRUE]
              /\ status'[r] = "stopped" => r \notin up
              /\ status'[r] # "launching"
      <4> SUFFICES ASSUME r \notin trouble
                   PROVE  /\ status'[r] = "running" =>
                                /\ r \in up
                                /\ deployments'[r][current'[r]] = [status |-> "running", ref |-> TRUE]
                          /\ status'[r] = "stopped" => r \notin up
                          /\ status'[r] # "launching"
        OBVIOUS
      <4>1. /\ read[p][r] = "running" => r \in up
            /\ read[p][r] = "stopped" => r \notin up
        BY <1>c, <1>g, <2>2 DEF IInv, ReadTrue
      <4>2. /\ status'[r] = "running" => read[p][r] = "running"
            /\ status'[r] = "stopped" => read[p][r] = "stopped"
            /\ status'[r] # "launching"
        BY <1>c, <1>e, <2>2 DEF AgentStatus, Lifecycle
      <4>3. deployments'[r][current'[r]] =
                [status |-> DeploymentStatus(read[p][r]), ref |-> TRUE]
        BY <1>e, <2>2
      <4> QED
        BY <4>1, <4>2, <4>3 DEF DeploymentStatus
    <3>2. \A a \in Agents : Busy(a)' = Busy(a)
      BY <1>b DEF Busy, Begun
    <3> QED
      BY <1>b, <1>e, <2>2, <3>1, <3>2 DEF IInv, Truthful
  <2> QED
    BY <2>1, <2>2
<1> QED
  BY <1>1, <1>2, <1>3, <1>4, <1>5, <1>6, <1>7, <1>8, <1>9, <1>10
  DEF IInv

\* Every runtime that was read has an agent.
LEMMA BackfillDoneStep ==
    ASSUME NEW p \in Procs, IInv, BackfillDone(p)
    PROVE  IInv'
<1> USE LaunchAssumption DEF BackfillDone, Goto, Unlocked, rowVars, procVars
<1>1. TypeOK'
  BY DEF IInv, TypeOK, AllOps, Lifecycle, Flow
<1>2. Flow'
  BY DEF IInv, Flow, TypeOK, AllOps
<1>3. Placed'
  BY DEF IInv, Placed, TypeOK, Flow
<1>4. Looking'
  BY DEF IInv, Looking, TypeOK, Flow
<1>5. ReadTrue'
  BY DEF IInv, ReadTrue, TypeOK, Flow, Placed, Looking
<1>6. Exclusive'
  BY DEF IInv, Exclusive, TypeOK, Flow
<1>7. LaunchKnown'
  BY DEF IInv, LaunchKnown, TypeOK, Flow, Placed, Exclusive
<1>8. StopKnown'
  BY DEF IInv, StopKnown, TypeOK, Flow, Placed, Exclusive
<1>9. RefKnown'
  BY DEF IInv, RefKnown, TypeOK, Flow, Placed, Launching
<1>10. Truthful'
  BY DEF IInv, Truthful, TypeOK, Flow, Placed, Busy, Begun
<1> QED
  BY <1>1, <1>2, <1>3, <1>4, <1>5, <1>6, <1>7, <1>8, <1>9, <1>10
  DEF IInv

\* The agent has been loaded, and for a stop its deployment.
LEMMA LoadStep ==
    ASSUME NEW p \in Procs, IInv, Load(p)
    PROVE  IInv'
<1> USE LaunchAssumption DEF Load, Over, NothingRead, Goto, Unlocked, rowVars,
      procVars
<1>a. /\ pc[p] = "load" /\ todo[p] = {} /\ ag[p] \in Agents
      /\ op[p] \in {"get", "launch", "stop"} /\ status[ag[p]] # "none"
  <2>1. pc[p] = "load" /\ status[ag[p]] # "none"
    OBVIOUS
  <2> HIDE DEF Load
  <2>2. ag[p] \in Agents /\ op[p] \in {"get", "launch", "stop"}
    BY <2>1 DEF IInv, Flow, TypeOK
  <2> QED
    BY <2>1, <2>2 DEF IInv, Looking
<1>b. /\ status' = status /\ current' = current /\ deployments' = deployments
      /\ runtime' = runtime /\ up' = up /\ writer' = writer
  OBVIOUS
<1>c. ASSUME op[p] = "get"
      PROVE  /\ Over(p, ag[p] \in trouble)
             /\ pc'[p] = "idle" /\ op'[p] = "get" /\ ag'[p] = NoAgent /\ todo'[p] = {}
             /\ alone' = alone \ {p} /\ trouble' = trouble
             /\ \A q \in Procs \ {p} : /\ pc'[q] = pc[q] /\ op'[q] = op[q] /\ ag'[q] = ag[q]
                                       /\ read'[q] = read[q] /\ todo'[q] = todo[q]
                                       /\ dep'[q] = dep[q] /\ ref'[q] = ref[q]
  <2>1. Over(p, ag[p] \in trouble)
    BY <1>c
  <2> HIDE DEF Load
  <2> QED
    BY <2>1 DEF IInv, TypeOK
<1>d. ASSUME op[p] = "launch"
      PROVE  /\ pc' = [pc EXCEPT ![p] = "deploy"]
             /\ op' = op /\ ag' = ag /\ read' = read /\ todo' = todo /\ dep' = dep
             /\ ref' = ref /\ alone' = alone /\ trouble' = trouble
  BY <1>d
<1>e. ASSUME op[p] = "stop"
      PROVE  /\ pc' = [pc EXCEPT ![p] = IF ref'[p] THEN "halt" ELSE "save_deployment"]
             /\ op' = op /\ ag' = ag /\ read' = read /\ todo' = todo
             /\ alone' = alone /\ trouble' = trouble
             /\ dep' = [dep EXCEPT ![p] = current[ag[p]]]
             /\ ref' = [ref EXCEPT ![p] = deployments[ag[p]][current[ag[p]]].ref]
             /\ current[ag[p]] # 0
  BY <1>e
<1> HIDE DEF Load, Over, NothingRead
<1>f. \A q \in Procs \ {p} : /\ pc'[q] = pc[q] /\ op'[q] = op[q] /\ ag'[q] = ag[q]
                             /\ read'[q] = read[q] /\ todo'[q] = todo[q]
                             /\ dep'[q] = dep[q] /\ ref'[q] = ref[q]
  BY <1>a, <1>c, <1>d, <1>e DEF IInv, TypeOK
<1>g. /\ trouble' = trouble /\ todo'[p] = {} /\ alone' \subseteq alone /\ alone \subseteq Procs
      /\ \A q \in Procs \ {p} : q \in alone' <=> q \in alone
  BY <1>a, <1>c, <1>d, <1>e DEF IInv, TypeOK
<1>h. op[p] = "launch" =>
        /\ pc'[p] = "deploy" /\ op'[p] = "launch" /\ ag'[p] = ag[p]
        /\ (p \in alone' <=> p \in alone)
  BY <1>d DEF IInv, TypeOK
<1>i. op[p] = "stop" =>
        /\ current[ag[p]] \in 1 .. Len(deployments[ag[p]])
        /\ deployments[ag[p]][current[ag[p]]] \in Deployment
  BY <1>a, <1>e DEF IInv, TypeOK, Placed
<1>j. op[p] = "stop" =>
        /\ op'[p] = "stop" /\ ag'[p] = ag[p] /\ (p \in alone' <=> p \in alone)
        /\ dep'[p] = current[ag[p]]
        /\ ref'[p] = deployments[ag[p]][current[ag[p]]].ref
        /\ pc'[p] = IF ref'[p] THEN "halt" ELSE "save_deployment"
  BY <1>e DEF IInv, TypeOK
<1>k. op[p] = "get" => pc'[p] = "idle" /\ op'[p] = "get" /\ ag'[p] = NoAgent /\ p \notin alone'
  BY <1>c
<1>1. TypeOK'
  <2>1. RowType'
    BY <1>b DEF IInv, TypeOK, RowType
  <2>2. CASE op[p] = "get"
    <3>1. (ag[p] \in trouble) \in BOOLEAN
      OBVIOUS
    <3> QED
      BY <1>a, <1>c, <2>1, <2>2, <3>1, OverType DEF IInv
  <2>3. CASE op[p] = "launch"
    <3>1. pc' \in [Procs -> {"idle", "draft", "backfill", "load", "deploy", "mark",
                             "enter", "provision", "halt", "save_runtime",
                             "save_deployment", "save_agent"}]
      BY <1>d, <2>3 DEF IInv, TypeOK
    <3> QED
      BY <1>d, <2>1, <2>3, <3>1 DEF IInv, TypeOK, RowType
  <2>4. CASE op[p] = "stop"
    <3>1. dep' \in [Procs -> 0 .. MaxDeployments]
      <4>1. current[ag[p]] \in 0 .. MaxDeployments
        <5>1. /\ Len(deployments[ag[p]]) \in Nat /\ Len(deployments[ag[p]]) <= MaxDeployments
              /\ current[ag[p]] \in 1 .. Len(deployments[ag[p]])
          BY <1>a, <1>i, <2>4 DEF IInv, TypeOK
        <5> QED
          BY <5>1
      <4> QED
        BY <1>e, <2>4, <4>1, ZenonT(40) DEF IInv, TypeOK
    <3>2. ref' \in [Procs -> BOOLEAN]
      BY <1>e, <1>i, <2>4 DEF IInv, TypeOK, Deployment
    <3>3. pc' \in [Procs -> {"idle", "draft", "backfill", "load", "deploy", "mark",
                             "enter", "provision", "halt", "save_runtime",
                             "save_deployment", "save_agent"}]
      BY <1>e, <2>4 DEF IInv, TypeOK
    <3> QED
      BY <1>e, <2>1, <2>4, <3>1, <3>2, <3>3 DEF IInv, TypeOK, RowType
  <2> QED
    BY <1>a, <2>2, <2>3, <2>4
<1>2. Flow'
  BY <1>a, <1>b, <1>f, <1>g, <1>h, <1>j, <1>k DEF IInv, Flow, TypeOK
<1>3. Placed'
  BY <1>a, <1>b, <1>f, <1>h, <1>i, <1>j, <1>k DEF IInv, Placed
<1>4. Looking'
  BY <1>a, <1>b, <1>f, <1>g, <1>h, <1>j, <1>k DEF IInv, Looking
<1>5. ReadTrue'
  BY <1>b, <1>f, <1>g DEF IInv, ReadTrue
<1>6. Exclusive'
  BY <1>a, <1>f, <1>g, <1>h, <1>j, <1>k DEF IInv, Exclusive
<1>7. LaunchKnown'
  BY <1>a, <1>b, <1>f, <1>g, <1>h, <1>j, <1>k DEF IInv, LaunchKnown
<1>8. StopKnown'
  <2>1. \A q \in alone' \ {p} :
            /\ q \in alone /\ op'[q] = op[q] /\ pc'[q] = pc[q] /\ ag'[q] = ag[q]
            /\ dep'[q] = dep[q] /\ ref'[q] = ref[q]
    BY <1>f, <1>g
  <2>2. ASSUME p \in alone', op[p] = "stop", ag[p] \notin trouble
        PROVE  deployments[ag[p]][current[ag[p]]].ref
    <3>1. p \in alone
      BY <1>g, <2>2
    <3>2. \A q \in Procs : ~(ag[q] = ag[p] /\ Launching(q))
      BY <1>a, <2>2, <3>1 DEF IInv, Exclusive, Launching
    <3> QED
      BY <1>a, <1>e, <2>2, <3>2 DEF IInv, RefKnown
  <2>3. ASSUME p \in alone', op'[p] = "stop"
        PROVE  /\ current[ag[p]] = dep'[p]
               /\ deployments[ag[p]][dep'[p]].ref = ref'[p]
               /\ ~ref'[p] => ag[p] \in trouble
               /\ ref'[p] => pc'[p] = "halt"
               /\ ag'[p] = ag[p]
    BY <1>a, <1>h, <1>j, <1>k, <2>2, <2>3
  <2> QED
    BY <1>b, <1>g, <2>1, <2>3 DEF IInv, StopKnown
<1>9. RefKnown'
  BY <1>a, <1>b, <1>f, <1>g, <1>h, <1>j, <1>k DEF IInv, RefKnown, Launching
<1>10. Truthful'
  BY <1>a, <1>b, <1>f, <1>g, <1>h, <1>j, <1>k DEF IInv, Truthful, Busy, Begun
<1> QED
  BY <1>1, <1>2, <1>3, <1>4, <1>5, <1>6, <1>7, <1>8, <1>9, <1>10
  DEF IInv

\* A launch makes a deployment of its own.
LEMMA DeployStep ==
    ASSUME NEW p \in Procs, IInv, Deploy(p)
    PROVE  IInv'
<1> USE LaunchAssumption DEF Deploy, Goto, Unlocked, rowVars, procVars
<1> DEFINE a == ag[p]
           n == Len(deployments[ag[p]])
<1>a. /\ a \in Agents /\ pc[p] = "deploy" /\ op[p] = "launch" /\ status[a] # "none"
      /\ deployments[a] \in Seq(Deployment) /\ n \in Nat /\ n < MaxDeployments
      /\ p \in alone <=> p \in alone'
  <2>1. pc[p] = "deploy" /\ n < MaxDeployments /\ alone' = alone
    OBVIOUS
  <2> HIDE DEF Deploy
  <2>2. a \in Agents /\ op[p] = "launch" /\ status[a] # "none"
    BY <2>1 DEF IInv, Flow, TypeOK, Placed
  <2> QED
    BY <2>1, <2>2 DEF IInv, TypeOK
<1>b. /\ status' = status /\ current' = current /\ runtime' = runtime /\ up' = up
      /\ writer' = writer /\ op' = op /\ ag' = ag /\ read' = read /\ todo' = todo
      /\ ref' = ref /\ alone' = alone /\ trouble' = trouble
  OBVIOUS
<1>c. deployments' = [deployments EXCEPT ![a] =
                          Append(deployments[a], [status |-> "launching", ref |-> FALSE])]
  OBVIOUS
<1>d. /\ dep' = [dep EXCEPT ![p] = Len(deployments'[a])]
      /\ pc' = [pc EXCEPT ![p] = "mark"]
  OBVIOUS
<1> HIDE DEF Deploy
<1>e. [status |-> "launching", ref |-> FALSE] \in Deployment
  BY DEF Deployment
<1>f. /\ deployments' \in [Agents -> Seq(Deployment)]
      /\ \A b \in Agents \ {a} : deployments'[b] = deployments[b]
      /\ deployments'[a] = Append(deployments[a], [status |-> "launching", ref |-> FALSE])
  BY <1>a, <1>c, <1>e DEF IInv, TypeOK
<1> HIDE DEF a, n
<1>g. /\ Len(deployments'[a]) = n + 1
      /\ \A i \in 1 .. n : deployments'[a][i] = deployments[a][i]
  BY <1>a, <1>f DEF a, n
<1>h. /\ dep'[p] = n + 1 /\ pc'[p] = "mark"
      /\ \A q \in Procs \ {p} : pc'[q] = pc[q] /\ dep'[q] = dep[q]
      /\ dep' \in [Procs -> 0 .. MaxDeployments]
      /\ pc' \in [Procs -> {"idle", "draft", "backfill", "load", "deploy", "mark",
                            "enter", "provision", "halt", "save_runtime",
                            "save_deployment", "save_agent"}]
  <2>1. n + 1 \in 0 .. MaxDeployments
    BY <1>a
  <2> QED
    BY <1>d, <1>g, <2>1 DEF IInv, TypeOK
<1>i. \A b \in Agents :
          /\ Len(deployments[b]) \in Nat
          /\ Len(deployments[b]) <= Len(deployments'[b])
          /\ current[b] \in 0 .. Len(deployments[b])
          /\ \A i \in 1 .. Len(deployments[b]) : deployments'[b][i] = deployments[b][i]
  <2> SUFFICES ASSUME NEW b \in Agents
               PROVE  /\ Len(deployments[b]) \in Nat
                      /\ Len(deployments[b]) <= Len(deployments'[b])
                      /\ current[b] \in 0 .. Len(deployments[b])
                      /\ \A i \in 1 .. Len(deployments[b]) : deployments'[b][i] = deployments[b][i]
    OBVIOUS
  <2>1. Len(deployments[b]) \in Nat /\ current[b] \in 0 .. Len(deployments[b])
    BY DEF IInv, TypeOK
  <2>2. CASE b = a
    BY <1>a, <1>g, <2>1, <2>2 DEF a, n
  <2>3. CASE b # a
    BY <1>f, <2>1, <2>3
  <2> QED
    BY <2>1, <2>2, <2>3
<1>j. \A q \in Procs : pc[q] # "idle" => ag[q] \in Agents
  BY DEF IInv, Flow, TypeOK
<1>k. alone \subseteq Procs
  BY DEF IInv, TypeOK
<1>l. \A q \in Procs \ {p} :
          pc[q] \notin {"idle", "draft", "backfill", "load", "deploy"} =>
              /\ ag[q] \in Agents /\ dep[q] \in 1 .. Len(deployments[ag[q]])
              /\ dep[q] \in 1 .. Len(deployments'[ag[q]])
              /\ deployments'[ag[q]][dep[q]] = deployments[ag[q]][dep[q]]
  <2> SUFFICES ASSUME NEW q \in Procs \ {p},
                      pc[q] \notin {"idle", "draft", "backfill", "load", "deploy"}
               PROVE  /\ ag[q] \in Agents /\ dep[q] \in 1 .. Len(deployments[ag[q]])
                      /\ dep[q] \in 1 .. Len(deployments'[ag[q]])
                      /\ deployments'[ag[q]][dep[q]] = deployments[ag[q]][dep[q]]
    OBVIOUS
  <2>1. ag[q] \in Agents /\ dep[q] \in 1 .. Len(deployments[ag[q]])
    BY <1>j DEF IInv, Placed
  <2>2. Len(deployments'[ag[q]]) \in Nat
    BY <1>f, <2>1
  <2> QED
    BY <1>i, <2>1, <2>2
<1>m. \A b \in Agents : current[b] # 0 => deployments'[b][current[b]] = deployments[b][current[b]]
  BY <1>i
<1>1. TypeOK'
  <2>1. \A b \in Agents : /\ Len(deployments'[b]) <= MaxDeployments
                          /\ current[b] \in 0 .. Len(deployments'[b])
    <3> SUFFICES ASSUME NEW b \in Agents
                 PROVE  /\ Len(deployments'[b]) <= MaxDeployments
                        /\ current[b] \in 0 .. Len(deployments'[b])
      OBVIOUS
    <3>1. Len(deployments'[b]) \in Nat
      BY <1>f
    <3>2. Len(deployments[b]) <= MaxDeployments
      BY DEF IInv, TypeOK
    <3>3. CASE b = a
      BY <1>a, <1>g, <1>i, <3>1, <3>3
    <3>4. CASE b # a
      BY <1>f, <1>i, <3>1, <3>2, <3>4
    <3> QED
      BY <3>3, <3>4
  <2> QED
    BY <1>b, <1>f, <1>h, <2>1 DEF IInv, TypeOK
<1>2. Flow'
  BY <1>a, <1>b, <1>h DEF IInv, Flow
<1>3. Placed'
  <2>1. \A q \in Procs :
            pc'[q] \notin {"idle", "draft", "backfill", "load", "deploy"} =>
                dep'[q] \in 1 .. Len(deployments'[ag[q]])
    <3>1. dep'[p] \in 1 .. Len(deployments'[ag[p]])
      BY <1>a, <1>g, <1>h DEF a
    <3> QED
      BY <1>h, <1>l, <3>1
  <2>2. \A q \in Procs \ {p} :
            pc[q] \in {"mark", "enter", "provision", "save_deployment", "save_agent"}
            /\ ag[q] = ag[p] => dep[q] # dep'[p]
    BY <1>a, <1>h, <1>l DEF a, n
  <2>3. \A q, s \in Procs :
          /\ pc'[q] \in {"mark", "enter", "provision", "save_deployment", "save_agent"}
          /\ pc'[s] \in {"mark", "enter", "provision", "save_deployment", "save_agent"}
          /\ op[q] = "launch" /\ op[s] = "launch" /\ ag[q] = ag[s] /\ dep'[q] = dep'[s]
          => q = s
    BY <1>h, <2>2 DEF IInv, Placed
  <2>4. \A q \in Procs : pc'[q] \notin {"idle", "draft", "backfill", "load"} =>
                            status[ag[q]] # "none"
    BY <1>a, <1>h DEF IInv, Placed, a
  <2>5. \A q \in Procs :
            pc'[q] \in {"enter", "provision", "halt", "save_runtime",
                        "save_deployment", "save_agent"} =>
                current[ag[q]] # 0
    BY <1>h DEF IInv, Placed
  <2> QED
    BY <1>b, <2>1, <2>3, <2>4, <2>5 DEF IInv, Placed
<1>4. Looking'
  BY <1>a, <1>b, <1>h DEF IInv, Looking
<1>5. ReadTrue'
  BY <1>b DEF IInv, ReadTrue
<1>6. Exclusive'
  BY <1>b DEF IInv, Exclusive
<1>7. LaunchKnown'
  BY <1>a, <1>b, <1>h, <1>k, <1>l, SMTT(30) DEF IInv, LaunchKnown
<1>8. StopKnown'
  BY <1>a, <1>b, <1>h, <1>k, <1>l, SMTT(30) DEF IInv, StopKnown
<1>9. RefKnown'
  BY <1>a, <1>b, <1>h, <1>m DEF IInv, RefKnown, Launching
<1>10. Truthful'
  <2> SUFFICES ASSUME NEW b \in Agents, b \notin trouble', ~Busy(b)'
               PROVE  /\ status'[b] = "running" =>
                            /\ b \in up'
                            /\ deployments'[b][current'[b]] = [status |-> "running", ref |-> TRUE]
                      /\ status'[b] = "stopped" => b \notin up'
                      /\ status'[b] # "launching"
    BY DEF Truthful
  <2>1. ~Busy(b)
    BY <1>a, <1>b, <1>h DEF Busy, Begun
  <2>2. status[b] = "running" => current[b] # 0
    BY DEF IInv, Placed
  <2> QED
    BY <1>b, <1>m, <2>1, <2>2 DEF IInv, Truthful
<1> QED
  BY <1>1, <1>2, <1>3, <1>4, <1>5, <1>6, <1>7, <1>8, <1>9, <1>10
  DEF IInv

\* The deployment of a launch becomes the current one.
LEMMA MarkStep ==
    ASSUME NEW p \in Procs, IInv, Mark(p)
    PROVE  IInv'
<1> USE LaunchAssumption DEF Mark, Goto, Unlocked, rowVars, procVars
<1>1. TypeOK'
  <2>1. /\ ag[p] \in Agents /\ dep[p] \in 1 .. Len(deployments[ag[p]])
        /\ current \in [Agents -> Nat]
    BY DEF IInv, Flow, TypeOK, Placed
  <2>2. \A b \in Agents : current'[b] \in 0 .. Len(deployments[b])
    BY <2>1 DEF IInv, TypeOK
  <2> QED
    BY <2>2 DEF IInv, TypeOK
<1>2. Flow'
  BY DEF IInv, Flow, TypeOK, AllOps
<1>3. Placed'
  BY DEF IInv, Placed, TypeOK, Flow
<1>4. Looking'
  BY DEF IInv, Looking, TypeOK, Flow
<1>5. ReadTrue'
  BY DEF IInv, ReadTrue, TypeOK, Flow, Placed, Looking
<1>6. Exclusive'
  BY DEF IInv, Exclusive, TypeOK, Flow
<1>7. LaunchKnown'
  BY DEF IInv, LaunchKnown, TypeOK, Flow, Placed, Exclusive
<1>8. StopKnown'
  BY DEF IInv, StopKnown, TypeOK, Flow, Placed, Exclusive
<1>9. RefKnown'
  BY DEF IInv, RefKnown, TypeOK, Flow, Placed, Launching
<1>10. Truthful'
  BY DEF IInv, Truthful, TypeOK, Flow, Placed, Busy, Begun
<1> QED
  BY <1>1, <1>2, <1>3, <1>4, <1>5, <1>6, <1>7, <1>8, <1>9, <1>10
  DEF IInv

\* A launch takes the lock.
LEMMA EnterStep ==
    ASSUME NEW p \in Procs, IInv, Enter(p)
    PROVE  IInv'
<1> USE LaunchAssumption DEF Enter, Goto, Unlocked, rowVars, procVars
<1>1. TypeOK'
  BY DEF IInv, TypeOK, AllOps, Lifecycle, Flow
<1>2. Flow'
  BY DEF IInv, Flow, TypeOK, AllOps
<1>3. Placed'
  BY DEF IInv, Placed, TypeOK, Flow
<1>4. Looking'
  BY DEF IInv, Looking, TypeOK, Flow
<1>5. ReadTrue'
  BY DEF IInv, ReadTrue, TypeOK, Flow, Placed, Looking
<1>6. Exclusive'
  BY DEF IInv, Exclusive, TypeOK, Flow
<1>7. LaunchKnown'
  BY DEF IInv, LaunchKnown, TypeOK, Flow, Placed, Exclusive
<1>8. StopKnown'
  BY DEF IInv, StopKnown, TypeOK, Flow, Placed, Exclusive
<1>9. RefKnown'
  BY DEF IInv, RefKnown, TypeOK, Flow, Placed, Launching
<1>10. Truthful'
  BY DEF IInv, Truthful, TypeOK, Flow, Placed, Busy, Begun
<1> QED
  BY <1>1, <1>2, <1>3, <1>4, <1>5, <1>6, <1>7, <1>8, <1>9, <1>10
  DEF IInv

\* The container is up.
LEMMA ProvisionStep ==
    ASSUME NEW p \in Procs, IInv, Provision(p)
    PROVE  IInv'
<1> USE LaunchAssumption DEF Provision, Goto, Unlocked, rowVars, procVars
<1>1. TypeOK'
  BY DEF IInv, TypeOK, AllOps, Lifecycle, Flow
<1>2. Flow'
  BY DEF IInv, Flow, TypeOK, AllOps
<1>3. Placed'
  <2>1. /\ status' = status /\ current' = current /\ deployments' = deployments
        /\ op' = op /\ ag' = ag /\ dep' = dep
    OBVIOUS
  <2>2. /\ pc[p] = "provision" /\ pc'[p] = "save_deployment"
        /\ \A q \in Procs \ {p} : pc'[q] = pc[q]
    BY DEF IInv, TypeOK
  <2>3. current[ag[p]] # 0
    BY DEF IInv, Placed
  <2> HIDE DEF Provision
  <2> QED
    BY <2>1, <2>2, <2>3 DEF IInv, Placed
<1>4. Looking'
  BY DEF IInv, Looking, TypeOK, Flow
<1>5. ReadTrue'
  <2>1. ag[p] \in Agents /\ status[ag[p]] # "none"
    BY DEF IInv, Flow, Placed, TypeOK
  <2>2. \A r \in Agents \ {ag[p]} : runtime'[r] = runtime[r] /\ (r \in up' <=> r \in up)
    BY DEF IInv, TypeOK
  <2>3. status' = status /\ todo' = todo /\ read' = read /\ trouble' = trouble
    OBVIOUS
  <2> HIDE DEF Provision
  <2> QED
    BY <2>1, <2>2, <2>3 DEF IInv, ReadTrue
<1>6. Exclusive'
  BY DEF IInv, Exclusive, TypeOK, Flow
<1>7. LaunchKnown'
  BY DEF IInv, LaunchKnown, TypeOK, Flow, Placed, Exclusive
<1>8. StopKnown'
  BY DEF IInv, StopKnown, TypeOK, Flow, Placed, Exclusive
<1>9. RefKnown'
  BY DEF IInv, RefKnown, TypeOK, Flow, Placed, Launching
<1>10. Truthful'
  BY DEF IInv, Truthful, TypeOK, Flow, Placed, Busy, Begun
<1> QED
  BY <1>1, <1>2, <1>3, <1>4, <1>5, <1>6, <1>7, <1>8, <1>9, <1>10
  DEF IInv

\* The container is down.
LEMMA HaltStep ==
    ASSUME NEW p \in Procs, IInv, Halt(p)
    PROVE  IInv'
<1> USE LaunchAssumption DEF Halt, Goto, Unlocked, rowVars, procVars
<1>1. TypeOK'
  BY DEF IInv, TypeOK, AllOps, Lifecycle, Flow
<1>2. Flow'
  BY DEF IInv, Flow, TypeOK, AllOps
<1>3. Placed'
  BY DEF IInv, Placed, TypeOK, Flow
<1>4. Looking'
  BY DEF IInv, Looking, TypeOK, Flow
<1>5. ReadTrue'
  <2>1. ag[p] \in Agents /\ status[ag[p]] # "none"
    BY DEF IInv, Flow, Placed, TypeOK
  <2>2. \A r \in Agents \ {ag[p]} : runtime'[r] = runtime[r] /\ (r \in up' <=> r \in up)
    BY DEF IInv, TypeOK
  <2>3. status' = status /\ todo' = todo /\ read' = read /\ trouble' = trouble
    OBVIOUS
  <2> HIDE DEF Halt
  <2> QED
    BY <2>1, <2>2, <2>3 DEF IInv, ReadTrue
<1>6. Exclusive'
  BY DEF IInv, Exclusive, TypeOK, Flow
<1>7. LaunchKnown'
  BY DEF IInv, LaunchKnown, TypeOK, Flow, Placed, Exclusive
<1>8. StopKnown'
  BY DEF IInv, StopKnown, TypeOK, Flow, Placed, Exclusive
<1>9. RefKnown'
  BY DEF IInv, RefKnown, TypeOK, Flow, Placed, Launching
<1>10. Truthful'
  BY DEF IInv, Truthful, TypeOK, Flow, Placed, Busy, Begun
<1> QED
  BY <1>1, <1>2, <1>3, <1>4, <1>5, <1>6, <1>7, <1>8, <1>9, <1>10
  DEF IInv

\* The runtime's status is saved.
LEMMA SaveRuntimeStep ==
    ASSUME NEW p \in Procs, IInv, SaveRuntime(p)
    PROVE  IInv'
<1> USE LaunchAssumption DEF SaveRuntime, Goto, Unlocked, rowVars, procVars
<1>1. TypeOK'
  BY DEF IInv, TypeOK, AllOps, Lifecycle, Flow
<1>2. Flow'
  BY DEF IInv, Flow, TypeOK, AllOps
<1>3. Placed'
  BY DEF IInv, Placed, TypeOK, Flow
<1>4. Looking'
  BY DEF IInv, Looking, TypeOK, Flow
<1>5. ReadTrue'
  <2>1. ag[p] \in Agents /\ status[ag[p]] # "none"
    BY DEF IInv, Flow, Placed, TypeOK
  <2>2. \A r \in Agents \ {ag[p]} : runtime'[r] = runtime[r] /\ (r \in up' <=> r \in up)
    BY DEF IInv, TypeOK
  <2>3. status' = status /\ todo' = todo /\ read' = read /\ trouble' = trouble
    OBVIOUS
  <2> HIDE DEF SaveRuntime
  <2> QED
    BY <2>1, <2>2, <2>3 DEF IInv, ReadTrue
<1>6. Exclusive'
  BY DEF IInv, Exclusive, TypeOK, Flow
<1>7. LaunchKnown'
  BY DEF IInv, LaunchKnown, TypeOK, Flow, Placed, Exclusive
<1>8. StopKnown'
  BY DEF IInv, StopKnown, TypeOK, Flow, Placed, Exclusive
<1>9. RefKnown'
  BY DEF IInv, RefKnown, TypeOK, Flow, Placed, Launching
<1>10. Truthful'
  BY DEF IInv, Truthful, TypeOK, Flow, Placed, Busy, Begun
<1> QED
  BY <1>1, <1>2, <1>3, <1>4, <1>5, <1>6, <1>7, <1>8, <1>9, <1>10
  DEF IInv

\* The deployment's status is saved.
LEMMA SaveDeploymentStep ==
    ASSUME NEW p \in Procs, IInv, SaveDeployment(p)
    PROVE  IInv'
<1> USE LaunchAssumption DEF SaveDeployment, Goto, Unlocked, rowVars, procVars
<1> DEFINE a == ag[p]
           i == dep[p]
           new == IF op[p] = "launch"
                  THEN [status |-> "running", ref |-> TRUE]
                  ELSE [deployments[a][i] EXCEPT !.status = "stopped"]
<1>a. /\ pc[p] = "save_deployment" /\ deployments' = [deployments EXCEPT ![a][i] = new]
      /\ pc' = [pc EXCEPT ![p] = "save_agent"]
  OBVIOUS
<1>b. /\ status' = status /\ current' = current /\ runtime' = runtime /\ up' = up
      /\ writer' = writer /\ op' = op /\ ag' = ag /\ read' = read /\ todo' = todo
      /\ dep' = dep /\ ref' = ref /\ alone' = alone /\ trouble' = trouble
  OBVIOUS
<1> HIDE DEF SaveDeployment
<1>c. /\ a \in Agents /\ op[p] \in {"launch", "stop"} /\ i \in 1 .. Len(deployments[a])
      /\ deployments[a] \in Seq(Deployment) /\ deployments[a][i] \in Deployment
  <2>1. a \in Agents /\ op[p] \in {"launch", "stop"} /\ i \in 1 .. Len(deployments[a])
    BY <1>a DEF IInv, Flow, Placed, TypeOK
  <2> QED
    BY <2>1 DEF IInv, TypeOK
<1>d. /\ new \in Deployment
      /\ op[p] = "launch" => new = [status |-> "running", ref |-> TRUE]
      /\ op[p] = "stop" => new.ref = deployments[a][i].ref
  BY <1>c DEF Deployment
<1> HIDE DEF new
<1>e. /\ deployments' \in [Agents -> Seq(Deployment)]
      /\ \A b \in Agents \ {a} : deployments'[b] = deployments[b]
      /\ deployments'[a] = [deployments[a] EXCEPT ![i] = new]
  <2>1. [deployments[a] EXCEPT ![i] = new] \in Seq(Deployment)
    BY <1>c, <1>d
  <2>2. deployments' = [deployments EXCEPT ![a] = [deployments[a] EXCEPT ![i] = new]]
    BY <1>a
  <2> HIDE DEF a, i
  <2> QED
    BY <1>c, <2>1, <2>2 DEF IInv, TypeOK
<1>f. /\ Len(deployments'[a]) = Len(deployments[a])
      /\ deployments'[a][i] = new
      /\ \A j \in 1 .. Len(deployments[a]) : j # i => deployments'[a][j] = deployments[a][j]
  BY <1>c, <1>e
<1>g. \A b \in Agents :
          /\ Len(deployments'[b]) = Len(deployments[b])
          /\ \A j \in 1 .. Len(deployments[b]) :
                b # a \/ j # i => deployments'[b][j] = deployments[b][j]
  BY <1>e, <1>f
<1>h. /\ pc'[p] = "save_agent" /\ \A q \in Procs \ {p} : pc'[q] = pc[q]
      /\ pc' \in [Procs -> {"idle", "draft", "backfill", "load", "deploy", "mark",
                            "enter", "provision", "halt", "save_runtime",
                            "save_deployment", "save_agent"}]
  BY <1>a DEF IInv, TypeOK
<1>i. alone \subseteq Procs
  BY DEF IInv, TypeOK
<1>j. /\ \A b \in Agents : current[b] \in 0 .. Len(deployments[b])
      /\ \A b \in Agents : Len(deployments[b]) \in Nat
      /\ \A q \in Procs : pc[q] # "idle" => ag[q] \in Agents
  BY DEF IInv, Flow, TypeOK
<1>k. \A q \in Procs :
          pc[q] \notin {"idle", "draft", "backfill", "load", "deploy"} =>
              ag[q] \in Agents /\ dep[q] \in 1 .. Len(deployments[ag[q]])
  BY <1>j DEF IInv, Placed
<1> HIDE DEF a, i
<1>1. TypeOK'
  BY <1>b, <1>e, <1>g, <1>h DEF IInv, TypeOK
<1>2. Flow'
  BY <1>a, <1>b, <1>c, <1>h DEF IInv, Flow
<1>3. Placed'
  BY <1>a, <1>b, <1>g, <1>h, <1>k DEF IInv, Placed
<1>4. Looking'
  BY <1>a, <1>b, <1>h DEF IInv, Looking
<1>5. ReadTrue'
  BY <1>b DEF IInv, ReadTrue
<1>6. Exclusive'
  BY <1>b DEF IInv, Exclusive
<1>7. LaunchKnown'
  <2> SUFFICES ASSUME NEW q \in alone, op[q] = "launch"
               PROVE  /\ pc'[q] \in {"save_deployment", "save_agent"} => ag[q] \in up
                      /\ pc'[q] = "save_agent" =>
                             deployments'[ag[q]][dep[q]] = [status |-> "running", ref |-> TRUE]
    BY <1>b DEF LaunchKnown
  <2>1. CASE q = p
    BY <1>a, <1>d, <1>f, <1>h, <2>1 DEF IInv, LaunchKnown, a, i
  <2>2. CASE q # p
    <3>1. q \in Procs /\ pc'[q] = pc[q]
      BY <1>h, <1>i, <2>2
    <3>2. ASSUME pc[q] = "save_agent" PROVE ag[q] # a \/ dep[q] # i
      BY <1>a, <1>c, <2>2, <3>1, <3>2 DEF IInv, Exclusive, Placed, a, i
    <3> QED
      BY <1>g, <1>k, <3>1, <3>2 DEF IInv, LaunchKnown
  <2> QED
    BY <2>1, <2>2
<1>8. StopKnown'
  <2> SUFFICES ASSUME NEW q \in alone, op[q] = "stop",
                      pc'[q] \in {"halt", "save_runtime", "save_deployment", "save_agent"}
               PROVE  /\ current[ag[q]] = dep[q]
                      /\ deployments'[ag[q]][dep[q]].ref = ref[q]
                      /\ ~ref[q] => ag[q] \in trouble
                      /\ ref[q] /\ pc'[q] # "halt" => ag[q] \notin up
    BY <1>b DEF StopKnown
  <2>1. q \in Procs /\ pc[q] \in {"halt", "save_runtime", "save_deployment", "save_agent"}
    BY <1>a, <1>h, <1>i
  <2>2. /\ current[ag[q]] = dep[q]
        /\ deployments[ag[q]][dep[q]].ref = ref[q]
        /\ ~ref[q] => ag[q] \in trouble
        /\ ref[q] /\ pc[q] # "halt" => ag[q] \notin up
    BY <2>1 DEF IInv, StopKnown
  <2>3. ASSUME ag[q] = a PROVE op[p] = "stop"
    BY <1>c, <2>1, <2>3 DEF IInv, Exclusive, a
  <2>4. deployments'[ag[q]][dep[q]].ref = deployments[ag[q]][dep[q]].ref
    BY <1>d, <1>f, <1>g, <1>k, <2>1, <2>3
  <2>5. pc[q] = "halt" <=> pc'[q] = "halt"
    BY <1>a, <1>h, <2>1
  <2> QED
    BY <2>2, <2>4, <2>5
<1>9. RefKnown'
  <2> SUFFICES ASSUME NEW b \in Agents, b \notin trouble, current[b] # 0,
                      ~\E q \in Procs : ag'[q] = b /\ Launching(q)'
               PROVE  deployments'[b][current[b]].ref
    BY <1>b DEF RefKnown
  <2>1. ~\E q \in Procs : ag[q] = b /\ Launching(q)
    BY <1>a, <1>b, <1>h DEF Launching
  <2>2. deployments[b][current[b]].ref
    BY <2>1 DEF IInv, RefKnown
  <2>3. CASE b = a /\ current[b] = i
    <3>1. op[p] = "stop"
      BY <1>a, <1>b, <1>c, <2>1, <2>3 DEF Launching, a
    <3> QED
      BY <1>d, <1>f, <2>2, <2>3, <3>1
  <2>4. CASE ~(b = a /\ current[b] = i)
    BY <1>g, <1>j, <2>2, <2>4
  <2> QED
    BY <2>3, <2>4
<1>10. Truthful'
  <2> SUFFICES ASSUME NEW b \in Agents, b \notin trouble', ~Busy(b)'
               PROVE  /\ status'[b] = "running" =>
                            /\ b \in up'
                            /\ deployments'[b][current'[b]] = [status |-> "running", ref |-> TRUE]
                      /\ status'[b] = "stopped" => b \notin up'
                      /\ status'[b] # "launching"
    BY DEF Truthful
  <2>1. b # a
    BY <1>b, <1>c, <1>h DEF Busy, Begun, a
  <2>2. ~Busy(b)
    BY <1>a, <1>b, <1>h, <2>1 DEF Busy, Begun, a
  <2> QED
    BY <1>b, <1>e, <2>1, <2>2 DEF IInv, Truthful
<1> QED
  BY <1>1, <1>2, <1>3, <1>4, <1>5, <1>6, <1>7, <1>8, <1>9, <1>10
  DEF IInv

\* The agent's status is saved.
LEMMA SaveAgentStep ==
    ASSUME NEW p \in Procs, IInv, SaveAgent(p)
    PROVE  IInv'
<1> USE LaunchAssumption DEF SaveAgent, Over, NothingRead, Goto, Unlocked,
      rowVars, procVars
<1> DEFINE a == ag[p]
           bad == p \notin alone \/ (ag[p] \in trouble /\ op[p] = "stop" /\ ~ref[p])
<1>a. /\ pc[p] = "save_agent" /\ Over(p, bad)
      /\ deployments' = deployments /\ runtime' = runtime /\ up' = up /\ writer' = writer
      /\ writer = NoProc
  OBVIOUS
<1>b. /\ op[p] = "launch" =>
            /\ status' = [status EXCEPT ![a] = "running"]
            /\ current' = [current EXCEPT ![a] = dep[p]]
      /\ op[p] # "launch" =>
            /\ status' = [status EXCEPT ![a] = "stopped"]
            /\ current' = current
  OBVIOUS
<1> HIDE DEF SaveAgent
<1>c. /\ a \in Agents /\ op[p] \in {"launch", "stop"} /\ dep[p] \in 1 .. Len(deployments[a])
      /\ todo[p] = {} /\ status[a] # "none"
  <2>1. a \in Agents /\ op[p] \in {"launch", "stop"} /\ dep[p] \in 1 .. Len(deployments[a])
    BY <1>a DEF IInv, Flow, Placed, TypeOK
  <2> QED
    BY <1>a, <2>1 DEF IInv, Looking, Placed
<1>d. /\ pc'[p] = "idle" /\ op'[p] = "get" /\ ag'[p] = NoAgent /\ todo'[p] = {}
      /\ alone' = alone \ {p}
      /\ trouble' = IF bad THEN trouble \cup {a} ELSE trouble \ {a}
      /\ \A q \in Procs \ {p} : /\ pc'[q] = pc[q] /\ op'[q] = op[q] /\ ag'[q] = ag[q]
                                /\ read'[q] = read[q] /\ todo'[q] = todo[q]
                                /\ dep'[q] = dep[q] /\ ref'[q] = ref[q]
  BY <1>a DEF IInv, TypeOK
<1>e. /\ status' \in [Agents -> {"none", "draft", "ready", "launching", "running", "stopped"}]
      /\ current' \in [Agents -> Nat]
      /\ \A b \in Agents \ {a} : status'[b] = status[b] /\ current'[b] = current[b]
      /\ status'[a] = IF op[p] = "launch" THEN "running" ELSE "stopped"
      /\ current'[a] = IF op[p] = "launch" THEN dep[p] ELSE current[a]
  <2>1. /\ dep[p] \in Nat /\ current \in [Agents -> Nat]
        /\ status \in [Agents -> {"none", "draft", "ready", "launching", "running", "stopped"}]
    BY DEF IInv, TypeOK, Placed
  <2>2. CASE op[p] = "launch"
    BY <1>b, <1>c, <2>1, <2>2
  <2>3. CASE op[p] = "stop"
    BY <1>b, <1>c, <2>1, <2>3
  <2> QED
    BY <1>c, <2>2, <2>3
<1>f. alone \subseteq Procs
  BY DEF IInv, TypeOK
<1>g. /\ status[a] \notin {"none", "draft"} => current[a] # 0
      /\ op[p] = "stop" /\ ~bad => current[a] = dep[p]
  BY <1>a, <1>c DEF IInv, Placed, StopKnown
<1>h. ~bad /\ op[p] = "launch" =>
          a \in up /\ deployments[a][dep[p]] = [status |-> "running", ref |-> TRUE]
  BY <1>a DEF IInv, LaunchKnown
<1>i. ~bad /\ op[p] = "stop" => a \notin up /\ deployments[a][dep[p]].ref
  BY <1>a, <1>c DEF IInv, StopKnown
<1>j. \A q \in Procs : pc[q] # "idle" => ag[q] \in Agents
  BY DEF IInv, Flow, TypeOK
<1> HIDE DEF Over, NothingRead, bad, a
<1>1. TypeOK'
  <2>1. bad \in BOOLEAN
    BY DEF bad
  <2>2. \A b \in Agents : current'[b] \in 0 .. Len(deployments[b])
    <3>1. \A b \in Agents : current[b] \in 0 .. Len(deployments[b])
      BY DEF IInv, TypeOK
    <3>2. current'[a] \in 0 .. Len(deployments[a])
      BY <1>c, <1>e, <3>1
    <3> QED
      BY <1>e, <3>1, <3>2
  <2>3. RowType'
    BY <1>a, <1>e, <2>2 DEF IInv, TypeOK, RowType
  <2> QED
    BY <1>a, <1>c, <2>1, <2>3, OverType DEF IInv, a
<1>2. Flow'
  BY <1>a, <1>d DEF IInv, Flow, TypeOK
<1>3. Placed'
  <2>1. \A b \in Agents : status'[b] \notin {"none", "draft"} => current'[b] # 0
    <3>1. \A b \in Agents : status[b] \notin {"none", "draft"} => current[b] # 0
      BY DEF IInv, Placed
    <3>2. current[a] # 0
      BY <1>a DEF IInv, Placed, a
    <3>3. current'[a] # 0
      BY <1>c, <1>e, <3>2
    <3> QED
      BY <1>e, <3>1, <3>3
  <2>2. \A b \in Agents : status'[b] = "none" => status[b] = "none"
    BY <1>c, <1>e
  <2>3. \A q \in Procs :
          /\ pc'[q] \notin {"idle", "draft", "backfill", "load"} => status'[ag'[q]] # "none"
          /\ pc'[q] \notin {"idle", "draft", "backfill", "load", "deploy"} =>
                 dep'[q] \in 1 .. Len(deployments'[ag'[q]])
    BY <1>a, <1>d, <1>j, <2>2 DEF IInv, Placed
  <2>5. \A q \in Procs :
            pc'[q] \in {"enter", "provision", "halt", "save_runtime",
                        "save_deployment", "save_agent"} =>
                current'[ag'[q]] # 0
    <3>1. \A b \in Agents : current[b] # 0 => current'[b] # 0
      BY <1>c, <1>e
    <3> QED
      BY <1>d, <1>j, <3>1 DEF IInv, Placed
  <2>4. \A q, s \in Procs :
          /\ pc'[q] \in {"mark", "enter", "provision", "save_deployment", "save_agent"}
          /\ pc'[s] \in {"mark", "enter", "provision", "save_deployment", "save_agent"}
          /\ op'[q] = "launch" /\ op'[s] = "launch" /\ ag'[q] = ag'[s] /\ dep'[q] = dep'[s]
          => q = s
    BY <1>d DEF IInv, Placed
  <2> QED
    BY <1>e, <2>1, <2>3, <2>4, <2>5 DEF Placed
<1>4. Looking'
  BY <1>c, <1>d, <1>e DEF IInv, Looking
<1>5. ReadTrue'
  <2>1. ASSUME NEW r \in Agents, status'[r] = "none"
        PROVE  /\ r # a /\ status[r] = "none"
               /\ r \notin trouble' => r \notin trouble
    BY <1>c, <1>d, <1>e, <2>1
  <2> QED
    BY <1>a, <1>d, <2>1 DEF IInv, ReadTrue
<1>6. Exclusive'
  BY <1>d DEF IInv, Exclusive
<1>7. LaunchKnown'
  BY <1>a, <1>d, <1>f DEF IInv, LaunchKnown
<1>8. StopKnown'
  <2> SUFFICES ASSUME NEW q \in alone', op'[q] = "stop",
                      pc'[q] \in {"halt", "save_runtime", "save_deployment", "save_agent"}
               PROVE  /\ current'[ag'[q]] = dep'[q]
                      /\ deployments'[ag'[q]][dep'[q]].ref = ref'[q]
                      /\ ~ref'[q] => ag'[q] \in trouble'
                      /\ ref'[q] /\ pc'[q] # "halt" => ag'[q] \notin up'
    BY DEF StopKnown
  <2>1. /\ q \in alone /\ q \in Procs /\ q # p /\ op[q] = "stop"
        /\ pc[q] \in {"halt", "save_runtime", "save_deployment", "save_agent"}
        /\ ag'[q] = ag[q] /\ dep'[q] = dep[q] /\ ref'[q] = ref[q] /\ pc'[q] = pc[q]
        /\ ag[q] \in Agents
    BY <1>d, <1>f, <1>j
  <2>2. /\ current[ag[q]] = dep[q]
        /\ deployments[ag[q]][dep[q]].ref = ref[q]
        /\ ~ref[q] => ag[q] \in trouble
        /\ ref[q] /\ pc[q] # "halt" => ag[q] \notin up
    BY <2>1 DEF IInv, StopKnown
  <2>3. CASE ag[q] = a
    <3>1. op[p] = "stop" /\ p \in alone
      BY <1>c, <2>1, <2>3 DEF IInv, Exclusive, a
    <3>2. current'[a] = current[a]
      BY <1>e, <3>1
    <3>3. ref[p] = ref[q]
      BY <1>a, <2>2, <2>3, <3>1 DEF IInv, StopKnown, a
    <3> QED
      BY <1>a, <1>d, <2>1, <2>2, <2>3, <3>1, <3>2, <3>3 DEF bad, a
  <2>4. CASE ag[q] # a
    BY <1>a, <1>d, <1>e, <2>1, <2>2, <2>4
  <2> QED
    BY <2>3, <2>4
<1>9. RefKnown'
  <2> SUFFICES ASSUME NEW b \in Agents, b \notin trouble', current'[b] # 0,
                      ~\E q \in Procs : ag'[q] = b /\ Launching(q)'
               PROVE  deployments'[b][current'[b]].ref
    BY DEF RefKnown
  <2>1. CASE b = a
    BY <1>a, <1>c, <1>d, <1>e, <1>g, <1>h, <1>i, <2>1
  <2>2. CASE b # a
    <3>1. ~\E q \in Procs : ag[q] = b /\ Launching(q)
      BY <1>d, <2>2 DEF Launching, a
    <3> QED
      BY <1>a, <1>d, <1>e, <2>2, <3>1 DEF IInv, RefKnown
  <2> QED
    BY <2>1, <2>2
<1>10. Truthful'
  <2> SUFFICES ASSUME NEW b \in Agents, b \notin trouble', ~Busy(b)'
               PROVE  /\ status'[b] = "running" =>
                            /\ b \in up'
                            /\ deployments'[b][current'[b]] = [status |-> "running", ref |-> TRUE]
                      /\ status'[b] = "stopped" => b \notin up'
                      /\ status'[b] # "launching"
    BY DEF Truthful
  <2>1. CASE b = a
    BY <1>a, <1>c, <1>d, <1>e, <1>h, <1>i, <2>1
  <2>2. CASE b # a
    <3>1. ~Busy(b)
      BY <1>d, <1>f, <2>2 DEF Busy, Begun, a
    <3> QED
      BY <1>a, <1>d, <1>e, <2>2, <3>1 DEF IInv, Truthful
  <2> QED
    BY <2>1, <2>2
<1> QED
  BY <1>1, <1>2, <1>3, <1>4, <1>5, <1>6, <1>7, <1>8, <1>9, <1>10
  DEF IInv

\* An operation breaks off.
LEMMA FailStep ==
    ASSUME NEW p \in Procs, IInv, Fail(p)
    PROVE  IInv'
<1> USE LaunchAssumption DEF Fail, Over, NothingRead, Goto, Unlocked, rowVars,
      procVars
<1> DEFINE a == ag[p]
           bad == ag[p] \in trouble \/ Begun(p) \/ p \notin alone \/ up' # up
<1>a. /\ pc[p] # "idle" /\ a \in Agents
      /\ status' = status /\ current' = current /\ deployments' = deployments
      /\ runtime' = runtime
      /\ pc'[p] = "idle" /\ ag'[p] = NoAgent /\ op'[p] = "get" /\ todo'[p] = {}
      /\ alone' = alone \ {p}
  BY DEF IInv, Flow, TypeOK
<1>b. \A q \in Procs \ {p} : /\ pc'[q] = pc[q] /\ op'[q] = op[q] /\ ag'[q] = ag[q]
                             /\ read'[q] = read[q] /\ todo'[q] = todo[q]
                             /\ dep'[q] = dep[q] /\ ref'[q] = ref[q]
  BY DEF IInv, TypeOK
<1>c. /\ trouble' = IF bad THEN trouble \cup {a} ELSE trouble \ {a}
      /\ UNCHANGED up \/ up' = up \cup {a} \/ up' = up \ {a}
      /\ up' # up => pc[p] \in {"provision", "halt"}
  OBVIOUS
<1>d. /\ \A b \in Agents \ {a} : /\ b \in up' <=> b \in up
                                 /\ b \in trouble' <=> b \in trouble
      /\ a \notin trouble' => up' = up /\ ~Begun(p) /\ p \in alone /\ a \notin trouble
  BY <1>c
<1>1. TypeOK'
  BY DEF IInv, TypeOK, AllOps, Lifecycle, Flow
<1>2. Flow'
  BY DEF IInv, Flow, TypeOK, AllOps
<1>3. Placed'
  BY DEF IInv, Placed, TypeOK, Flow
<1>4. Looking'
  BY DEF IInv, Looking, TypeOK, Flow
<1>5. ReadTrue'
  <2> HIDE DEF Fail, Over
  <2>1. up' # up => status[a] # "none"
    BY <1>a, <1>c DEF IInv, Placed
  <2> HIDE DEF a, bad
  <2> SUFFICES ASSUME NEW r \in Agents, status[r] = "none"
               PROVE  /\ runtime[r] = "running" => r \in up'
                      /\ runtime[r] = "stopped" => r \notin up'
                      /\ r \notin trouble' => \A q \in Procs : r \in todo'[q] => read'[q][r] = runtime[r]
    BY <1>a DEF ReadTrue
  <2>2. (r \in up' <=> r \in up) /\ (r \notin trouble' => r \notin trouble)
    BY <1>d, <2>1
  <2> QED
    BY <1>a, <1>b, <2>2 DEF IInv, ReadTrue
<1>6. Exclusive'
  BY DEF IInv, Exclusive, TypeOK, Flow
<1>7. LaunchKnown'
  BY DEF IInv, LaunchKnown, TypeOK, Flow, Placed, Exclusive
<1>8. StopKnown'
  BY DEF IInv, StopKnown, TypeOK, Flow, Placed, Exclusive
<1>9. RefKnown'
  <2> HIDE DEF Fail, Over
  <2> SUFFICES ASSUME NEW b \in Agents, b \notin trouble', current[b] # 0,
                      ~\E q \in Procs : ag'[q] = b /\ Launching(q)'
               PROVE  deployments[b][current[b]].ref
    BY <1>a DEF RefKnown
  <2>1. b \notin trouble
    BY <1>d
  <2>2. ~\E q \in Procs : ag[q] = b /\ Launching(q)
    BY <1>b, <1>d DEF Launching, Begun
  <2> QED
    BY <2>1, <2>2 DEF IInv, RefKnown
<1>10. Truthful'
  <2> HIDE DEF Fail, Over
  <2> SUFFICES ASSUME NEW b \in Agents, b \notin trouble', ~Busy(b)'
               PROVE  /\ status'[b] = "running" =>
                            /\ b \in up'
                            /\ deployments'[b][current'[b]] = [status |-> "running", ref |-> TRUE]
                      /\ status'[b] = "stopped" => b \notin up'
                      /\ status'[b] # "launching"
    BY DEF Truthful
  <2>1. b \notin trouble /\ (b \in up' <=> b \in up)
    BY <1>d
  <2>2. ~Busy(b)
    BY <1>a, <1>b, <1>d DEF Busy, Begun
  <2> QED
    BY <1>a, <2>1, <2>2 DEF IInv, Truthful
<1> QED
  BY <1>1, <1>2, <1>3, <1>4, <1>5, <1>6, <1>7, <1>8, <1>9, <1>10
  DEF IInv

\* A runtime is changed directly.
LEMMA DirectStep ==
    ASSUME NEW r \in Agents, IInv, Direct(r)
    PROVE  IInv'
<1> USE LaunchAssumption DEF Direct, Goto, Unlocked, rowVars, procVars
<1>1. TypeOK'
  <2>1. runtime' \in [Agents -> Lifecycle \cup {"none"}]
    BY ZenonT(40) DEF IInv, TypeOK, Lifecycle
  <2>2. up' \subseteq Agents
    BY DEF IInv, TypeOK
  <2>3. trouble' \subseteq Agents /\ alone' \subseteq Procs
    BY DEF IInv, TypeOK
  <2>4. UNCHANGED <<status, current, deployments, writer, procVars>>
    OBVIOUS
  <2> HIDE DEF Direct
  <2> QED
    BY <2>1, <2>2, <2>3, <2>4 DEF IInv, TypeOK
<1>2. Flow'
  BY DEF IInv, Flow, TypeOK, AllOps
<1>3. Placed'
  BY DEF IInv, Placed, TypeOK, Flow
<1>4. Looking'
  BY DEF IInv, Looking, TypeOK, Flow
<1>5. ReadTrue'
  BY DEF IInv, ReadTrue, TypeOK, Flow, Placed, Looking
<1>6. Exclusive'
  BY DEF IInv, Exclusive, TypeOK, Flow
<1>7. LaunchKnown'
  BY DEF IInv, LaunchKnown, TypeOK, Flow, Placed, Exclusive
<1>8. StopKnown'
  BY DEF IInv, StopKnown, TypeOK, Flow, Placed, Exclusive
<1>9. RefKnown'
  BY DEF IInv, RefKnown, TypeOK, Flow, Placed, Launching
<1>10. Truthful'
  BY DEF IInv, Truthful, TypeOK, Flow, Placed, Busy, Begun
<1> QED
  BY <1>1, <1>2, <1>3, <1>4, <1>5, <1>6, <1>7, <1>8, <1>9, <1>10
  DEF IInv

-----------------------------------------------------------------------------
(***************************************************************************)
(* The invariant and the theorems                                          *)
(***************************************************************************)

\* No agents yet, and the runtimes of a JSON state: the invariant holds.
LEMMA InitIInv == Init => IInv
<1> SUFFICES ASSUME Init PROVE IInv
  OBVIOUS
<1> USE LaunchAssumption DEF Init
<1>1. TypeOK
  BY DEF TypeOK, AllOps, Lifecycle, NothingRead
<1>2. Flow /\ Looking /\ Exclusive /\ LaunchKnown /\ StopKnown
  BY DEF Flow, Looking, Exclusive, LaunchKnown, StopKnown
<1>3. Placed /\ ReadTrue
  BY DEF Placed, ReadTrue
<1>4. RefKnown /\ Truthful
  BY DEF RefKnown, Truthful
<1> QED
  BY <1>1, <1>2, <1>3, <1>4 DEF IInv

\* A step that changes nothing keeps the invariant.
LEMMA StutterStep == IInv /\ UNCHANGED vars => IInv'
<1> SUFFICES ASSUME IInv, UNCHANGED vars PROVE IInv'
  OBVIOUS
<1> USE DEF vars, rowVars, procVars
<1>1. (TypeOK /\ Flow /\ Placed /\ Looking /\ ReadTrue)'
  BY DEF IInv, TypeOK, Flow, Placed, Looking, ReadTrue
<1>2. (Exclusive /\ LaunchKnown /\ StopKnown)'
  BY DEF IInv, Exclusive, LaunchKnown, StopKnown
<1>3. (RefKnown /\ Truthful)'
  BY DEF IInv, RefKnown, Launching, Truthful, Busy, Begun
<1> QED
  BY <1>1, <1>2, <1>3 DEF IInv

\* Every step keeps the invariant.
LEMMA NextIInv == IInv /\ [Next]_vars => IInv'
<1> SUFFICES ASSUME IInv, [Next]_vars PROVE IInv'
  OBVIOUS
<1>1. ASSUME NEW p \in Procs, NEW o \in Ops, NEW a \in Agents, Request(p, o, a)
      PROVE  IInv'
  BY <1>1, RequestStep
<1>2. ASSUME NEW p \in Procs,
             \/ Draft(p) \/ Backfill(p) \/ BackfillDone(p) \/ Load(p)
             \/ Deploy(p) \/ Mark(p) \/ Enter(p) \/ Provision(p)
             \/ Halt(p) \/ SaveRuntime(p) \/ SaveDeployment(p) \/ SaveAgent(p)
             \/ Fail(p)
      PROVE  IInv'
  BY <1>2, DraftStep, BackfillStep, BackfillDoneStep, LoadStep, DeployStep, MarkStep,
     EnterStep, ProvisionStep, HaltStep, SaveRuntimeStep, SaveDeploymentStep,
     SaveAgentStep, FailStep
<1>3. ASSUME NEW r \in Agents, Direct(r)
      PROVE  IInv'
  BY <1>3, DirectStep
<1>4. CASE UNCHANGED vars
  BY <1>4, StutterStep
<1> QED
  BY <1>1, <1>2, <1>3, <1>4 DEF Next

\* The invariant holds in every reachable state.
THEOREM Invariance == Spec => []IInv
BY InitIInv, NextIInv, PTL DEF Spec

\* What the operator sees of an agent is true, but while operations are at work
\* on it and where one broke off, raced or went past the agent.
THEOREM AgentsTrue == Spec => []AgentTruthful
<1>1. IInv => AgentTruthful
  <2> SUFFICES ASSUME IInv PROVE AgentTruthful
    OBVIOUS
  <2>1. \A a \in Agents : Busy(a) => Working(a)
    BY DEF Busy, Working
  <2> QED
    BY <2>1 DEF IInv, Truthful, AgentTruthful
<1> QED
  BY <1>1, Invariance, PTL

\* A look-up that is over has an agent for every runtime there was when it
\* began, whichever of the requests has made it.
THEOREM LookupsComplete == Spec => []BackfillComplete
<1>1. IInv => BackfillComplete
  BY DEF IInv, Looking, BackfillComplete
<1> QED
  BY <1>1, Invariance, PTL

-----------------------------------------------------------------------------
(***************************************************************************)
(* Undisturbed operation                                                   *)
(*                                                                         *)
(* While no launch meets a stop, none of them breaks off once it has       *)
(* begun, and nobody goes past the agents, the rows of agent, deployment   *)
(* and runtime and the container agree on every agent nobody is at.        *)
(* Launches may meet launches, and stops stops; operations on other agents *)
(* and look-ups do not matter.                                             *)
(***************************************************************************)

CalmNext ==
    \/ \E p \in Procs :
          \/ \E o \in Ops, a \in Agents : Request(p, o, a) /\ Rivals(o, a) = {}
          \/ Draft(p) \/ Backfill(p) \/ BackfillDone(p) \/ Load(p)
          \/ Deploy(p) \/ Mark(p) \/ Enter(p) \/ Provision(p)
          \/ Halt(p) \/ SaveRuntime(p) \/ SaveDeployment(p) \/ SaveAgent(p)
          \/ ~ Begun(p) /\ up' = up /\ Fail(p)
    \/ \E r \in Agents :
          /\ status[r] = "none" /\ \A p \in Procs : ag[p] # r /\ r \notin todo[p]
          /\ Direct(r)

Undisturbed == Init /\ [][CalmNext]_vars

\* Agent, current deployment, runtime and container tell the same of a.
RecordsAgree(a) ==
    /\ status[a] = "running" =>
          /\ runtime[a] = "running" /\ a \in up
          /\ deployments[a][current[a]] = [status |-> "running", ref |-> TRUE]
    /\ status[a] = "stopped" =>
          /\ runtime[a] = "stopped" /\ a \notin up
          /\ deployments[a][current[a]] = [status |-> "stopped", ref |-> TRUE]
    /\ status[a] = "ready" =>
          /\ runtime[a] = "created"
          /\ deployments[a][current[a]] = [status |-> "stopped", ref |-> TRUE]
    /\ status[a] # "launching"

AtRest == \A a \in Agents : (\A p \in Procs : ag[p] # a) => RecordsAgree(a)

\* There are no rivals and there is no trouble.
Calm == trouble = {} /\ \A p \in Procs : pc[p] # "idle" => p \in alone

\* What a launch and a stop have reached, beside LaunchKnown and StopKnown.
Reached ==
    \A p \in Procs :
        /\ op[p] = "launch" /\ pc[p] \in {"save_deployment", "save_agent"} =>
               runtime[ag[p]] = "running"
        /\ op[p] = "stop" /\ pc[p] \in {"save_deployment", "save_agent"} =>
               runtime[ag[p]] = "stopped"
        /\ op[p] = "stop" /\ pc[p] = "save_agent" =>
               deployments[ag[p]][dep[p]] = [status |-> "stopped", ref |-> TRUE]

\* The records agree unless a launch or a stop is between its first write and
\* its last.
Agreed == \A a \in Agents : (\E p \in Procs : ag[p] = a /\ Begun(p)) \/ RecordsAgree(a)

CalmInv == Calm /\ Reached /\ Agreed

\* An operation begins.
LEMMA RequestCalm ==
    ASSUME NEW p \in Procs, NEW o \in Ops, NEW a \in Agents, Request(p, o, a), Rivals(o, a) = {}, IInv, CalmInv
    PROVE  CalmInv'
<1> USE DEF Request, Goto, rowVars
<1>1. Calm'
  BY DEF IInv, TypeOK, Flow, CalmInv, Calm
<1>2. Reached'
  BY DEF IInv, TypeOK, Flow, Placed, Exclusive, StopKnown, CalmInv, Calm, Reached, Deployment
<1>3. Agreed'
  <2>1. \A q \in Procs : Begun(q) => q # p
    BY DEF Begun
  <2>2. \A q \in Procs \ {p} : pc'[q] = pc[q] /\ ag'[q] = ag[q]
    BY DEF IInv, TypeOK
  <2>3. \A b \in Agents : RecordsAgree(b) => RecordsAgree(b)'
    BY DEF RecordsAgree
  <2> QED
    BY <2>1, <2>2, <2>3 DEF CalmInv, Agreed, Begun
<1> QED
  BY <1>1, <1>2, <1>3 DEF CalmInv

\* A draft is made.
LEMMA DraftCalm ==
    ASSUME NEW p \in Procs, Draft(p), IInv, CalmInv
    PROVE  CalmInv'
<1> USE DEF Draft, Over, Goto, rowVars
<1>1. Calm'
  BY DEF IInv, TypeOK, Flow, CalmInv, Calm
<1>2. Reached'
  BY DEF IInv, TypeOK, Flow, Placed, Exclusive, StopKnown, CalmInv, Calm, Reached, Deployment
<1>3. Agreed'
  BY DEF IInv, TypeOK, Flow, Placed, Exclusive, LaunchKnown, StopKnown, CalmInv, Calm, Reached, Agreed,
      RecordsAgree, Begun, Deployment
<1> QED
  BY <1>1, <1>2, <1>3 DEF CalmInv

\* A look-up makes an agent as its runtime is.
LEMMA BackfillCalm ==
    ASSUME NEW p \in Procs, Backfill(p), IInv, CalmInv
    PROVE  CalmInv'
<1> USE DEF Backfill, AddAgent, Goto, rowVars
<1>1. Calm'
  BY DEF IInv, TypeOK, Flow, CalmInv, Calm
<1>a. PICK r \in todo[p] :
          /\ todo' = [todo EXCEPT ![p] = @ \ {r}]
          /\ IF status[r] # "none"
             THEN UNCHANGED <<status, current, deployments>>
             ELSE AddAgent(p, r)
  OBVIOUS
<1>b. /\ r \in Agents
      /\ status[r] = "none" => read[p][r] = runtime[r] /\ runtime[r] \in Lifecycle
  BY DEF IInv, TypeOK, Looking, ReadTrue, CalmInv, Calm
<1>c. \A q \in Procs : pc[q] \in {"save_deployment", "save_agent"} => status[ag[q]] # "none"
  BY DEF IInv, Placed
<1>d. \A b \in Agents : status[b] # "none" => deployments'[b] = deployments[b]
  BY <1>a DEF IInv, TypeOK
<1>2. Reached'
  BY <1>c, <1>d DEF IInv, TypeOK, Flow, CalmInv, Reached
<1>3. Agreed'
  <2>1. \A b \in Agents : b # r \/ status[r] # "none" => (RecordsAgree(b) => RecordsAgree(b)')
    BY <1>a DEF IInv, TypeOK, Placed, RecordsAgree
  <2>2. status[r] = "none" => RecordsAgree(r)'
    <3> SUFFICES ASSUME status[r] = "none" PROVE RecordsAgree(r)'
      OBVIOUS
    <3>1. /\ status'[r] = AgentStatus(runtime[r]) /\ current'[r] = 1
          /\ deployments'[r][1] = [status |-> DeploymentStatus(runtime[r]), ref |-> TRUE]
      BY <1>a, <1>b DEF IInv, TypeOK, Placed
    <3>2. /\ runtime[r] = "running" => r \in up
          /\ runtime[r] = "stopped" => r \notin up
      BY <1>b DEF IInv, ReadTrue
    <3> QED
      BY <1>b, <3>1, <3>2 DEF RecordsAgree, AgentStatus, DeploymentStatus, Lifecycle
  <2> QED
    BY <1>b, <2>1, <2>2 DEF CalmInv, Agreed, Begun
<1> QED
  BY <1>1, <1>2, <1>3 DEF CalmInv

\* A look-up is over.
LEMMA BackfillDoneCalm ==
    ASSUME NEW p \in Procs, BackfillDone(p), IInv, CalmInv
    PROVE  CalmInv'
<1> USE DEF BackfillDone, Goto, rowVars
<1>1. Calm'
  BY DEF IInv, TypeOK, Flow, CalmInv, Calm
<1>2. Reached'
  BY DEF IInv, TypeOK, Flow, Placed, Exclusive, StopKnown, CalmInv, Calm, Reached, Deployment
<1>3. Agreed'
  BY DEF IInv, TypeOK, Flow, Placed, Exclusive, LaunchKnown, StopKnown, CalmInv, Calm, Reached, Agreed,
      RecordsAgree, Begun, Deployment
<1> QED
  BY <1>1, <1>2, <1>3 DEF CalmInv

\* An agent is loaded; a stop finds a deployment with a runtime.
LEMMA LoadCalm ==
    ASSUME NEW p \in Procs, Load(p), IInv, CalmInv
    PROVE  CalmInv'
<1> USE DEF Load, Over, Goto, rowVars
<1>a. op[p] = "stop" => ref'[p] /\ pc'[p] = "halt"
  <2> SUFFICES ASSUME op[p] = "stop" PROVE ref'[p] /\ pc'[p] = "halt"
    OBVIOUS
  <2>1. p \in alone /\ ag[p] \in Agents \ trouble
    BY DEF IInv, TypeOK, Flow, CalmInv, Calm
  <2>2. ~ \E q \in Procs : ag[q] = ag[p] /\ Launching(q)
    BY <2>1 DEF IInv, Exclusive, Launching
  <2>3. current[ag[p]] # 0 /\ deployments[ag[p]][current[ag[p]]].ref
    BY <2>1, <2>2 DEF IInv, RefKnown
  <2>4. ref' = [ref EXCEPT ![p] = deployments[ag[p]][current[ag[p]]].ref]
    OBVIOUS
  <2>5. ref'[p]
    BY <2>3, <2>4 DEF IInv, TypeOK
  <2>6. pc' = [pc EXCEPT ![p] = IF ref'[p] THEN "halt" ELSE "save_deployment"]
    OBVIOUS
  <2> QED
    BY <2>5, <2>6 DEF IInv, TypeOK
<1>b. op[p] = "launch" => pc' = [pc EXCEPT ![p] = "deploy"] /\ alone' = alone /\ trouble' = trouble
  OBVIOUS
<1>c. op[p] = "get" => Over(p, ag[p] \in trouble)
  OBVIOUS
<1>d. op[p] \in {"get", "launch", "stop"}
  BY DEF IInv, Flow
<1>e. /\ pc'[p] \in {"idle", "deploy", "halt"}
      /\ \A q \in Procs \ {p} : pc'[q] = pc[q] /\ op'[q] = op[q] /\ ag'[q] = ag[q] /\ dep'[q] = dep[q]
  <2>1. pc'[p] \in {"idle", "deploy", "halt"}
    BY <1>a, <1>b, <1>c, <1>d DEF IInv, TypeOK, Over
  <2>2. \A q \in Procs \ {p} : pc'[q] = pc[q]
    BY <1>b, <1>c, <1>d DEF IInv, TypeOK, Over
  <2>3. \A q \in Procs \ {p} : op'[q] = op[q] /\ ag'[q] = ag[q] /\ dep'[q] = dep[q]
    BY <1>c, <1>d DEF IInv, TypeOK, Over
  <2> QED
    BY <2>1, <2>2, <2>3
<1>f. alone' = alone \/ (alone' = (alone \ {p}) /\ pc'[p] = "idle")
  BY <1>a, <1>b, <1>c, <1>d DEF IInv, TypeOK, Over
<1>1. Calm'
  <2>1. trouble' = {}
    BY <1>b, <1>c, <1>d DEF CalmInv, Calm, Over
  <2> QED
    BY <1>e, <1>f, <2>1 DEF CalmInv, Calm
<1>2. Reached'
  BY <1>e DEF CalmInv, Reached
<1>3. Agreed'
  <2>1. \A b \in Agents : RecordsAgree(b) => RecordsAgree(b)'
    BY DEF RecordsAgree
  <2> QED
    BY <1>e, <2>1 DEF CalmInv, Agreed, Begun
<1> QED
  BY <1>1, <1>2, <1>3 DEF CalmInv

\* A launch adds a deployment behind the current one.
LEMMA DeployCalm ==
    ASSUME NEW p \in Procs, Deploy(p), IInv, CalmInv
    PROVE  CalmInv'
<1> USE DEF Deploy, Goto, rowVars
<1>1. Calm'
  BY DEF IInv, TypeOK, Flow, CalmInv, Calm
<1>2. Reached'
  BY DEF IInv, TypeOK, Flow, Placed, Exclusive, StopKnown, CalmInv, Calm, Reached, Deployment
<1>3. Agreed'
  <2>1. ag[p] \in Agents
    BY DEF IInv, TypeOK, Flow
  <2>2. deployments'[ag[p]] = Append(deployments[ag[p]], [status |-> "launching", ref |-> FALSE])
    BY <2>1 DEF IInv, TypeOK
  <2>3. \A i \in 1 .. Len(deployments[ag[p]]) :
            deployments'[ag[p]][i] = deployments[ag[p]][i]
    BY <2>1, <2>2 DEF IInv, TypeOK
  <2>4. \A b \in Agents \ {ag[p]} : deployments'[b] = deployments[b]
    BY DEF IInv, TypeOK
  <2>5. \A b \in Agents : status[b] \in {"running", "stopped", "ready"} =>
            current[b] \in 1 .. Len(deployments[b])
    <3> SUFFICES ASSUME NEW b \in Agents, status[b] \in {"running", "stopped", "ready"}
                 PROVE  current[b] \in 1 .. Len(deployments[b])
      OBVIOUS
    <3>1. current[b] # 0 /\ current[b] \in 0 .. Len(deployments[b]) /\ Len(deployments[b]) \in Nat
      <4>1. current[b] # 0 /\ current[b] \in 0 .. Len(deployments[b])
        BY DEF IInv, TypeOK, Placed
      <4>2. deployments[b] \in Seq(Deployment)
        BY DEF IInv, TypeOK
      <4> QED
        BY <4>1, <4>2
    <3> QED
      BY <3>1
  <2>6. \A b \in Agents : RecordsAgree(b) => RecordsAgree(b)'
    BY <2>3, <2>4, <2>5 DEF RecordsAgree
  <2> QED
    BY <2>6 DEF IInv, TypeOK, CalmInv, Agreed, Begun
<1> QED
  BY <1>1, <1>2, <1>3 DEF CalmInv

\* A launch begins.
LEMMA MarkCalm ==
    ASSUME NEW p \in Procs, Mark(p), IInv, CalmInv
    PROVE  CalmInv'
<1> USE DEF Mark, Goto, rowVars
<1>1. Calm'
  BY DEF IInv, TypeOK, Flow, CalmInv, Calm
<1>2. Reached'
  BY DEF IInv, TypeOK, Flow, Placed, Exclusive, StopKnown, CalmInv, Calm, Reached, Deployment
<1>3. Agreed'
  BY DEF IInv, TypeOK, Flow, Placed, Exclusive, LaunchKnown, StopKnown, CalmInv, Calm, Reached, Agreed,
      RecordsAgree, Begun, Deployment
<1> QED
  BY <1>1, <1>2, <1>3 DEF CalmInv

\* A launch takes the lock.
LEMMA EnterCalm ==
    ASSUME NEW p \in Procs, Enter(p), IInv, CalmInv
    PROVE  CalmInv'
<1> USE DEF Enter, Goto, rowVars
<1>1. Calm'
  BY DEF IInv, TypeOK, Flow, CalmInv, Calm
<1>2. Reached'
  BY DEF IInv, TypeOK, Flow, Placed, Exclusive, StopKnown, CalmInv, Calm, Reached, Deployment
<1>3. Agreed'
  BY DEF IInv, TypeOK, Flow, Placed, Exclusive, LaunchKnown, StopKnown, CalmInv, Calm, Reached, Agreed,
      RecordsAgree, Begun, Deployment
<1> QED
  BY <1>1, <1>2, <1>3 DEF CalmInv

\* The container is up, and its row says so.
LEMMA ProvisionCalm ==
    ASSUME NEW p \in Procs, Provision(p), IInv, CalmInv
    PROVE  CalmInv'
<1> USE DEF Provision, Goto, rowVars
<1>1. Calm'
  BY DEF IInv, TypeOK, Flow, CalmInv, Calm
<1>2. Reached'
  BY DEF IInv, TypeOK, Flow, Placed, Exclusive, StopKnown, CalmInv, Calm, Reached, Deployment
<1>3. Agreed'
  BY DEF IInv, TypeOK, Flow, Placed, Exclusive, LaunchKnown, StopKnown, CalmInv, Calm, Reached, Agreed,
      RecordsAgree, Begun, Deployment
<1> QED
  BY <1>1, <1>2, <1>3 DEF CalmInv

\* A stop begins.
LEMMA HaltCalm ==
    ASSUME NEW p \in Procs, Halt(p), IInv, CalmInv
    PROVE  CalmInv'
<1> USE DEF Halt, Goto, rowVars
<1>1. Calm'
  BY DEF IInv, TypeOK, Flow, CalmInv, Calm
<1>2. Reached'
  BY DEF IInv, TypeOK, Flow, Placed, Exclusive, StopKnown, CalmInv, Calm, Reached, Deployment
<1>3. Agreed'
  BY DEF IInv, TypeOK, Flow, Placed, Exclusive, LaunchKnown, StopKnown, CalmInv, Calm, Reached, Agreed,
      RecordsAgree, Begun, Deployment
<1> QED
  BY <1>1, <1>2, <1>3 DEF CalmInv

\* The row of the runtime says that it is stopped.
LEMMA SaveRuntimeCalm ==
    ASSUME NEW p \in Procs, SaveRuntime(p), IInv, CalmInv
    PROVE  CalmInv'
<1> USE DEF SaveRuntime, Goto, rowVars
<1>1. Calm'
  BY DEF IInv, TypeOK, Flow, CalmInv, Calm
<1>2. Reached'
  BY DEF IInv, TypeOK, Flow, Placed, Exclusive, StopKnown, CalmInv, Calm, Reached, Deployment
<1>3. Agreed'
  BY DEF IInv, TypeOK, Flow, Placed, Exclusive, LaunchKnown, StopKnown, CalmInv, Calm, Reached, Agreed,
      RecordsAgree, Begun, Deployment
<1> QED
  BY <1>1, <1>2, <1>3 DEF CalmInv

\* The deployment has its last status.
LEMMA SaveDeploymentCalm ==
    ASSUME NEW p \in Procs, SaveDeployment(p), IInv, CalmInv
    PROVE  CalmInv'
<1> USE DEF SaveDeployment, Goto, rowVars
<1>1. Calm'
  BY DEF IInv, TypeOK, Flow, CalmInv, Calm
<1>a. p \in alone /\ ag[p] \in Agents /\ op[p] \in {"launch", "stop"}
      /\ dep[p] \in 1 .. Len(deployments[ag[p]])
  BY DEF IInv, TypeOK, Flow, Placed, CalmInv, Calm
<1>b. /\ \A b \in Agents \ {ag[p]} : deployments'[b] = deployments[b]
      /\ deployments'[ag[p]] = [deployments[ag[p]] EXCEPT ![dep[p]] =
             IF op[p] = "launch" THEN [status |-> "running", ref |-> TRUE]
             ELSE [@ EXCEPT !.status = "stopped"]]
  BY <1>a DEF IInv, TypeOK
<1>c. op[p] = "stop" => deployments'[ag[p]][dep[p]] = [status |-> "stopped", ref |-> TRUE]
  <2> SUFFICES ASSUME op[p] = "stop"
               PROVE  deployments'[ag[p]][dep[p]] = [status |-> "stopped", ref |-> TRUE]
    OBVIOUS
  <2> DEFINE old == deployments[ag[p]][dep[p]]
             new == [old EXCEPT !.status = "stopped"]
  <2>1. old \in Deployment /\ old.ref = TRUE /\ deployments[ag[p]] \in Seq(Deployment)
    BY <1>a DEF IInv, TypeOK, StopKnown, CalmInv, Calm
  <2>2. new \in Deployment /\ new.status = "stopped" /\ new.ref = TRUE
    BY <2>1 DEF Deployment
  <2>3. new = [status |-> "stopped", ref |-> TRUE]
    <3> HIDE DEF new
    <3>1. \A d \in Deployment : d = [status |-> d.status, ref |-> d.ref]
      BY DEF Deployment
    <3> QED
      BY <2>2, <3>1
  <2>4. deployments'[ag[p]] = [deployments[ag[p]] EXCEPT ![dep[p]] = new]
    BY <1>b
  <2>5. dep[p] \in DOMAIN deployments[ag[p]]
    BY <1>a, <2>1
  <2> HIDE DEF new
  <2> QED
    BY <2>3, <2>4, <2>5, Zenon
<1>2. Reached'
  <2> SUFFICES ASSUME NEW q \in Procs, op'[q] = "stop", pc'[q] = "save_agent"
               PROVE  deployments'[ag[q]][dep[q]] = [status |-> "stopped", ref |-> TRUE]
    BY DEF IInv, TypeOK, CalmInv, Reached
  <2>1. CASE q = p
    BY <1>c, <2>1
  <2>2. CASE q # p /\ ag[q] # ag[p]
    BY <1>b, <2>2 DEF IInv, TypeOK, Flow, CalmInv, Reached
  <2>3. CASE q # p /\ ag[q] = ag[p]
    <3>1. op[p] = "stop" /\ q \in alone /\ pc[q] = "save_agent"
      BY <1>a, <2>3 DEF IInv, TypeOK, Exclusive
    <3>2. dep[q] = dep[p]
      BY <1>a, <2>3, <3>1 DEF IInv, StopKnown
    <3> QED
      BY <1>c, <2>3, <3>1, <3>2
  <2> QED
    BY <2>1, <2>2, <2>3
<1>3. Agreed'
  BY DEF IInv, TypeOK, Flow, Placed, Exclusive, LaunchKnown, StopKnown, CalmInv, Calm, Reached, Agreed,
      RecordsAgree, Begun, Deployment
<1> QED
  BY <1>1, <1>2, <1>3 DEF CalmInv

\* The agent has its last status.
LEMMA SaveAgentCalm ==
    ASSUME NEW p \in Procs, SaveAgent(p), IInv, CalmInv
    PROVE  CalmInv'
<1> USE DEF SaveAgent, Over, Goto, rowVars
<1>1. Calm'
  BY DEF IInv, TypeOK, Flow, CalmInv, Calm
<1>2. Reached'
  BY DEF IInv, TypeOK, Flow, Placed, Exclusive, StopKnown, CalmInv, Calm, Reached, Deployment
<1>3. Agreed'
  <2>a. /\ p \in alone /\ ag[p] \in Agents /\ op[p] \in {"launch", "stop"}
        /\ trouble = {} /\ Begun(p)
    BY DEF IInv, TypeOK, Flow, CalmInv, Calm, Begun
  <2>b. \A q \in Procs \ {p} : pc'[q] = pc[q] /\ ag'[q] = ag[q]
    BY DEF IInv, TypeOK
  <2>c. PICK a \in Agents : a = ag[p]
    BY <2>a
  <2>1. \A b \in Agents \ {a} : RecordsAgree(b) => RecordsAgree(b)'
    BY <2>c DEF IInv, TypeOK, Placed, RecordsAgree
  <2>2. CASE op[p] = "launch"
    <3>1. /\ status'[a] = "running" /\ current'[a] = dep[p]
          /\ runtime[a] = "running" /\ a \in up
          /\ deployments[a][dep[p]] = [status |-> "running", ref |-> TRUE]
      BY <2>a, <2>c, <2>2 DEF IInv, TypeOK, Placed, LaunchKnown, CalmInv, Reached
    <3>2. RecordsAgree(a)'
      BY <3>1 DEF RecordsAgree
    <3> QED
      BY <2>a, <2>b, <2>c, <2>1, <3>2 DEF CalmInv, Agreed, Begun
  <2>3. CASE op[p] = "stop"
    <3>1. /\ status'[a] = "stopped" /\ current'[a] = dep[p]
          /\ runtime[a] = "stopped" /\ a \notin up
          /\ deployments[a][dep[p]] = [status |-> "stopped", ref |-> TRUE]
      BY <2>a, <2>c, <2>3 DEF IInv, TypeOK, StopKnown, CalmInv, Reached
    <3>2. RecordsAgree(a)'
      BY <3>1 DEF RecordsAgree
    <3> QED
      BY <2>a, <2>b, <2>c, <2>1, <3>2 DEF CalmInv, Agreed, Begun
  <2> QED
    BY <2>a, <2>2, <2>3
<1> QED
  BY <1>1, <1>2, <1>3 DEF CalmInv

\* An operation that has not begun breaks off.
LEMMA FailCalm ==
    ASSUME NEW p \in Procs, ~ Begun(p), up' = up, Fail(p), IInv, CalmInv
    PROVE  CalmInv'
<1> USE DEF Fail, Over, Goto, rowVars
<1>1. Calm'
  BY DEF IInv, TypeOK, Flow, CalmInv, Calm
<1>2. Reached'
  BY DEF IInv, TypeOK, Flow, Placed, Exclusive, StopKnown, CalmInv, Calm, Reached, Deployment
<1>3. Agreed'
  BY DEF IInv, TypeOK, Flow, Placed, Exclusive, LaunchKnown, StopKnown, CalmInv, Calm, Reached, Agreed,
      RecordsAgree, Begun, Deployment
<1> QED
  BY <1>1, <1>2, <1>3 DEF CalmInv

\* Every step of undisturbed operation is one of the specification.
LEMMA CalmIsNext == CalmNext => Next
BY DEF CalmNext, Next

\* An operation on a runtime without an agent that nobody is at concerns none.
LEMMA DirectCalm ==
    ASSUME NEW r \in Agents, status[r] = "none", Direct(r), IInv, CalmInv,
           \A p \in Procs : ag[p] # r /\ r \notin todo[p]
    PROVE  CalmInv'
<1>1. alone' = alone /\ trouble' = trouble
  BY DEF Direct, IInv, TypeOK
<1>2. \A a \in Agents \ {r} : runtime'[a] = runtime[a] /\ (a \in up' <=> a \in up)
  BY DEF Direct, IInv, TypeOK
<1>3. UNCHANGED <<status, current, deployments, procVars>>
  BY DEF Direct
<1>4. Calm'
  BY <1>1, <1>3 DEF CalmInv, Calm, procVars
<1>5. Reached'
  BY <1>2, <1>3 DEF IInv, TypeOK, Flow, CalmInv, Reached, procVars
<1>6. Agreed'
  <2>1. \A a \in Agents : RecordsAgree(a) => RecordsAgree(a)'
    BY <1>2, <1>3 DEF RecordsAgree
  <2> QED
    BY <1>3, <2>1 DEF CalmInv, Agreed, Begun, procVars
<1> QED
  BY <1>4, <1>5, <1>6 DEF CalmInv

\* Every step of undisturbed operation keeps the agreement.
LEMMA CalmStep == IInv /\ CalmInv /\ [CalmNext]_vars => CalmInv'
<1> SUFFICES ASSUME IInv, CalmInv, [CalmNext]_vars PROVE CalmInv'
  OBVIOUS
<1>1. ASSUME NEW p \in Procs, NEW o \in Ops, NEW a \in Agents,
             Request(p, o, a), Rivals(o, a) = {}
      PROVE  CalmInv'
  BY <1>1, RequestCalm
<1>2. ASSUME NEW p \in Procs,
             \/ Draft(p) \/ Backfill(p) \/ BackfillDone(p) \/ Load(p)
             \/ Deploy(p) \/ Mark(p) \/ Enter(p) \/ Provision(p)
      PROVE  CalmInv'
  BY <1>2, DraftCalm, BackfillCalm, BackfillDoneCalm, LoadCalm, DeployCalm, MarkCalm,
     EnterCalm, ProvisionCalm
<1>3. ASSUME NEW p \in Procs,
             Halt(p) \/ SaveRuntime(p) \/ SaveDeployment(p) \/ SaveAgent(p)
      PROVE  CalmInv'
  BY <1>3, HaltCalm, SaveRuntimeCalm, SaveDeploymentCalm, SaveAgentCalm
<1>4. ASSUME NEW p \in Procs, ~ Begun(p), up' = up, Fail(p) PROVE CalmInv'
  BY <1>4, FailCalm
<1>5. ASSUME NEW r \in Agents, Direct(r), status[r] = "none",
             \A p \in Procs : ag[p] # r /\ r \notin todo[p]
      PROVE  CalmInv'
  BY <1>5, DirectCalm
<1>6. CASE UNCHANGED vars
  BY <1>6 DEF vars, rowVars, procVars, CalmInv, Calm, Reached, Agreed, RecordsAgree, Begun
<1> QED
  BY <1>1, <1>2, <1>3, <1>4, <1>5, <1>6 DEF CalmNext

\* While no launch meets a stop, none breaks off once begun, and nobody goes
\* past the agents, the records of every agent nobody is at agree with each
\* other and with its container.
THEOREM UndisturbedAgrees == Undisturbed => []AtRest
<1>1. Init => CalmInv
  BY DEF Init, CalmInv, Calm, Reached, Agreed, RecordsAgree
<1>2. IInv /\ CalmInv => AtRest
  BY DEF IInv, TypeOK, CalmInv, Agreed, AtRest
<1>3. [CalmNext]_vars => [Next]_vars
  BY CalmIsNext
<1> QED
  BY InitIInv, NextIInv, CalmStep, <1>1, <1>2, <1>3, PTL DEF Undisturbed

-----------------------------------------------------------------------------
(***************************************************************************)
(* The build specs of the agents                                           *)
(*                                                                         *)
(* Ports: a default is above all others when it is chosen, and stays so    *)
(* while the draft holds the lock (Drafted); a runtime, and a launch about *)
(* to make one, has the port of its build spec unless somebody has given   *)
(* either another (PortsUsed).  Bindings: of one update it is known how    *)
(* far it has come, of two nothing (BindingsKnown), and Listing gives back *)
(* the list that was bound (ListingBound).  What a launch has read is what *)
(* is there, unless it changed meanwhile (ReadingsKnown).                  *)
(***************************************************************************)

\* Which request is where, and which agents it may rely on.
SpecFlow ==
    \A p \in Procs :
        /\ place[p] = "idle" <=> whose[p] = NoAgent
        /\ place[p] = "idle" => kind[p] = "none"
        /\ place[p] \in {"agent", "port", "spec"} => kind[p] = "draft"
        /\ place[p] \in {"save", "clear", "bind"} => kind[p] = "update"
        /\ place[p] \in {"deploy", "prompt", "stack", "provision"} => kind[p] = "launch"
        /\ kind[p] \in {"update", "launch"} => Made(whose[p])
        /\ place[p] \in {"port", "spec"} => ~Made(whose[p])

\* The port a draft has chosen, if it is a default, is above all others until
\* the draft gives up the lock.
Drafted ==
    \A p \in Procs : place[p] = "spec" =>
        /\ chosen[p] # 0
        /\ whose[p] \notin explicit => \A a \in Agents : port[a] < chosen[p]

\* An agent with a default port shares it with none made before it.
Ordered ==
    \A a, b \in Agents :
        <<a, b>> \in earlier /\ port[a] = port[b] => b \in explicit

\* A runtime, and a launch that has read the port, has that of the build spec.
PortsUsed ==
    /\ \A a \in Agents \ explicit : runtimePort[a] \in {0, port[a]}
    /\ \A p \in Procs :
          place[p] \in {"prompt", "stack", "provision"} /\ whose[p] \notin explicit =>
              chosen[p] = port[whose[p]]

\* The first n skills of a list, bound.
BoundTo(ks, n) == {<<i, ks[i]>> : i \in 1..n}

\* The bindings are those asked for; while one update binds them, as far as it
\* has come.
BindingsKnown ==
    /\ \A p \in Procs : place[p] = "bind" => chosen[p] <= Len(keys[p])
    /\ \A a \in Agents \ broken :
          /\ \A p, q \in Updaters(a) : p = q
          /\ Updaters(a) = {} => bindings[a] = BoundTo(asked[a], Len(asked[a]))
          /\ \A p \in Updaters(a) :
                asked[a] = keys[p] /\ bindings[a] = BoundTo(keys[p], chosen[p])

\* What a launch has read are the bindings as they are, unless they changed.
ReadingsKnown ==
    \A p \in Procs \ mixed :
        /\ place[p] \in {"prompt", "stack"} => launch[p].summary = Listing(bindings[whose[p]])
        /\ place[p] = "stack" => launch[p].prompt = Listing(bindings[whose[p]])

\* The inductive invariant.
SpecIInv ==
    /\ SpecTypeOK /\ SpecFlow /\ Drafted /\ Ordered /\ PortsUsed
    /\ BindingsKnown /\ ReadingsKnown /\ LaunchConsistent

-----------------------------------------------------------------------------
(***************************************************************************)
(* The smallest and the largest of a set of numbers                        *)
(***************************************************************************)

Less == {ss \in Nat \X Nat : ss[1] < ss[2]}

\* A set of natural numbers has a least one.
LEMMA Least ==
    ASSUME NEW T, T \subseteq Nat, T # {}
    PROVE  \E x \in T : \A y \in T : x <= y
<1>1. IsWellFoundedOn(Less, Nat)
  BY NatLessThanWellFounded DEF OpToRel, Less
<1>2. \A S : S \subseteq Nat /\ S # {} => \E x \in S : \A y \in S : <<y, x>> \notin Less
  BY <1>1, WFMin, Zenon
<1>3. PICK x \in T : \A y \in T : <<y, x>> \notin Less
  BY <1>2, Zenon
<1>4. \A y \in Nat : <<y, x>> \in Less <=> y < x
  BY DEF Less
<1>5. \A y \in T : x \in Nat /\ y \in Nat /\ ~ (y < x)
  BY <1>3, <1>4
<1> QED
  BY <1>5

\* A set of natural numbers up to m has a largest one.
LEMMA Largest ==
    ASSUME NEW m \in Nat, NEW T, T \subseteq 0..m, T # {}
    PROVE  \E x \in T : \A y \in T : y <= x
<1> DEFINE S == {m - x : x \in T}
<1>1. \A x \in T : x \in Nat /\ m - x \in Nat
  OBVIOUS
<1>2. PICK z \in S : \A y \in S : z <= y
  <2>1. S \subseteq Nat /\ S # {}
    BY <1>1
  <2> HIDE DEF S
  <2> QED
    BY <2>1, Least
<1>3. PICK x \in T : z = m - x
  BY <1>2
<1>4. \A y \in T : m - x <= m - y
  BY <1>2, <1>3
<1> QED
  BY <1>1, <1>4

\* _next_agent_gateway_port is above all ports.
LEMMA NextPortAbove ==
    ASSUME SpecTypeOK, NEW a \in Agents
    PROVE  NextPort \in Nat /\ \A b \in Agents : port[b] < NextPort
<1> DEFINE T == {port[b] : b \in Agents}
<1>1. T \subseteq 0..MaxPort /\ T # {} /\ MaxPort \in Nat
  BY SpecAssumption DEF SpecTypeOK, Ports
<1>2. \E x \in T : \A y \in T : y <= x
  BY <1>1, Largest
<1> DEFINE P(n) == n \in T /\ \A b \in Agents : port[b] <= n
<1>3. \E n \in Ports : P(n)
  BY <1>1, <1>2 DEF Ports
<1> DEFINE n == CHOOSE n \in Ports : P(n)
<1>4. n \in Ports /\ P(n)
  BY <1>3
<1>5. NextPort = n + 1
  BY DEF NextPort
<1>6. n \in Nat
  BY <1>1, <1>4 DEF Ports
<1>7. \A b \in Agents : port[b] \in Nat /\ port[b] <= n
  BY <1>1, <1>4
<1> HIDE DEF n
<1> QED
  BY <1>5, <1>6, <1>7

-----------------------------------------------------------------------------
(***************************************************************************)
(* The order of the bindings                                               *)
(***************************************************************************)

\* The bindings with a lower position.
Below(bs, b) == {c \in bs : c[1] < b[1]}

\* Bindings with positions up to k, each taken once.
Placing(bs, k) ==
    /\ bs \subseteq (1..k) \X Skills
    /\ \A b, c \in bs : b[1] = c[1] => b = c

\* There are no more bindings than positions.
LEMMA PlacingSize ==
    ASSUME NEW k \in Nat, NEW bs, Placing(bs, k)
    PROVE  IsFiniteSet(bs) /\ Cardinality(bs) \in Nat /\ Cardinality(bs) <= k
<1> DEFINE f == [b \in bs |-> b[1]]
<1>1. f \in Injection(bs, 1..k)
  BY DEF Placing, Injection, IsInjective
<1>2. IsFiniteSet(1..k) /\ Cardinality(1..k) = k
  BY FS_Interval
<1>3. IsFiniteSet(bs) /\ Cardinality(bs) <= k
  BY <1>1, <1>2, FS_Injection
<1> QED
  BY <1>3, FS_CardinalityType

\* The i-th binding exists.
LEMMA PlacingAt ==
    ASSUME NEW k \in Nat, NEW bs, Placing(bs, k), NEW i \in 1..Cardinality(bs)
    PROVE  \E b \in bs : Cardinality(Below(bs, b)) = i - 1
<1> DEFINE Bad(cs) == /\ Placing(cs, k)
                      /\ \E j \in 1..Cardinality(cs) :
                            \A b \in cs : Cardinality(Below(cs, b)) # j - 1
           All == SUBSET ((1..k) \X Skills)
           Sizes == {Cardinality(cs) : cs \in {cs \in All : Bad(cs)}}
<1> SUFFICES ASSUME Bad(bs) PROVE FALSE
  OBVIOUS
<1>1. Sizes \subseteq Nat /\ Sizes # {}
  BY PlacingSize DEF Placing
<1>2. PICK n \in Sizes : \A m \in Sizes : n <= m
  BY <1>1, Least
<1>3. PICK cs \in All : Bad(cs) /\ Cardinality(cs) = n
  BY <1>2
<1>4. PICK j \in 1..Cardinality(cs) : \A b \in cs : Cardinality(Below(cs, b)) # j - 1
  BY <1>3
<1>5. IsFiniteSet(cs) /\ n \in Nat /\ Placing(cs, k)
  BY <1>3, PlacingSize
<1>6. cs # {}
  BY <1>3, <1>4, FS_EmptySet
<1> DEFINE T == {b[1] : b \in cs}
<1>7. T \subseteq 0..k /\ T # {}
  BY <1>5, <1>6 DEF Placing
<1>8. PICK x \in T : \A y \in T : y <= x
  BY <1>7, Largest
<1>9. PICK top \in cs : \A b \in cs : b[1] <= top[1]
  BY <1>8
<1> DEFINE ds == cs \ {top}
<1>10. IsFiniteSet(ds) /\ Cardinality(ds) = n - 1
  BY <1>3, <1>5, <1>9, FS_RemoveElement
<1>11. Below(cs, top) = ds
  BY <1>5, <1>9 DEF Below, Placing
<1>12. j # n /\ j \in 1..Cardinality(ds)
  <2>1. n - 1 # j - 1
    BY <1>4, <1>9, <1>10, <1>11
  <2>2. j \in 1..n
    BY <1>3
  <2> HIDE DEF ds
  <2> QED
    BY <1>5, <1>10, <2>1, <2>2
<1>13. \A b \in ds : Below(ds, b) = Below(cs, b)
  BY <1>5, <1>9 DEF Below, Placing
<1>14. Placing(ds, k)
  BY <1>5 DEF Placing
<1>15. Bad(ds)
  BY <1>4, <1>12, <1>13, <1>14
<1>16. n - 1 \in Sizes
  BY <1>10, <1>15
<1> HIDE DEF Sizes
<1> QED
  BY <1>2, <1>5, <1>16

\* The listing of bindings is a list of skills.
LEMMA ListingType ==
    ASSUME NEW bs, Placing(bs, MaxKeys)
    PROVE  Listing(bs) \in Lists
<1> DEFINE n == Cardinality(bs)
           At(b, i) == Cardinality({c \in bs : c[1] < b[1]}) = i - 1
<1>1. MaxKeys \in Nat
  BY SpecAssumption
<1>2. n \in Nat /\ n <= MaxKeys
  BY <1>1, PlacingSize
<1>3. ASSUME NEW i \in 1..n PROVE (CHOOSE b \in bs : At(b, i))[2] \in Skills
  <2>1. \E b \in bs : At(b, i)
    BY <1>1, PlacingAt DEF Below
  <2>2. (CHOOSE b \in bs : At(b, i)) \in bs
    BY <2>1
  <2> QED
    BY <2>2 DEF Placing
<1>4. Listing(bs) = [i \in 1..n |-> (CHOOSE b \in bs : At(b, i))[2]]
  BY DEF Listing
<1> DEFINE c(i) == (CHOOSE b \in bs : At(b, i))[2]
<1>5. \A i \in 1..n : c(i) \in Skills
  BY <1>3
<1> HIDE DEF c
<1>6. [i \in 1..n |-> c(i)] \in [1..n -> Skills]
  BY <1>5
<1>7. Listing(bs) \in [1..n -> Skills]
  BY <1>4, <1>6 DEF c
<1> HIDE DEF n
<1> QED
  BY <1>1, <1>2, <1>7 DEF Lists, BoundedSeq, SeqOf

\* What is bound is listed in the order it was asked for.
LEMMA ListingBound ==
    ASSUME NEW ks \in Lists
    PROVE  Listing(BoundTo(ks, Len(ks))) = ks
<1> DEFINE n == Len(ks)
           bs == BoundTo(ks, n)
           At(b, i) == Cardinality({c \in bs : c[1] < b[1]}) = i - 1
<1>1. n \in Nat /\ ks \in [1..n -> Skills] /\ n <= MaxKeys
  BY SpecAssumption DEF Lists, BoundedSeq, SeqOf
<1>2. \A m \in 0..n : Cardinality(BoundTo(ks, m)) = m
  <2> TAKE m \in 0..n
  <2> DEFINE f == [i \in 1..m |-> <<i, ks[i]>>]
  <2>1. f \in Bijection(1..m, BoundTo(ks, m))
    BY <1>1 DEF BoundTo, Bijection, Injection, Surjection, IsInjective
  <2>2. ExistsBijection(1..m, BoundTo(ks, m))
    BY <2>1 DEF ExistsBijection
  <2>3. IsFiniteSet(1..m) /\ Cardinality(1..m) = m
    BY <1>1, FS_Interval
  <2> QED
    BY <2>2, <2>3, FS_Bijection
<1>3. \A i \in 1..n : {c \in bs : c[1] < i} = BoundTo(ks, i - 1)
  BY <1>1 DEF BoundTo
<1>4. \A b \in bs : b[1] \in 1..n /\ b = <<b[1], ks[b[1]]>>
  BY DEF BoundTo
<1>5. \A b \in bs : Cardinality({c \in bs : c[1] < b[1]}) = b[1] - 1
  <2> TAKE b \in bs
  <2>1. b[1] \in 1..n /\ b[1] - 1 \in 0..n
    BY <1>1, <1>4
  <2>2. {c \in bs : c[1] < b[1]} = BoundTo(ks, b[1] - 1)
    BY <1>3, <2>1
  <2> QED
    BY <1>2, <2>1, <2>2
<1>6. ASSUME NEW i \in 1..n PROVE (CHOOSE b \in bs : At(b, i))[2] = ks[i]
  <2>1. <<i, ks[i]>> \in bs
    BY DEF BoundTo
  <2>2. \E b \in bs : At(b, i)
    BY <2>1, <1>5
  <2> DEFINE b == CHOOSE b \in bs : At(b, i)
  <2>3. b \in bs /\ At(b, i)
    BY <2>2
  <2>4. b[1] = i
    <3>1. b[1] \in 1..n /\ b[1] - 1 = i - 1
      BY <1>4, <1>5, <2>3
    <3> HIDE DEF b
    <3> QED
      BY <1>1, <3>1
  <2> QED
    BY <1>4, <2>3, <2>4
<1>7. Cardinality(bs) = n
  BY <1>1, <1>2
<1>8. Listing(bs) = [i \in 1..n |-> (CHOOSE b \in bs : At(b, i))[2]]
  BY <1>7 DEF Listing
<1> DEFINE c(i) == (CHOOSE b \in bs : At(b, i))[2]
<1>9. \A i \in 1..n : c(i) = ks[i]
  BY <1>6
<1> HIDE DEF c
<1>10. [i \in 1..n |-> c(i)] = ks
  BY <1>1, <1>9
<1> QED
  BY <1>8, <1>10 DEF c

-----------------------------------------------------------------------------
(***************************************************************************)
(* Every step keeps the invariant                                          *)
(***************************************************************************)

\* The four parts of TypeOK: rows and histories, requests, bindings, and the
\* order of the ports.
SpecRowType ==
    /\ port \in [Agents -> Ports] /\ runtimePort \in [Agents -> Ports]
    /\ drafter \in Procs \cup {NoProc}
    /\ asked \in [Agents -> Lists]
    /\ requests \in 0..MaxRequests
    /\ broken \subseteq Agents /\ mixed \subseteq Procs /\ explicit \subseteq Agents

SpecRequestType ==
    /\ place \in [Procs -> {"idle", "agent", "port", "spec", "save", "clear", "bind",
                         "deploy", "prompt", "stack", "provision"}]
    /\ kind \in [Procs -> {"none", "draft", "update", "launch"}]
    /\ whose \in [Procs -> Agents \cup {NoAgent}]
    /\ keys \in [Procs -> Lists] /\ chosen \in [Procs -> Nat]
    /\ \A p \in Procs : place[p] # "bind" => chosen[p] \in Ports
    /\ launch \in [Procs -> Reading]
    /\ \A p \in Procs : drafter = p <=> place[p] \in {"port", "spec"}

BindingType ==
    /\ bindings \in [Agents -> SUBSET ((1..MaxKeys) \X Skills)]
    /\ \A a \in Agents :
          /\ \A b, c \in bindings[a] : b[1] = c[1] \/ b[2] = c[2] => b = c
          /\ ~Made(a) => bindings[a] = {}

OrderingType ==
    /\ earlier \subseteq Agents \X Agents
    /\ \A a, b \in Agents :
          /\ <<a, b>> \in earlier => Made(a) /\ Made(b) /\ <<b, a>> \notin earlier
          /\ Made(a) /\ Made(b) /\ a # b => <<a, b>> \in earlier \/ <<b, a>> \in earlier

\* What a request without arguments has.
LEMMA NullTypes ==
    /\ <<>> \in Lists /\ NoReading \in Reading
    /\ 0 \in Ports /\ 0 \in Nat
<1>1. <<>> \in Lists
  <2>1. 0 \in 0..MaxKeys /\ <<>> \in [1..0 -> Skills]
    BY SpecAssumption
  <2> QED
    BY <2>1 DEF Lists, BoundedSeq, SeqOf
<1> QED
  BY <1>1, SpecAssumption DEF NoReading, Reading, Ports

\* A list of skills is a function on its positions.
LEMMA ListFacts ==
    ASSUME NEW ks \in Lists
    PROVE  /\ Len(ks) \in Nat /\ Len(ks) <= MaxKeys
           /\ DOMAIN ks = 1..Len(ks) /\ ks \in [1..Len(ks) -> Skills]
BY SpecAssumption DEF Lists, BoundedSeq, SeqOf

\* Who has set a port, and in which order, after one more.
LEMMA SetsPairs ==
    ASSUME NEW a \in Agents, earlier \subseteq Agents \X Agents, Sets(a)
    PROVE  /\ earlier' \subseteq Agents \X Agents
           /\ \A b, c \in Agents :
                 <<b, c>> \in earlier' <=>
                     \/ <<b, c>> \in earlier /\ b # a /\ c # a
                     \/ b # a /\ Made(b) /\ c = a
BY DEF Sets

\* The launch of an agent reads a list.
LEMMA ReadType ==
    ASSUME SpecTypeOK, NEW a \in Agents
    PROVE  Listing(bindings[a]) \in Lists
<1>1. Placing(bindings[a], MaxKeys)
  BY DEF SpecTypeOK, Placing
<1> QED
  BY <1>1, ListingType

\* A request begins, of one of the kinds the handlers send.
LEMMA RequestKept ==
    ASSUME NEW p \in Procs, SpecIInv, SpecRequest(p)
    PROVE  SpecIInv'
<1> USE SpecAssumption DEF MoveTo, specRows, requestVars,
    specHistory
<1>a. PICK o \in {"draft", "update", "launch"}, a \in Agents,
           ks \in Lists, n \in 0..MaxChosen,
           step \in {"agent", "save", "clear", "deploy"} :
        /\ Asks(p, o, a, step, ks, n)
        /\ o = "draft" <=> step = "agent"
        /\ o = "launch" <=> step = "deploy"
        /\ o # "draft" => Made(a)
  <2>1. Drafts(p) \/ SavesFields(p) \/ Launches(p)
        \/ \E a \in Agents, ks \in Lists, n \in 0..MaxChosen :
              Made(a) /\ Asks(p, "update", a, "clear", ks, n)
    BY Zenon DEF SpecRequest, HomePage, AgentWizard, AgentsApi,
        Studio, BuildSpecApi, LaunchApi
  <2>2. <<>> \in Lists /\ 0 \in 0..MaxChosen
    BY NullTypes
  <2>3. CASE Drafts(p)
    BY <2>3, Zenon DEF Drafts
  <2>4. CASE SavesFields(p)
    BY <2>2, <2>4, Zenon DEF SavesFields
  <2>5. CASE Launches(p)
    BY <2>2, <2>5, Zenon DEF Launches
  <2> QED
    BY <2>1, <2>3, <2>4, <2>5, Zenon
<1>b. ~Asking(p) /\ requests' \in 0..MaxRequests
  BY DEF SpecRequest, Counted, SpecIInv, SpecTypeOK
<1> USE <1>a, <1>b DEF Asks
<1>1. SpecTypeOK'
  <2>1. SpecRowType'
    BY DEF SpecIInv, SpecTypeOK, SpecRowType, SpecFlow, Made, Asking
  <2>2. SpecRequestType'
    BY NullTypes DEF Ports, SpecIInv, SpecTypeOK, SpecRequestType, SpecFlow,
        Made, Asking
  <2>3. BindingType'
    BY DEF SpecIInv, SpecTypeOK, BindingType, SpecFlow, Made, Asking
  <2>4. OrderingType'
    BY DEF SpecIInv, SpecTypeOK, OrderingType, SpecFlow, Made, Asking
  <2> QED
    BY <2>1, <2>2, <2>3, <2>4 DEF SpecTypeOK, SpecRowType, SpecRequestType,
        BindingType, OrderingType
<1>2. SpecFlow'
  BY DEF SpecIInv, SpecFlow, SpecTypeOK, Made, Asking
<1>3. Drafted'
  BY DEF SpecIInv, Drafted, SpecFlow, SpecTypeOK, Asking
<1>4. Ordered'
  BY DEF SpecIInv, Ordered, SpecTypeOK, SpecFlow, Made
<1>5. PortsUsed'
  BY DEF SpecIInv, PortsUsed, SpecTypeOK, SpecFlow, Made, Asking
<1>6. BindingsKnown'
  BY DEF SpecIInv, BindingsKnown, Updaters, SpecTypeOK, SpecFlow, Asking,
      Made
<1>7. ReadingsKnown'
  BY DEF SpecIInv, ReadingsKnown, SpecTypeOK, SpecFlow, Asking, Made
<1>8. LaunchConsistent'
  BY DEF SpecIInv, LaunchConsistent, SpecTypeOK, SpecFlow, Asking
<1> QED
  BY <1>1, <1>2, <1>3, <1>4, <1>5, <1>6, <1>7, <1>8 DEF SpecIInv

\* A draft takes the lock.
LEMMA DraftAgentKept ==
    ASSUME NEW p \in Procs, SpecIInv, DraftAgent(p),
           requests' = requests
    PROVE  SpecIInv'
<1> USE SpecAssumption DEF DraftAgent, MoveTo, specRows,
    requestVars, specHistory, Lock
<1>a. whose[p] \in Agents
  BY DEF SpecIInv, SpecTypeOK, SpecFlow
<1>1. SpecTypeOK'
  <2>1. SpecRowType'
    BY <1>a DEF SpecIInv, SpecTypeOK, SpecRowType, SpecFlow, Made, Asking
  <2>2. SpecRequestType'
    BY <1>a DEF SpecIInv, SpecTypeOK, SpecRequestType, SpecFlow, Made,
        Asking
  <2>3. BindingType'
    BY <1>a DEF SpecIInv, SpecTypeOK, BindingType, SpecFlow, Made, Asking
  <2>4. OrderingType'
    BY DEF SpecIInv, SpecTypeOK, OrderingType, SpecFlow, Made, Asking
  <2> QED
    BY <2>1, <2>2, <2>3, <2>4 DEF SpecTypeOK, SpecRowType, SpecRequestType,
        BindingType, OrderingType
<1>2. SpecFlow'
  BY DEF SpecIInv, SpecFlow, SpecTypeOK, Made, Asking
<1>3. Drafted'
  BY DEF SpecIInv, Drafted, SpecFlow, SpecTypeOK, Asking
<1>4. Ordered'
  BY DEF SpecIInv, Ordered, SpecTypeOK, SpecFlow, Made
<1>5. PortsUsed'
  BY DEF SpecIInv, PortsUsed, SpecTypeOK, SpecFlow, Made, Asking
<1>6. BindingsKnown'
  BY DEF SpecIInv, BindingsKnown, Updaters, SpecTypeOK, SpecFlow, Asking,
      Made
<1>7. ReadingsKnown'
  BY DEF SpecIInv, ReadingsKnown, SpecTypeOK, SpecFlow, Asking, Made
<1>8. LaunchConsistent'
  BY DEF SpecIInv, LaunchConsistent, SpecTypeOK, SpecFlow, Asking
<1> QED
  BY <1>1, <1>2, <1>3, <1>4, <1>5, <1>6, <1>7, <1>8 DEF SpecIInv

\* A draft takes the port it was given, or one above all others.
LEMMA DraftPortKept ==
    ASSUME NEW p \in Procs, SpecIInv, DraftPort(p),
           requests' = requests
    PROVE  SpecIInv'
<1> USE SpecAssumption DEF DraftPort, MoveTo, specRows,
    requestVars, specHistory
<1>a. whose[p] \in Agents
  BY DEF SpecIInv, SpecTypeOK, SpecFlow
<1>b. NextPort \in Nat /\ \A b \in Agents : port[b] < NextPort
  BY <1>a, NextPortAbove DEF SpecIInv
<1>c. NextPort # 0
  BY <1>a, <1>b DEF SpecIInv, SpecTypeOK, Ports
<1>1. SpecTypeOK'
  <2>1. SpecRowType'
    BY <1>a DEF SpecIInv, SpecTypeOK, SpecRowType, SpecFlow, Made, Asking
  <2>2. SpecRequestType'
    BY <1>a, <1>b DEF Ports, SpecIInv, SpecTypeOK, SpecRequestType, SpecFlow,
        Made, Asking
  <2>3. BindingType'
    BY <1>a DEF SpecIInv, SpecTypeOK, BindingType, SpecFlow, Made, Asking
  <2>4. OrderingType'
    BY DEF SpecIInv, SpecTypeOK, OrderingType, SpecFlow, Made, Asking
  <2> QED
    BY <2>1, <2>2, <2>3, <2>4 DEF SpecTypeOK, SpecRowType, SpecRequestType,
        BindingType, OrderingType
<1>2. SpecFlow'
  BY DEF SpecIInv, SpecFlow, SpecTypeOK, Made, Asking
<1>3. Drafted'
  BY <1>a, <1>b, <1>c DEF SpecIInv, Drafted, SpecFlow, SpecTypeOK, Asking,
      Ports
<1>4. Ordered'
  BY DEF SpecIInv, Ordered, SpecTypeOK, SpecFlow, Made
<1>5. PortsUsed'
  BY DEF SpecIInv, PortsUsed, SpecTypeOK, SpecFlow, Made, Asking
<1>6. BindingsKnown'
  BY DEF SpecIInv, BindingsKnown, Updaters, SpecTypeOK, SpecFlow, Asking,
      Made
<1>7. ReadingsKnown'
  BY DEF SpecIInv, ReadingsKnown, SpecTypeOK, SpecFlow, Asking, Made
<1>8. LaunchConsistent'
  BY DEF SpecIInv, LaunchConsistent, SpecTypeOK, SpecFlow, Asking
<1> QED
  BY <1>1, <1>2, <1>3, <1>4, <1>5, <1>6, <1>7, <1>8 DEF SpecIInv

\* A draft is committed: its agent is new, and nobody updates it yet.
LEMMA DraftSpecKept ==
    ASSUME NEW p \in Procs, SpecIInv, DraftSpec(p),
           requests' = requests
    PROVE  SpecIInv'
<1> USE SpecAssumption DEF DraftSpec, MoveTo, specRows,
    requestVars, specHistory, Finish
<1>a. whose[p] \in Agents
  BY DEF SpecIInv, SpecTypeOK, SpecFlow
<1>s. /\ earlier' \subseteq Agents \X Agents
      /\ \A b, c \in Agents :
            <<b, c>> \in earlier' <=>
                \/ <<b, c>> \in earlier /\ b # whose[p] /\ c # whose[p]
                \/ b # whose[p] /\ Made(b) /\ c = whose[p]
  BY <1>a, SetsPairs DEF SpecIInv, SpecTypeOK
<1>d. /\ chosen[p] \in Ports /\ chosen[p] # 0 /\ port[whose[p]] = 0
      /\ keys[p] \in Lists /\ bindings[whose[p]] = {}
  BY <1>a DEF SpecIInv, SpecTypeOK, SpecFlow, Drafted, Made
<1>e. /\ port' = [port EXCEPT ![whose[p]] = chosen[p]]
      /\ \A b \in Agents : Made(b)' <=> Made(b) \/ b = whose[p]
  BY <1>a, <1>d DEF SpecIInv, SpecTypeOK, Made
<1>f. /\ Bound(keys[p]) = BoundTo(keys[p], Len(keys[p]))
      /\ Bound(keys[p]) \subseteq (1..MaxKeys) \X Skills
      /\ \A b, c \in Bound(keys[p]) : b[1] = c[1] \/ b[2] = c[2] => b = c
  <2>1. /\ Len(keys[p]) \in Nat /\ Len(keys[p]) <= MaxKeys
        /\ DOMAIN keys[p] = 1..Len(keys[p]) /\ keys[p] \in [1..Len(keys[p]) -> Skills]
    BY <1>d, ListFacts
  <2>2. \A i, j \in 1..Len(keys[p]) : keys[p][i] = keys[p][j] => i = j
    <3>1. IsInjective(keys[p])
      OBVIOUS
    <3> HIDE DEF DraftSpec, Finish
    <3>2. \A i, j \in DOMAIN keys[p] : keys[p][i] = keys[p][j] => i = j
      BY <3>1 DEF IsInjective
    <3> QED
      BY <2>1, <3>2, Zenon
  <2> HIDE DEF DraftSpec, Finish
  <2>3. Bound(keys[p]) = BoundTo(keys[p], Len(keys[p]))
    BY <2>1 DEF Bound, BoundTo
  <2> DEFINE n == Len(keys[p])
  <2>4. n \in Nat /\ n <= MaxKeys /\ \A i \in 1..n : keys[p][i] \in Skills
    BY <2>1
  <2> HIDE DEF n
  <2>5. \A b \in BoundTo(keys[p], n) : \E i \in 1..n : b = <<i, keys[p][i]>>
    BY DEF BoundTo
  <2>6. BoundTo(keys[p], n) \subseteq (1..MaxKeys) \X Skills
    BY <2>4, <2>5
  <2>7. \A b, c \in BoundTo(keys[p], n) : b[1] = c[1] \/ b[2] = c[2] => b = c
    BY <2>2, <2>5 DEF n
  <2> QED
    BY <2>3, <2>6, <2>7 DEF n
<1>1. SpecTypeOK'
  <2>1. SpecRowType'
    BY <1>a DEF SpecIInv, SpecTypeOK, SpecRowType, SpecFlow, Made, Asking
  <2>2. SpecRequestType'
    BY <1>a, NullTypes DEF SpecIInv, SpecTypeOK, SpecRequestType, SpecFlow,
        Made, Asking
  <2>3. BindingType'
    <3> SUFFICES ASSUME NEW a \in Agents
                 PROVE  /\ \A b, c \in bindings'[a] : b[1] = c[1] \/ b[2] = c[2] => b = c
                        /\ ~Made(a)' => bindings'[a] = {}
      BY <1>a, <1>f DEF BindingType, SpecIInv, SpecTypeOK
    <3>1. CASE a = whose[p]
      BY <1>a, <1>d, <1>e, <1>f, <3>1 DEF SpecIInv, SpecTypeOK
    <3>2. CASE a # whose[p]
      <4>1. bindings'[a] = bindings[a]
        BY <3>2 DEF SpecIInv, SpecTypeOK
      <4> QED
        BY <1>e, <3>2, <4>1 DEF SpecIInv, SpecTypeOK
    <3> QED
      BY <3>1, <3>2
  <2>4. OrderingType'
    <3>1. ~Made(whose[p])
      BY <1>d DEF Made
    <3> QED
      BY <1>a, <1>e, <1>s, <3>1 DEF SpecIInv, SpecTypeOK, OrderingType
  <2> QED
    BY <2>1, <2>2, <2>3, <2>4 DEF SpecTypeOK, SpecRowType, SpecRequestType,
        BindingType, OrderingType
<1>2. SpecFlow'
  BY DEF SpecIInv, SpecFlow, SpecTypeOK, Made, Asking
<1>3. Drafted'
  BY DEF SpecIInv, Drafted, SpecFlow, SpecTypeOK, Asking
<1>4. Ordered'
  <2> SUFFICES ASSUME NEW a \in Agents, NEW b \in Agents,
                      <<a, b>> \in earlier', port'[a] = port'[b], b \notin explicit
               PROVE  FALSE
    BY DEF Ordered
  <2>1. CASE b = whose[p]
    <3>1. a # whose[p] /\ port'[a] = port[a]
      BY <1>a, <1>e, <1>s, <2>1 DEF SpecIInv, SpecTypeOK
    <3>2. port'[b] = chosen[p]
      BY <1>a, <1>e, <2>1 DEF SpecIInv, SpecTypeOK
    <3>3. port[a] < chosen[p] /\ port[a] \in Nat /\ chosen[p] \in Nat
      BY <2>1 DEF SpecIInv, Drafted, SpecTypeOK, Ports
    <3> QED
      BY <3>1, <3>2, <3>3
  <2>2. CASE b # whose[p]
    BY <1>a, <1>e, <1>s, <2>2 DEF SpecIInv, Ordered, SpecTypeOK
  <2> QED
    BY <2>1, <2>2
<1>5. PortsUsed'
  BY DEF SpecIInv, PortsUsed, SpecTypeOK, SpecFlow, Made, Asking
<1>6. BindingsKnown'
  <2>1. \A b \in Agents : Updaters(b)' = Updaters(b)
    BY DEF SpecIInv, Updaters, SpecTypeOK, SpecFlow
  <2>2. Updaters(whose[p]) = {}
    BY <1>d DEF SpecIInv, Updaters, SpecFlow, Made
  <2>3. /\ asked'[whose[p]] = keys[p] /\ bindings'[whose[p]] = Bound(keys[p])
        /\ \A b \in Agents \ {whose[p]} : asked'[b] = asked[b] /\ bindings'[b] = bindings[b]
    BY <1>a DEF SpecIInv, SpecTypeOK
  <2>4. \A q \in Procs \ {p} :
            keys'[q] = keys[q] /\ chosen'[q] = chosen[q] /\ place'[q] = place[q]
    BY DEF SpecIInv, SpecTypeOK
  <2>5. place'[p] = "idle" /\ \A b \in Agents : p \notin Updaters(b)
    BY DEF SpecIInv, SpecTypeOK, Updaters
  <2> HIDE DEF DraftSpec, Finish
  <2>6. broken' = broken
    BY DEF DraftSpec
  <2>7. \A b \in Agents : Updaters(b) \subseteq Procs
    BY DEF Updaters
  <2> QED
    BY <1>f, <2>1, <2>2, <2>3, <2>4, <2>5, <2>6, <2>7 DEF SpecIInv, BindingsKnown
<1>7. ReadingsKnown'
  BY DEF SpecIInv, ReadingsKnown, SpecTypeOK, SpecFlow, Asking, Made
<1>8. LaunchConsistent'
  BY DEF SpecIInv, LaunchConsistent, SpecTypeOK, SpecFlow, Asking
<1> QED
  BY <1>1, <1>2, <1>3, <1>4, <1>5, <1>6, <1>7, <1>8 DEF SpecIInv

\* An update without skills saves the port, if it was given one.
LEMMA SaveKept ==
    ASSUME NEW p \in Procs, SpecIInv, Save(p),
           requests' = requests
    PROVE  SpecIInv'
<1> USE SpecAssumption DEF Save, MoveTo, specRows,
    requestVars, specHistory, SaveFields, Finish
<1>a. whose[p] \in Agents
  BY DEF SpecIInv, SpecTypeOK, SpecFlow
<1>s. Sets(whose[p]) => /\ earlier' \subseteq Agents \X Agents
      /\ \A b, c \in Agents :
            <<b, c>> \in earlier' <=>
                \/ <<b, c>> \in earlier /\ b # whose[p] /\ c # whose[p]
                \/ b # whose[p] /\ Made(b) /\ c = whose[p]
  BY <1>a, SetsPairs DEF SpecIInv, SpecTypeOK
<1>1. SpecTypeOK'
  <2>1. SpecRowType'
    <3>1. chosen[p] \in Ports
      BY DEF SpecIInv, SpecTypeOK
    <3>2. port' \in [Agents -> Ports] /\ explicit' \subseteq Agents
      <4>1. CASE SaveFields(p)
        BY <1>a, <3>1, <4>1 DEF SpecIInv, SpecTypeOK
      <4>2. CASE UNCHANGED <<port, explicit, earlier>>
        BY <4>2 DEF SpecIInv, SpecTypeOK
      <4> QED
        BY <4>1, <4>2
    <3>3. mixed' \subseteq Procs
      BY DEF SpecIInv, SpecTypeOK
    <3> QED
      BY <3>2, <3>3 DEF SpecIInv, SpecTypeOK, SpecRowType
  <2>2. SpecRequestType'
    BY <1>a, NullTypes DEF SpecIInv, SpecTypeOK, SpecRequestType, SpecFlow,
        Made, Asking
  <2>3. BindingType'
    BY <1>a DEF SpecIInv, SpecTypeOK, BindingType, SpecFlow, Made, Asking
  <2>4. OrderingType'
    BY <1>a, <1>s DEF SpecIInv, SpecTypeOK, OrderingType, SpecFlow, Made,
        Asking
  <2> QED
    BY <2>1, <2>2, <2>3, <2>4 DEF SpecTypeOK, SpecRowType, SpecRequestType,
        BindingType, OrderingType
<1>2. SpecFlow'
  BY DEF SpecIInv, SpecFlow, SpecTypeOK, Made, Asking
<1>3. Drafted'
  BY DEF SpecIInv, Drafted, SpecFlow, SpecTypeOK, Asking
<1>4. Ordered'
  BY <1>a, <1>s DEF SpecIInv, Ordered, SpecTypeOK, SpecFlow, Made
<1>5. PortsUsed'
  BY DEF SpecIInv, PortsUsed, SpecTypeOK, SpecFlow, Made, Asking
<1>6. BindingsKnown'
  BY DEF SpecIInv, BindingsKnown, Updaters, SpecTypeOK, SpecFlow, Asking,
      Made
<1>7. ReadingsKnown'
  BY DEF SpecIInv, ReadingsKnown, SpecTypeOK, SpecFlow, Asking, Made
<1>8. LaunchConsistent'
  BY DEF SpecIInv, LaunchConsistent, SpecTypeOK, SpecFlow, Asking
<1> QED
  BY <1>1, <1>2, <1>3, <1>4, <1>5, <1>6, <1>7, <1>8 DEF SpecIInv

\* An update with skills saves the port first.
LEMMA SavePortKept ==
    ASSUME NEW p \in Procs, SpecIInv, SavePort(p),
           requests' = requests
    PROVE  SpecIInv'
<1> USE SpecAssumption DEF SavePort, MoveTo, specRows,
    requestVars, specHistory, SaveFields
<1>a. whose[p] \in Agents
  BY DEF SpecIInv, SpecTypeOK, SpecFlow
<1>s. Sets(whose[p]) => /\ earlier' \subseteq Agents \X Agents
      /\ \A b, c \in Agents :
            <<b, c>> \in earlier' <=>
                \/ <<b, c>> \in earlier /\ b # whose[p] /\ c # whose[p]
                \/ b # whose[p] /\ Made(b) /\ c = whose[p]
  BY <1>a, SetsPairs DEF SpecIInv, SpecTypeOK
<1>1. SpecTypeOK'
  <2>1. SpecRowType'
    BY <1>a DEF SpecIInv, SpecTypeOK, SpecRowType, SpecFlow, Made, Asking
  <2>2. SpecRequestType'
    BY <1>a, NullTypes DEF SpecIInv, SpecTypeOK, SpecRequestType
  <2>3. BindingType'
    BY <1>a DEF SpecIInv, SpecTypeOK, BindingType, SpecFlow, Made, Asking
  <2>4. OrderingType'
    BY <1>a, <1>s DEF SpecIInv, SpecTypeOK, OrderingType, SpecFlow, Made,
        Asking
  <2> QED
    BY <2>1, <2>2, <2>3, <2>4 DEF SpecTypeOK, SpecRowType, SpecRequestType,
        BindingType, OrderingType
<1>2. SpecFlow'
  BY DEF SpecIInv, SpecFlow, SpecTypeOK, Made, Asking
<1>3. Drafted'
  BY DEF SpecIInv, Drafted, SpecFlow, SpecTypeOK, Asking
<1>4. Ordered'
  BY <1>a, <1>s DEF SpecIInv, Ordered, SpecTypeOK, SpecFlow, Made
<1>5. PortsUsed'
  BY DEF SpecIInv, PortsUsed, SpecTypeOK, SpecFlow, Made, Asking
<1>6. BindingsKnown'
  BY DEF SpecIInv, BindingsKnown, Updaters, SpecTypeOK, SpecFlow, Asking,
      Made
<1>7. ReadingsKnown'
  BY DEF SpecIInv, ReadingsKnown, SpecTypeOK, SpecFlow, Asking, Made
<1>8. LaunchConsistent'
  BY DEF SpecIInv, LaunchConsistent, SpecTypeOK, SpecFlow, Asking
<1> QED
  BY <1>1, <1>2, <1>3, <1>4, <1>5, <1>6, <1>7, <1>8 DEF SpecIInv

\* An update deletes the bindings; if another is binding, the agent is broken.
LEMMA ClearKept ==
    ASSUME NEW p \in Procs, SpecIInv, Clear(p),
           requests' = requests
    PROVE  SpecIInv'
<1> USE SpecAssumption DEF Clear, MoveTo, specRows,
    requestVars, specHistory, Readers
<1>a. whose[p] \in Agents
  BY DEF SpecIInv, SpecTypeOK, SpecFlow
<1>1. SpecTypeOK'
  <2>1. SpecRowType'
    <3>1. asked' \in [Agents -> Lists] /\ broken' \subseteq Agents
      <4>1. CASE Updaters(whose[p]) = {}
        BY <1>a, <4>1 DEF SpecIInv, SpecTypeOK
      <4>2. CASE Updaters(whose[p]) # {}
        <5> DEFINE none == <<>>
        <5>1. none \in Lists /\ asked' = [asked EXCEPT ![whose[p]] = none]
          BY <4>2, NullTypes
        <5>2. broken' = broken \cup {whose[p]}
          BY <4>2
        <5> HIDE DEF none, Clear
        <5> QED
          BY <1>a, <5>1, <5>2 DEF SpecIInv, SpecTypeOK
      <4> QED
        BY <4>1, <4>2
    <3> QED
      BY <3>1 DEF SpecIInv, SpecTypeOK, SpecRowType
  <2>2. SpecRequestType'
    BY <1>a DEF SpecIInv, SpecTypeOK, SpecRequestType, SpecFlow, Made,
        Asking
  <2>3. BindingType'
    BY <1>a DEF SpecIInv, SpecTypeOK, BindingType, SpecFlow, Made, Asking
  <2>4. OrderingType'
    BY DEF SpecIInv, SpecTypeOK, OrderingType, SpecFlow, Made, Asking
  <2> QED
    BY <2>1, <2>2, <2>3, <2>4 DEF SpecTypeOK, SpecRowType, SpecRequestType,
        BindingType, OrderingType
<1>2. SpecFlow'
  BY DEF SpecIInv, SpecFlow, SpecTypeOK, Made, Asking
<1>3. Drafted'
  BY DEF SpecIInv, Drafted, SpecFlow, SpecTypeOK, Asking
<1>4. Ordered'
  BY DEF SpecIInv, Ordered, SpecTypeOK, SpecFlow, Made
<1>5. PortsUsed'
  BY DEF SpecIInv, PortsUsed, SpecTypeOK, SpecFlow, Made, Asking
<1>6. BindingsKnown'
  <2>1. /\ \A b \in Agents : Updaters(b)' =
              IF b = whose[p] THEN Updaters(b) \cup {p} ELSE Updaters(b)
        /\ \A b \in Agents : Updaters(b) \subseteq {q \in Procs \ {p} : place[q] = "bind"}
    BY <1>a DEF SpecIInv, Updaters, SpecTypeOK, SpecFlow
  <2>2. \A b \in Agents \ {whose[p]} : bindings'[b] = bindings[b] /\ asked'[b] = asked[b]
    BY <1>a DEF SpecIInv, SpecTypeOK
  <2>3. bindings'[whose[p]] = BoundTo(keys[p], 0) /\ chosen[p] = 0
    BY <1>a DEF SpecIInv, SpecTypeOK, BoundTo
  <2>4. keys[p] \in Lists /\ Len(keys[p]) \in Nat
    BY ListFacts DEF SpecIInv, SpecTypeOK
  <2>5. \A q \in Procs : place'[q] = IF q = p THEN "bind" ELSE place[q]
    BY DEF SpecIInv, SpecTypeOK
  <2>6. keys' = keys /\ chosen' = chosen
    OBVIOUS
  <2>7. \/ broken' = broken \cup {whose[p]}
        \/ /\ Updaters(whose[p]) = {} /\ broken' = broken \ {whose[p]}
           /\ asked'[whose[p]] = keys[p]
    BY <1>a DEF SpecIInv, SpecTypeOK
  <2> HIDE DEF Clear
  <2>8. \A q \in Procs : place'[q] = "bind" => chosen'[q] <= Len(keys'[q])
    <3>1. \A q \in Procs : place[q] = "bind" => chosen[q] <= Len(keys[q])
      BY DEF SpecIInv, BindingsKnown
    <3>2. chosen[p] <= Len(keys[p])
      <4> DEFINE n == Len(keys[p])
      <4>1. chosen[p] = 0 /\ n \in Nat
        BY <2>3, <2>4
      <4> HIDE DEF n
      <4>2. chosen[p] <= n
        BY <4>1
      <4> QED
        BY <4>2 DEF n
    <3> QED
      BY <2>5, <2>6, <3>1, <3>2
  <2> QED
    <3>1. ASSUME NEW a \in Agents \ broken'
          PROVE  /\ \A q, r \in Updaters(a)' : q = r
                 /\ Updaters(a)' = {} => bindings'[a] = BoundTo(asked'[a], Len(asked'[a]))
                 /\ \A q \in Updaters(a)' :
                       asked'[a] = keys[q] /\ bindings'[a] = BoundTo(keys[q], chosen[q])
      <4>1. CASE a = whose[p]
        BY <2>1, <2>3, <2>7, <4>1
      <4>2. CASE a # whose[p]
        <5>1. a \notin broken
          BY <2>7, <4>2
        <5> QED
          BY <2>1, <2>2, <4>2, <5>1 DEF SpecIInv, BindingsKnown
      <4> QED
        BY <4>1, <4>2
    <3> QED
      BY <2>6, <2>8, <3>1 DEF BindingsKnown
<1>7. ReadingsKnown'
  BY DEF SpecIInv, ReadingsKnown, SpecTypeOK, SpecFlow, Asking, Made
<1>8. LaunchConsistent'
  BY DEF SpecIInv, LaunchConsistent, SpecTypeOK, SpecFlow, Asking
<1> QED
  BY <1>1, <1>2, <1>3, <1>4, <1>5, <1>6, <1>7, <1>8 DEF SpecIInv

\* An update makes a binding, the next of its list.
LEMMA BindKept ==
    ASSUME NEW p \in Procs, SpecIInv, Bind(p),
           requests' = requests
    PROVE  SpecIInv'
<1> USE SpecAssumption DEF Bind, MoveTo, specRows,
    requestVars, specHistory, Readers
<1>a. whose[p] \in Agents
  BY DEF SpecIInv, SpecTypeOK, SpecFlow
<1> DEFINE i == chosen[p] + 1
<1>b. /\ i \in 1..Len(keys[p]) /\ i \in 1..MaxKeys /\ keys[p][i] \in Skills
      /\ chosen[p] \in Nat /\ i \in Nat
  <2>1. keys[p] \in Lists /\ chosen[p] \in Nat
    BY DEF SpecIInv, SpecTypeOK
  <2> QED
    BY <2>1, ListFacts
<1>c. /\ bindings'[whose[p]] = bindings[whose[p]] \cup {<<i, keys[p][i]>>}
      /\ \A b \in Agents \ {whose[p]} : bindings'[b] = bindings[b]
  BY <1>a DEF SpecIInv, SpecTypeOK
<1>1. SpecTypeOK'
  <2>1. SpecRowType'
    BY <1>a DEF SpecIInv, SpecTypeOK, SpecRowType, SpecFlow, Made, Asking
  <2>2. SpecRequestType'
    BY <1>a DEF SpecIInv, SpecTypeOK, SpecRequestType, SpecFlow, Made,
        Asking
  <2>3. BindingType'
    <3>1. Made(whose[p])
      BY DEF SpecIInv, SpecFlow
    <3>2. \A b \in bindings[whose[p]] : b[1] # i /\ b[2] # keys[p][i]
      OBVIOUS
    <3>3. \A b \in Agents : Made(b)' <=> Made(b)
      <4>1. port' = port
        OBVIOUS
      <4> QED
        BY <4>1 DEF Made
    <3>b. bindings' \in [Agents -> SUBSET ((1..MaxKeys) \X Skills)]
      <4> DEFINE new == <<i, keys[p][i]>>
      <4>1. new \in (1..MaxKeys) \X Skills
        BY <1>b
      <4>2. bindings' = [bindings EXCEPT ![whose[p]] = @ \cup {new}]
        OBVIOUS
      <4> HIDE DEF new, i, Bind
      <4> QED
        BY <1>a, <4>1, <4>2 DEF SpecIInv, SpecTypeOK
    <3> HIDE DEF Bind, i
    <3> SUFFICES ASSUME NEW a \in Agents
                 PROVE  /\ \A b, c \in bindings'[a] : b[1] = c[1] \/ b[2] = c[2] => b = c
                        /\ ~Made(a)' => bindings'[a] = {}
      BY <3>b DEF BindingType
    <3>4. CASE a = whose[p]
      <4>1. \A b, c \in bindings[a] : b[1] = c[1] \/ b[2] = c[2] => b = c
        BY DEF SpecIInv, SpecTypeOK
      <4>2. bindings'[a] = bindings[a] \cup {<<i, keys[p][i]>>}
        BY <1>c, <3>4
      <4>3. \A b \in bindings[a] : b[1] # i /\ b[2] # keys[p][i]
        BY <3>2, <3>4
      <4> QED
        BY <3>1, <3>3, <3>4, <4>1, <4>2, <4>3
    <3>5. CASE a # whose[p]
      BY <1>c, <3>3, <3>5 DEF SpecIInv, SpecTypeOK
    <3> QED
      BY <3>4, <3>5
  <2>4. OrderingType'
    BY DEF SpecIInv, SpecTypeOK, OrderingType, SpecFlow, Made, Asking
  <2> QED
    BY <2>1, <2>2, <2>3, <2>4 DEF SpecTypeOK, SpecRowType, SpecRequestType,
        BindingType, OrderingType
<1>2. SpecFlow'
  BY DEF SpecIInv, SpecFlow, SpecTypeOK, Made, Asking
<1>3. Drafted'
  BY DEF SpecIInv, Drafted, SpecFlow, SpecTypeOK, Asking
<1>4. Ordered'
  BY DEF SpecIInv, Ordered, SpecTypeOK, SpecFlow, Made
<1>5. PortsUsed'
  BY DEF SpecIInv, PortsUsed, SpecTypeOK, SpecFlow, Made, Asking
<1>6. BindingsKnown'
  <2>1. /\ \A b \in Agents : Updaters(b)' = Updaters(b)
        /\ p \in Updaters(whose[p])
        /\ \A b \in Agents \ {whose[p]} : p \notin Updaters(b)
        /\ \A b \in Agents : Updaters(b) \subseteq Procs
    BY DEF SpecIInv, Updaters, SpecFlow
  <2>2. BoundTo(keys[p], i) = BoundTo(keys[p], chosen[p]) \cup {<<i, keys[p][i]>>}
    BY <1>b DEF BoundTo
  <2>3. chosen'[p] = i /\ \A q \in Procs \ {p} : chosen'[q] = chosen[q]
    BY DEF SpecIInv, SpecTypeOK
  <2>4. keys' = keys /\ place' = place /\ asked' = asked /\ broken' = broken
    OBVIOUS
  <2> HIDE DEF Bind, i
  <2>5. \A q \in Procs : place'[q] = "bind" => chosen'[q] <= Len(keys'[q])
    BY <1>b, <2>3, <2>4 DEF SpecIInv, BindingsKnown
  <2>6. ASSUME NEW a \in Agents \ broken
        PROVE  /\ \A q, r \in Updaters(a)' : q = r
               /\ Updaters(a)' = {} => bindings'[a] = BoundTo(asked[a], Len(asked[a]))
               /\ \A q \in Updaters(a)' :
                     asked[a] = keys[q] /\ bindings'[a] = BoundTo(keys[q], chosen'[q])
    <3>1. CASE a = whose[p]
      <4>1. \A q \in Updaters(a) : q = p
        BY <2>1, <3>1 DEF SpecIInv, BindingsKnown
      <4>2. asked[a] = keys[p] /\ bindings[a] = BoundTo(keys[p], chosen[p])
        BY <2>1, <3>1 DEF SpecIInv, BindingsKnown
      <4>3. Updaters(a)' = Updaters(a) /\ p \in Updaters(a)
        BY <2>1, <3>1
      <4>4. bindings'[a] = BoundTo(keys[p], chosen'[p])
        BY <1>c, <2>2, <2>3, <3>1, <4>2
      <4> QED
        BY <4>1, <4>2, <4>3, <4>4
    <3>2. CASE a # whose[p]
      BY <1>c, <2>1, <2>3, <3>2 DEF SpecIInv, BindingsKnown
    <3> QED
      BY <3>1, <3>2
  <2> QED
    BY <2>4, <2>5, <2>6 DEF BindingsKnown
<1>7. ReadingsKnown'
  BY DEF SpecIInv, ReadingsKnown, SpecTypeOK, SpecFlow, Asking, Made
<1>8. LaunchConsistent'
  BY DEF SpecIInv, LaunchConsistent, SpecTypeOK, SpecFlow, Asking
<1> QED
  BY <1>1, <1>2, <1>3, <1>4, <1>5, <1>6, <1>7, <1>8 DEF SpecIInv

\* An update is over when all of its list is bound.
LEMMA BindingsDoneKept ==
    ASSUME NEW p \in Procs, SpecIInv, BindingsDone(p),
           requests' = requests
    PROVE  SpecIInv'
<1> USE SpecAssumption DEF BindingsDone, MoveTo, specRows,
    requestVars, specHistory, Finish
<1>a. whose[p] \in Agents
  BY DEF SpecIInv, SpecTypeOK, SpecFlow
<1>1. SpecTypeOK'
  <2>1. SpecRowType'
    BY <1>a DEF SpecIInv, SpecTypeOK, SpecRowType, SpecFlow, Made, Asking
  <2>2. SpecRequestType'
    BY <1>a, NullTypes DEF SpecIInv, SpecTypeOK, SpecRequestType, SpecFlow,
        Made, Asking
  <2>3. BindingType'
    BY <1>a DEF SpecIInv, SpecTypeOK, BindingType, SpecFlow, Made, Asking
  <2>4. OrderingType'
    BY DEF SpecIInv, SpecTypeOK, OrderingType, SpecFlow, Made, Asking
  <2> QED
    BY <2>1, <2>2, <2>3, <2>4 DEF SpecTypeOK, SpecRowType, SpecRequestType,
        BindingType, OrderingType
<1>2. SpecFlow'
  BY DEF SpecIInv, SpecFlow, SpecTypeOK, Made, Asking
<1>3. Drafted'
  BY DEF SpecIInv, Drafted, SpecFlow, SpecTypeOK, Asking
<1>4. Ordered'
  BY DEF SpecIInv, Ordered, SpecTypeOK, SpecFlow, Made
<1>5. PortsUsed'
  BY DEF SpecIInv, PortsUsed, SpecTypeOK, SpecFlow, Made, Asking
<1>6. BindingsKnown'
  BY DEF SpecIInv, BindingsKnown, Updaters, SpecTypeOK, SpecFlow, Asking,
      Made
<1>7. ReadingsKnown'
  BY DEF SpecIInv, ReadingsKnown, SpecTypeOK, SpecFlow, Asking, Made
<1>8. LaunchConsistent'
  BY DEF SpecIInv, LaunchConsistent, SpecTypeOK, SpecFlow, Asking
<1> QED
  BY <1>1, <1>2, <1>3, <1>4, <1>5, <1>6, <1>7, <1>8 DEF SpecIInv

\* A launch reads port and bindings.
LEMMA ReadSummaryKept ==
    ASSUME NEW p \in Procs, SpecIInv, ReadSummary(p),
           requests' = requests
    PROVE  SpecIInv'
<1> USE SpecAssumption DEF ReadSummary, MoveTo, specRows,
    requestVars, specHistory
<1>a. whose[p] \in Agents
  BY DEF SpecIInv, SpecTypeOK, SpecFlow
<1>b. Listing(bindings[whose[p]]) \in Lists
  BY <1>a, ReadType DEF SpecIInv
<1>1. SpecTypeOK'
  <2>1. SpecRowType'
    BY <1>a DEF SpecIInv, SpecTypeOK, SpecRowType, SpecFlow, Made, Asking
  <2>2. SpecRequestType'
    <3>1. launch' \in [Procs -> Reading]
      <4> DEFINE list == Listing(bindings[whose[p]])
      <4>1. list \in Lists /\ launch' = [launch EXCEPT ![p].summary = list]
        BY <1>b
      <4> HIDE DEF list, ReadSummary
      <4>2. launch \in [Procs -> Reading]
        BY DEF SpecIInv, SpecTypeOK
      <4> DEFINE new == [launch[p] EXCEPT !.summary = list]
      <4>3. new \in Reading
        BY <4>1, <4>2 DEF Reading
      <4>4. launch' = [launch EXCEPT ![p] = new]
        BY <4>1, <4>2
      <4> HIDE DEF new
      <4> QED
        BY <4>2, <4>3, <4>4
    <3>2. port[whose[p]] \in Ports /\ port[whose[p]] \in Nat
      BY <1>a DEF SpecIInv, SpecTypeOK, Ports
    <3> QED
      BY <3>1, <3>2 DEF SpecIInv, SpecTypeOK, SpecRequestType
  <2>3. BindingType'
    BY <1>a DEF SpecIInv, SpecTypeOK, BindingType, SpecFlow, Made, Asking
  <2>4. OrderingType'
    BY DEF SpecIInv, SpecTypeOK, OrderingType, SpecFlow, Made, Asking
  <2> QED
    BY <2>1, <2>2, <2>3, <2>4 DEF SpecTypeOK, SpecRowType, SpecRequestType,
        BindingType, OrderingType
<1>2. SpecFlow'
  BY DEF SpecIInv, SpecFlow, SpecTypeOK, Made, Asking
<1>3. Drafted'
  BY DEF SpecIInv, Drafted, SpecFlow, SpecTypeOK, Asking
<1>4. Ordered'
  BY DEF SpecIInv, Ordered, SpecTypeOK, SpecFlow, Made
<1>5. PortsUsed'
  BY DEF SpecIInv, PortsUsed, SpecTypeOK, SpecFlow, Made, Asking
<1>6. BindingsKnown'
  BY DEF SpecIInv, BindingsKnown, Updaters, SpecTypeOK, SpecFlow, Asking,
      Made
<1>7. ReadingsKnown'
  BY DEF SpecIInv, ReadingsKnown, SpecTypeOK, SpecFlow, Asking, Made
<1>8. LaunchConsistent'
  BY DEF SpecIInv, LaunchConsistent, SpecTypeOK, SpecFlow, Asking,
      ReadingsKnown
<1> QED
  BY <1>1, <1>2, <1>3, <1>4, <1>5, <1>6, <1>7, <1>8 DEF SpecIInv

\* A launch compiles the prompt.
LEMMA CompilePromptKept ==
    ASSUME NEW p \in Procs, SpecIInv, CompilePrompt(p),
           requests' = requests
    PROVE  SpecIInv'
<1> USE SpecAssumption DEF CompilePrompt, MoveTo, specRows,
    requestVars, specHistory
<1>a. whose[p] \in Agents
  BY DEF SpecIInv, SpecTypeOK, SpecFlow
<1>b. Listing(bindings[whose[p]]) \in Lists
  BY <1>a, ReadType DEF SpecIInv
<1>1. SpecTypeOK'
  <2>1. SpecRowType'
    BY <1>a DEF SpecIInv, SpecTypeOK, SpecRowType, SpecFlow, Made, Asking
  <2>2. SpecRequestType'
    <3>1. launch' \in [Procs -> Reading]
      <4> DEFINE list == Listing(bindings[whose[p]])
      <4>1. list \in Lists /\ launch' = [launch EXCEPT ![p].prompt = list]
        BY <1>b
      <4> HIDE DEF list, CompilePrompt
      <4>2. launch \in [Procs -> Reading]
        BY DEF SpecIInv, SpecTypeOK
      <4> DEFINE new == [launch[p] EXCEPT !.prompt = list]
      <4>3. new \in Reading
        BY <4>1, <4>2 DEF Reading
      <4>4. launch' = [launch EXCEPT ![p] = new]
        BY <4>1, <4>2
      <4> HIDE DEF new
      <4> QED
        BY <4>2, <4>3, <4>4
    <3> QED
      BY <3>1 DEF SpecIInv, SpecTypeOK, SpecRequestType
  <2>3. BindingType'
    BY <1>a DEF SpecIInv, SpecTypeOK, BindingType, SpecFlow, Made, Asking
  <2>4. OrderingType'
    BY DEF SpecIInv, SpecTypeOK, OrderingType, SpecFlow, Made, Asking
  <2> QED
    BY <2>1, <2>2, <2>3, <2>4 DEF SpecTypeOK, SpecRowType, SpecRequestType,
        BindingType, OrderingType
<1>2. SpecFlow'
  BY DEF SpecIInv, SpecFlow, SpecTypeOK, Made, Asking
<1>3. Drafted'
  BY DEF SpecIInv, Drafted, SpecFlow, SpecTypeOK, Asking
<1>4. Ordered'
  BY DEF SpecIInv, Ordered, SpecTypeOK, SpecFlow, Made
<1>5. PortsUsed'
  BY DEF SpecIInv, PortsUsed, SpecTypeOK, SpecFlow, Made, Asking
<1>6. BindingsKnown'
  BY DEF SpecIInv, BindingsKnown, Updaters, SpecTypeOK, SpecFlow, Asking,
      Made
<1>7. ReadingsKnown'
  BY DEF SpecIInv, ReadingsKnown, SpecTypeOK, SpecFlow, Asking, Made
<1>8. LaunchConsistent'
  BY DEF SpecIInv, LaunchConsistent, SpecTypeOK, SpecFlow, Asking,
      ReadingsKnown
<1> QED
  BY <1>1, <1>2, <1>3, <1>4, <1>5, <1>6, <1>7, <1>8 DEF SpecIInv

\* A launch makes the skill stack.
LEMMA StackKept ==
    ASSUME NEW p \in Procs, SpecIInv, Stack(p),
           requests' = requests
    PROVE  SpecIInv'
<1> USE SpecAssumption DEF Stack, MoveTo, specRows,
    requestVars, specHistory
<1>a. whose[p] \in Agents
  BY DEF SpecIInv, SpecTypeOK, SpecFlow
<1>b. Listing(bindings[whose[p]]) \in Lists
  BY <1>a, ReadType DEF SpecIInv
<1>1. SpecTypeOK'
  <2>1. SpecRowType'
    BY <1>a DEF SpecIInv, SpecTypeOK, SpecRowType, SpecFlow, Made, Asking
  <2>2. SpecRequestType'
    <3>1. launch' \in [Procs -> Reading]
      <4> DEFINE list == Listing(bindings[whose[p]])
      <4>1. list \in Lists /\ launch' = [launch EXCEPT ![p].stack = list]
        BY <1>b
      <4> HIDE DEF list, Stack
      <4>2. launch \in [Procs -> Reading]
        BY DEF SpecIInv, SpecTypeOK
      <4> DEFINE new == [launch[p] EXCEPT !.stack = list]
      <4>3. new \in Reading
        BY <4>1, <4>2 DEF Reading
      <4>4. launch' = [launch EXCEPT ![p] = new]
        BY <4>1, <4>2
      <4> HIDE DEF new
      <4> QED
        BY <4>2, <4>3, <4>4
    <3> QED
      BY <3>1 DEF SpecIInv, SpecTypeOK, SpecRequestType
  <2>3. BindingType'
    BY <1>a DEF SpecIInv, SpecTypeOK, BindingType, SpecFlow, Made, Asking
  <2>4. OrderingType'
    BY DEF SpecIInv, SpecTypeOK, OrderingType, SpecFlow, Made, Asking
  <2> QED
    BY <2>1, <2>2, <2>3, <2>4 DEF SpecTypeOK, SpecRowType, SpecRequestType,
        BindingType, OrderingType
<1>2. SpecFlow'
  BY DEF SpecIInv, SpecFlow, SpecTypeOK, Made, Asking
<1>3. Drafted'
  BY DEF SpecIInv, Drafted, SpecFlow, SpecTypeOK, Asking
<1>4. Ordered'
  BY DEF SpecIInv, Ordered, SpecTypeOK, SpecFlow, Made
<1>5. PortsUsed'
  BY DEF SpecIInv, PortsUsed, SpecTypeOK, SpecFlow, Made, Asking
<1>6. BindingsKnown'
  BY DEF SpecIInv, BindingsKnown, Updaters, SpecTypeOK, SpecFlow, Asking,
      Made
<1>7. ReadingsKnown'
  BY DEF SpecIInv, ReadingsKnown, SpecTypeOK, SpecFlow, Asking, Made
<1>8. LaunchConsistent'
  BY DEF SpecIInv, LaunchConsistent, SpecTypeOK, SpecFlow, Asking,
      ReadingsKnown
<1> QED
  BY <1>1, <1>2, <1>3, <1>4, <1>5, <1>6, <1>7, <1>8 DEF SpecIInv

\* A launch provisions the runtime, with the port it has read.
LEMMA ProvisionPortKept ==
    ASSUME NEW p \in Procs, SpecIInv, ProvisionPort(p),
           requests' = requests
    PROVE  SpecIInv'
<1> USE SpecAssumption DEF ProvisionPort, MoveTo, specRows,
    requestVars, specHistory, Finish
<1>a. whose[p] \in Agents
  BY DEF SpecIInv, SpecTypeOK, SpecFlow
<1>1. SpecTypeOK'
  <2>1. SpecRowType'
    BY <1>a DEF SpecIInv, SpecTypeOK, SpecRowType, SpecFlow, Made, Asking
  <2>2. SpecRequestType'
    BY <1>a, NullTypes DEF SpecIInv, SpecTypeOK, SpecRequestType, SpecFlow,
        Made, Asking
  <2>3. BindingType'
    BY <1>a DEF SpecIInv, SpecTypeOK, BindingType, SpecFlow, Made, Asking
  <2>4. OrderingType'
    BY DEF SpecIInv, SpecTypeOK, OrderingType, SpecFlow, Made, Asking
  <2> QED
    BY <2>1, <2>2, <2>3, <2>4 DEF SpecTypeOK, SpecRowType, SpecRequestType,
        BindingType, OrderingType
<1>2. SpecFlow'
  BY DEF SpecIInv, SpecFlow, SpecTypeOK, Made, Asking
<1>3. Drafted'
  BY DEF SpecIInv, Drafted, SpecFlow, SpecTypeOK, Asking
<1>4. Ordered'
  BY DEF SpecIInv, Ordered, SpecTypeOK, SpecFlow, Made
<1>5. PortsUsed'
  BY DEF SpecIInv, PortsUsed, SpecTypeOK, SpecFlow, Made, Asking
<1>6. BindingsKnown'
  BY DEF SpecIInv, BindingsKnown, Updaters, SpecTypeOK, SpecFlow, Asking,
      Made
<1>7. ReadingsKnown'
  BY DEF SpecIInv, ReadingsKnown, SpecTypeOK, SpecFlow, Asking, Made
<1>8. LaunchConsistent'
  BY DEF SpecIInv, LaunchConsistent, SpecTypeOK, SpecFlow, Asking
<1> QED
  BY <1>1, <1>2, <1>3, <1>4, <1>5, <1>6, <1>7, <1>8 DEF SpecIInv

\* A request breaks off; one that was binding has broken its agent.
LEMMA BreakOffKept ==
    ASSUME NEW p \in Procs, SpecIInv, BreakOff(p),
           requests' = requests
    PROVE  SpecIInv'
<1> USE SpecAssumption DEF BreakOff, MoveTo, specRows,
    requestVars, specHistory, Finish
<1>a. whose[p] \in Agents
  BY DEF SpecIInv, SpecTypeOK, SpecFlow, Asking
<1>1. SpecTypeOK'
  <2>1. SpecRowType'
    <3>1. asked' \in [Agents -> Lists] /\ broken' \subseteq Agents
      <4>1. CASE place[p] = "bind"
        <5> DEFINE none == <<>>
        <5>1. none \in Lists /\ asked' = [asked EXCEPT ![whose[p]] = none]
          BY <4>1, NullTypes
        <5>2. broken' = broken \cup {whose[p]}
          BY <4>1
        <5> HIDE DEF none, BreakOff
        <5> QED
          BY <1>a, <5>1, <5>2 DEF SpecIInv, SpecTypeOK
      <4>2. CASE place[p] # "bind"
        BY <4>2 DEF SpecIInv, SpecTypeOK
      <4> QED
        BY <4>1, <4>2
    <3>2. drafter' \in Procs \cup {NoProc} /\ mixed' \subseteq Procs
      BY DEF SpecIInv, SpecTypeOK
    <3> QED
      BY <3>1, <3>2 DEF SpecIInv, SpecTypeOK, SpecRowType
  <2>2. SpecRequestType'
    BY <1>a, NullTypes DEF SpecIInv, SpecTypeOK, SpecRequestType, SpecFlow,
        Made, Asking
  <2>3. BindingType'
    BY <1>a DEF SpecIInv, SpecTypeOK, BindingType, SpecFlow, Made, Asking
  <2>4. OrderingType'
    BY DEF SpecIInv, SpecTypeOK, OrderingType, SpecFlow, Made, Asking
  <2> QED
    BY <2>1, <2>2, <2>3, <2>4 DEF SpecTypeOK, SpecRowType, SpecRequestType,
        BindingType, OrderingType
<1>2. SpecFlow'
  BY DEF SpecIInv, SpecFlow, SpecTypeOK, Made, Asking
<1>3. Drafted'
  BY DEF SpecIInv, Drafted, SpecFlow, SpecTypeOK, Asking
<1>4. Ordered'
  BY DEF SpecIInv, Ordered, SpecTypeOK, SpecFlow, Made
<1>5. PortsUsed'
  BY DEF SpecIInv, PortsUsed, SpecTypeOK, SpecFlow, Made, Asking
<1>6. BindingsKnown'
  BY DEF SpecIInv, BindingsKnown, Updaters, SpecTypeOK, SpecFlow, Asking,
      Made
<1>7. ReadingsKnown'
  BY DEF SpecIInv, ReadingsKnown, SpecTypeOK, SpecFlow, Asking, Made
<1>8. LaunchConsistent'
  BY DEF SpecIInv, LaunchConsistent, SpecTypeOK, SpecFlow, Asking
<1> QED
  BY <1>1, <1>2, <1>3, <1>4, <1>5, <1>6, <1>7, <1>8 DEF SpecIInv

\* A runtime is made otherwise.
LEMMA MakeRuntimeKept ==
    ASSUME SpecIInv, MakeRuntime
    PROVE  SpecIInv'
<1> USE SpecAssumption DEF MoveTo, specRows, requestVars,
    specHistory, MakeRuntime, Counted
<1>1. SpecTypeOK'
  <2>1. SpecRowType'
    BY DEF Ports, SpecIInv, SpecTypeOK, SpecRowType, SpecFlow, Made,
        Asking
  <2>2. SpecRequestType'
    BY DEF SpecIInv, SpecTypeOK, SpecRequestType, SpecFlow, Made, Asking
  <2>3. BindingType'
    BY DEF SpecIInv, SpecTypeOK, BindingType, SpecFlow, Made, Asking
  <2>4. OrderingType'
    BY DEF SpecIInv, SpecTypeOK, OrderingType, SpecFlow, Made, Asking
  <2> QED
    BY <2>1, <2>2, <2>3, <2>4 DEF SpecTypeOK, SpecRowType, SpecRequestType,
        BindingType, OrderingType
<1>2. SpecFlow'
  BY DEF SpecIInv, SpecFlow, SpecTypeOK, Made, Asking
<1>3. Drafted'
  BY DEF SpecIInv, Drafted, SpecFlow, SpecTypeOK, Asking
<1>4. Ordered'
  BY DEF SpecIInv, Ordered, SpecTypeOK, SpecFlow, Made
<1>5. PortsUsed'
  BY DEF SpecIInv, PortsUsed, SpecTypeOK, SpecFlow, Made, Asking
<1>6. BindingsKnown'
  BY DEF SpecIInv, BindingsKnown, Updaters, SpecTypeOK, SpecFlow, Asking,
      Made
<1>7. ReadingsKnown'
  BY DEF SpecIInv, ReadingsKnown, SpecTypeOK, SpecFlow, Asking, Made
<1>8. LaunchConsistent'
  BY DEF SpecIInv, LaunchConsistent, SpecTypeOK, SpecFlow, Asking
<1> QED
  BY <1>1, <1>2, <1>3, <1>4, <1>5, <1>6, <1>7, <1>8 DEF SpecIInv

\* An agent is made of a runtime, with the port that has.
LEMMA BackfillKept ==
    ASSUME SpecIInv, BackfillSpec
    PROVE  SpecIInv'
<1> USE SpecAssumption DEF MoveTo, specRows, requestVars,
    specHistory, BackfillSpec, Sets
<1>1. SpecTypeOK'
  <2>1. SpecRowType'
    BY DEF SpecIInv, SpecTypeOK, SpecRowType, SpecFlow, Made, Asking
  <2>2. SpecRequestType'
    BY DEF SpecIInv, SpecTypeOK, SpecRequestType, SpecFlow, Made, Asking
  <2>3. BindingType'
    BY DEF SpecIInv, SpecTypeOK, BindingType, SpecFlow, Made, Asking
  <2>4. OrderingType'
    BY DEF SpecIInv, SpecTypeOK, OrderingType, SpecFlow, Made, Asking
  <2> QED
    BY <2>1, <2>2, <2>3, <2>4 DEF SpecTypeOK, SpecRowType, SpecRequestType,
        BindingType, OrderingType
<1>2. SpecFlow'
  BY DEF SpecIInv, SpecFlow, SpecTypeOK, Made, Asking
<1>3. Drafted'
  BY DEF SpecIInv, Drafted, SpecFlow, SpecTypeOK, Asking
<1>4. Ordered'
  BY DEF SpecIInv, Ordered, SpecTypeOK, SpecFlow, Made
<1>5. PortsUsed'
  BY DEF SpecIInv, PortsUsed, SpecTypeOK, SpecFlow, Made, Asking
<1>6. BindingsKnown'
  BY DEF SpecIInv, BindingsKnown, Updaters, SpecTypeOK, SpecFlow, Asking,
      Made
<1>7. ReadingsKnown'
  BY DEF SpecIInv, ReadingsKnown, SpecTypeOK, SpecFlow, Asking, Made
<1>8. LaunchConsistent'
  BY DEF SpecIInv, LaunchConsistent, SpecTypeOK, SpecFlow, Asking
<1> QED
  BY <1>1, <1>2, <1>3, <1>4, <1>5, <1>6, <1>7, <1>8 DEF SpecIInv

-----------------------------------------------------------------------------
(***************************************************************************)
(* The theorems                                                            *)
(***************************************************************************)

\* SpecIInv is inductive.
THEOREM SpecInvariance == BuildSpecs => []SpecIInv
<1>1. SpecInit => SpecIInv
  <2> SUFFICES ASSUME SpecInit PROVE SpecIInv
    OBVIOUS
  <2> USE SpecAssumption DEF SpecInit
  <2>1. SpecTypeOK
    <3>1. SpecRowType
      BY NullTypes DEF SpecRowType
    <3>2. SpecRequestType
      BY NullTypes DEF SpecRequestType
    <3>3. BindingType /\ OrderingType
      BY DEF BindingType, OrderingType, Made
    <3> QED
      BY <3>1, <3>2, <3>3 DEF SpecTypeOK, SpecRowType, SpecRequestType, BindingType,
          OrderingType
  <2>2. SpecFlow /\ Drafted /\ Ordered /\ PortsUsed
    BY DEF SpecFlow, Drafted, Ordered, PortsUsed, Made
  <2>3. BindingsKnown
    <3>1. Len(<<>>) = 0
      OBVIOUS
    <3> QED
      BY <3>1 DEF BindingsKnown, BoundTo, Updaters
  <2>4. ReadingsKnown /\ LaunchConsistent
    BY DEF ReadingsKnown, LaunchConsistent
  <2> QED
    BY <2>1, <2>2, <2>3, <2>4 DEF SpecIInv
<1>2. SpecIInv /\ [SpecNext]_(specVars) => SpecIInv'
  <2> SUFFICES ASSUME SpecIInv, [SpecNext]_(specVars) PROVE SpecIInv'
    OBVIOUS
  <2>1. ASSUME NEW p \in Procs, SpecRequest(p) PROVE SpecIInv'
    BY <2>1, RequestKept
  <2>2. ASSUME NEW p \in Procs, requests' = requests,
               \/ DraftAgent(p) \/ DraftPort(p) \/ DraftSpec(p)
               \/ Save(p) \/ SavePort(p)
        PROVE  SpecIInv'
    BY <2>2, DraftAgentKept, DraftPortKept, DraftSpecKept, SaveKept, SavePortKept
  <2>3. ASSUME NEW p \in Procs, requests' = requests,
               Clear(p) \/ Bind(p) \/ BindingsDone(p)
        PROVE  SpecIInv'
    BY <2>3, ClearKept, BindKept, BindingsDoneKept
  <2>4. ASSUME NEW p \in Procs, requests' = requests,
               \/ ReadSummary(p) \/ CompilePrompt(p) \/ Stack(p)
               \/ ProvisionPort(p) \/ BreakOff(p)
        PROVE  SpecIInv'
    BY <2>4, ReadSummaryKept, CompilePromptKept, StackKept, ProvisionPortKept, BreakOffKept
  <2>5. CASE MakeRuntime \/ BackfillSpec
    BY <2>5, MakeRuntimeKept, BackfillKept
  <2>6. CASE UNCHANGED specVars
    BY <2>6 DEF SpecIInv, specVars, specRows, requestVars, specHistory,
        SpecTypeOK, Made, SpecFlow, Drafted,
        Ordered, PortsUsed, BindingsKnown, Updaters, ReadingsKnown, LaunchConsistent
  <2> QED
    BY <2>1, <2>2, <2>3, <2>4, <2>5, <2>6, Zenon DEF SpecNext
<1> QED
  BY <1>1, <1>2, PTL DEF BuildSpecs

\* Agents share a port only where the one that got it last was given it, and
\* runtimes of agents with default ports do not.
THEOREM PortsApart == BuildSpecs => []PortsDistinct
<1>1. SpecIInv => PortsDistinct
  <2> SUFFICES ASSUME SpecIInv PROVE PortsDistinct
    OBVIOUS
  <2>1. ASSUME NEW a \in Agents \ explicit, NEW b \in Agents \ explicit,
               a # b, runtimePort[a] = runtimePort[b]
        PROVE  runtimePort[a] = 0
    <3> SUFFICES ASSUME runtimePort[a] # 0 PROVE FALSE
      OBVIOUS
    <3>1. port[a] = runtimePort[a] /\ port[b] = runtimePort[a]
      BY <2>1 DEF SpecIInv, PortsUsed
    <3>2. Made(a) /\ Made(b)
      BY <3>1 DEF Made
    <3>3. <<a, b>> \in earlier \/ <<b, a>> \in earlier
      BY <2>1, <3>2 DEF SpecIInv, SpecTypeOK
    <3> QED
      BY <2>1, <3>1, <3>3 DEF SpecIInv, Ordered
  <2> QED
    BY <2>1 DEF SpecIInv, PortsDistinct, Ordered
<1> QED
  BY <1>1, SpecInvariance, PTL

\* Bindings are what was asked for last, unless an update broke off or met another.
THEOREM BindingsKept == BuildSpecs => []BindingsWhole
<1>1. SpecIInv => BindingsWhole
  <2> SUFFICES ASSUME SpecIInv, NEW a \in Agents \ broken, Updaters(a) = {}
               PROVE  Listing(bindings[a]) = asked[a]
    BY DEF BindingsWhole
  <2>1. bindings[a] = BoundTo(asked[a], Len(asked[a])) /\ asked[a] \in Lists
    BY DEF SpecIInv, BindingsKnown, SpecTypeOK
  <2> QED
    BY <2>1, ListingBound
<1> QED
  BY <1>1, SpecInvariance, PTL

\* Summary, prompt and skill stack name the same skills, unless bindings changed.
THEOREM LaunchesConsistent == BuildSpecs => []LaunchConsistent
<1>1. SpecIInv => LaunchConsistent
  BY DEF SpecIInv
<1> QED
  BY <1>1, SpecInvariance, PTL

-----------------------------------------------------------------------------
(***************************************************************************)
(* Undisturbed updates                                                     *)
(*                                                                         *)
(* While no update of the bindings meets another, or a launch, of the same *)
(* agent, and none breaks off between its first binding and its last, the  *)
(* bindings are those asked for and a launch names one set of skills.      *)
(***************************************************************************)

SpecCalmNext ==
    \/ \E p \in Procs :
          \/ SpecRequest(p)
          \/ /\ \/ DraftAgent(p) \/ DraftPort(p) \/ DraftSpec(p)
                \/ Save(p) \/ SavePort(p)
                \/ Clear(p) /\ Updaters(whose[p]) = {} /\ Readers(p) = {}
                \/ Bind(p) /\ Readers(p) = {}
                \/ BindingsDone(p)
                \/ ReadSummary(p) /\ Updaters(whose[p]) = {}
                \/ CompilePrompt(p) \/ Stack(p) \/ ProvisionPort(p)
                \/ BreakOff(p) /\ place[p] # "bind"
             /\ UNCHANGED requests
    \/ MakeRuntime \/ BackfillSpec

SpecUndisturbed == SpecInit /\ [][SpecCalmNext]_specVars

\* The bindings of an agent nobody updates are those asked for, and what a
\* launch has read of them is one list.
SpecAtRest ==
    /\ \A a \in Agents : Updaters(a) = {} => Listing(bindings[a]) = asked[a]
    /\ \A p \in Procs : place[p] = "provision" =>
          launch[p].summary = launch[p].prompt /\ launch[p].prompt = launch[p].stack

\* Every step of undisturbed operation keeps the histories of accidents empty.
LEMMA SpecCalmStep ==
    broken = {} /\ mixed = {} /\ [SpecCalmNext]_specVars => (broken = {} /\ mixed = {})'
<1> SUFFICES ASSUME broken = {}, mixed = {}, [SpecCalmNext]_specVars
             PROVE  (broken = {} /\ mixed = {})'
  OBVIOUS
<1> USE DEF specHistory, Finish
<1>1. ASSUME NEW p \in Procs, SpecRequest(p) PROVE (broken = {} /\ mixed = {})'
  BY <1>1 DEF SpecRequest, HomePage, AgentWizard, AgentsApi, Studio, BuildSpecApi, LaunchApi,
      Drafts, SavesFields, Launches, Asks
<1>2. ASSUME NEW p \in Procs, DraftAgent(p) \/ DraftPort(p) \/ DraftSpec(p) \/ Save(p) \/ SavePort(p)
      PROVE  (broken = {} /\ mixed = {})'
  BY <1>2 DEF DraftAgent, DraftPort, DraftSpec, Save, SavePort
<1>3. ASSUME NEW p \in Procs,
             \/ Clear(p) /\ Updaters(whose[p]) = {} /\ Readers(p) = {}
             \/ Bind(p) /\ Readers(p) = {}
             \/ BindingsDone(p)
             \/ ReadSummary(p) /\ Updaters(whose[p]) = {}
      PROVE  (broken = {} /\ mixed = {})'
  BY <1>3 DEF Clear, Bind, BindingsDone, ReadSummary
<1>4. ASSUME NEW p \in Procs,
             \/ CompilePrompt(p) \/ Stack(p) \/ ProvisionPort(p)
             \/ BreakOff(p) /\ place[p] # "bind"
      PROVE  (broken = {} /\ mixed = {})'
  BY <1>4 DEF CompilePrompt, Stack, ProvisionPort, BreakOff
<1>5. CASE MakeRuntime \/ BackfillSpec
  BY <1>5 DEF MakeRuntime, BackfillSpec
<1>6. CASE UNCHANGED specVars
  BY <1>6 DEF specVars
<1> QED
  BY <1>1, <1>2, <1>3, <1>4, <1>5, <1>6 DEF SpecCalmNext

\* While updates of one agent meet neither each other nor its launches, and
\* none breaks off half-way, no bindings are lost and no launch is mixed.
THEOREM SpecUndisturbedAgrees == SpecUndisturbed => []SpecAtRest
<1>1. SpecInit => broken = {} /\ mixed = {}
  BY DEF SpecInit
<1>2. BindingsWhole /\ LaunchConsistent /\ broken = {} /\ mixed = {} => SpecAtRest
  BY DEF BindingsWhole, LaunchConsistent, SpecAtRest
<1>3. [SpecCalmNext]_specVars => [SpecNext]_specVars
  BY DEF SpecCalmNext, SpecNext
<1>4. SpecUndisturbed => BuildSpecs
  BY <1>3, PTL DEF SpecUndisturbed, BuildSpecs
<1>5. SpecUndisturbed => [](broken = {} /\ mixed = {})
  BY <1>1, SpecCalmStep, PTL DEF SpecUndisturbed
<1> QED
  BY <1>2, <1>4, <1>5, BindingsKept, LaunchesConsistent, PTL

===============================================================================

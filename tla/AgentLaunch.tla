----------------------------- MODULE AgentLaunch -----------------------------
(***************************************************************************)
(* Agents and their deployments.  An agent is what the operator sees; each *)
(* launch makes a new deployment of it and provisions the runtime that has *)
(* the agent's slug as its id.  Runtimes made otherwise get an agent when  *)
(* agents are next looked up.  Launch and stop write the rows of agent and *)
(* deployment before and after calls that take seconds.                    *)
(*                                                                         *)
(* Source: orchestrator/service_layer.py.                                  *)
(*                                                                         *)
(* What is kept: every write of the status of an agent, a deployment or a  *)
(* runtime, what was read before it, the order and the failures, the write *)
(* lock held by create_or_update_runtime.                                  *)
(* What is left out: the build spec (AgentSpecs; an agent's only one; that *)
(* it is not valid is one of the failures), what provisioning consists of  *)
(* (RuntimeKeys, RuntimeRegistry), the operations on runtimes themselves,  *)
(* which are one step each (RuntimeRegistry).                              *)
(***************************************************************************)
EXTENDS AgentRequests, Integers, Sequences

CONSTANTS
    MaxDeployments, \* bound: deployments of an agent
    Ops,            \* the operations requested: a subset of AllOps
    DirectOps       \* the runtime operations used beside them

AllOps == {"draft", "launch", "stop", "get"}

ASSUME LaunchAssumption ==
    /\ MaxDeployments \in Nat \ {0}
    /\ Ops \subseteq AllOps
    /\ DirectOps \subseteq {"create", "start", "stop", "delete"}
    /\ NoProc \notin Procs
    /\ NoAgent \notin Agents

VARIABLES
    status,         \* status[a]: AgentStatus, or "none" without an agent
    current,        \* current[a]: index of current_deployment, 0 for null
    deployments,    \* deployments[a]: its deployments, oldest first
    runtime,        \* runtime[a]: lifecycle_status of the row, or "none"
    up,             \* the runtimes whose gateway container is up
    writer,         \* the operation inside create_or_update_runtime
    pc, op, ag,     \* an operation's position, kind and agent
    read, todo,     \* the runtimes backfill has read, and has still to do
    dep,            \* dep[p]: index of the deployment p works with
    ref,            \* ref[p]: that deployment had a runtime_ref when loaded
    alone,          \* history: launches and stops without a rival
    trouble         \* history: agents a failure or a race may have left wrong

rowVars  == <<status, current, deployments, runtime, up>>
procVars == <<pc, op, ag, read, todo, dep, ref>>
vars == <<rowVars, writer, procVars, alone, trouble>>

Lifecycle == {"created", "running", "stopped"}

Deployment == [status : {"launching", "running", "stopped"}, ref : BOOLEAN]

TypeOK ==
    /\ status \in [Agents -> {"none", "draft", "ready", "launching", "running", "stopped"}]
    /\ deployments \in [Agents -> Seq(Deployment)]
    /\ \A a \in Agents :
          /\ Len(deployments[a]) <= MaxDeployments
          /\ current[a] \in 0 .. Len(deployments[a])
    /\ runtime \in [Agents -> Lifecycle \cup {"none"}]
    /\ up \subseteq Agents
    /\ writer \in Procs \cup {NoProc}
    /\ pc \in [Procs -> {"idle", "draft", "backfill", "load", "deploy", "mark",
                         "enter", "provision", "halt", "save_runtime",
                         "save_deployment", "save_agent"}]
    /\ op \in [Procs -> AllOps]
    /\ ag \in [Procs -> Agents \cup {NoAgent}]
    /\ read \in [Procs -> [Agents -> Lifecycle \cup {"none"}]]
    /\ todo \in [Procs -> SUBSET Agents]
    /\ dep \in [Procs -> 0 .. MaxDeployments]
    /\ ref \in [Procs -> BOOLEAN]
    /\ alone \subseteq Procs
    /\ trouble \subseteq Agents

-----------------------------------------------------------------------------

Goto(p, step) == pc' = [pc EXCEPT ![p] = step]

\* An autocommit write needs SQLite's write lock.
Unlocked == writer = NoProc

NothingRead == [a \in Agents |-> "none"]

\* Launches do one another no harm; a launch and a stop do.
Rivals(o, a) ==
    {q \in Procs : ag[q] = a /\ {o, op[q]} \subseteq {"launch", "stop"}
                   /\ (o # op[q] \/ q \notin alone)}

Over(p, bad) ==
    /\ Goto(p, "idle")
    /\ op' = [op EXCEPT ![p] = "get"]
    /\ ag' = [ag EXCEPT ![p] = NoAgent]
    /\ read' = [read EXCEPT ![p] = NothingRead]
    /\ todo' = [todo EXCEPT ![p] = {}]
    /\ dep' = [dep EXCEPT ![p] = 0]
    /\ ref' = [ref EXCEPT ![p] = FALSE]
    /\ alone' = alone \ {p}
    /\ trouble' = IF bad THEN trouble \cup {ag[p]} ELSE trouble \ {ag[p]}

\* No agents yet; the runtimes have been imported from a JSON state.
Init ==
    /\ status = [a \in Agents |-> "none"]
    /\ current = [a \in Agents |-> 0]
    /\ deployments = [a \in Agents |-> <<>>]
    /\ runtime \in [Agents -> {"none", "created"}]
    /\ up \in SUBSET {a \in Agents : runtime[a] = "created"}
    /\ writer = NoProc
    /\ pc = [p \in Procs |-> "idle"]
    /\ op = [p \in Procs |-> "get"]
    /\ ag = [p \in Procs |-> NoAgent]
    /\ read = [p \in Procs |-> NothingRead]
    /\ todo = [p \in Procs |-> {}]
    /\ dep = [p \in Procs |-> 0]
    /\ ref = [p \in Procs |-> FALSE]
    /\ alone = {}
    /\ trouble = {}

-----------------------------------------------------------------------------
(***************************************************************************)
(* Drafts and look-ups                                                     *)
(***************************************************************************)

\* Everything but a draft begins with get_agent, and so with
\* backfill_agents_from_runtimes, which reads the runtimes.
Request(p, o, a) ==
    /\ pc[p] = "idle"
    /\ Unlocked
    /\ op' = [op EXCEPT ![p] = o]
    /\ ag' = [ag EXCEPT ![p] = a]
    /\ alone' = IF Rivals(o, a) = {} THEN alone \cup {p} ELSE alone \ Rivals(o, a)
    /\ IF o = "draft"
       THEN Goto(p, "draft") /\ UNCHANGED <<read, todo>>
       ELSE /\ Goto(p, "backfill")
            /\ read' = [read EXCEPT ![p] = runtime]
            /\ todo' = [todo EXCEPT ![p] = {r \in Agents : runtime[r] # "none"}]
    /\ UNCHANGED <<rowVars, writer, dep, ref, trouble>>

\* create_draft_agent makes agent, build spec and bindings in one transaction;
\* a slug that is taken makes it raise (Fail).
Draft(p) ==
    /\ pc[p] = "draft"
    /\ Unlocked
    /\ status[ag[p]] = "none"
    /\ status' = [status EXCEPT ![ag[p]] = "draft"]
    /\ Over(p, ag[p] \in trouble)
    /\ UNCHANGED <<current, deployments, runtime, up, writer>>

AgentStatus(lifecycle) == IF lifecycle = "created" THEN "ready" ELSE lifecycle

DeploymentStatus(lifecycle) == IF lifecycle = "running" THEN "running" ELSE "stopped"

\* Agent, build spec and deployment are made in one transaction, with the
\* status the runtime had when it was read; when another request has made the
\* agent since the test, it raises (Fail).
AddAgent(p, r) ==
    /\ Unlocked
    /\ status' = [status EXCEPT ![r] = AgentStatus(read[p][r])]
    /\ deployments' = [deployments EXCEPT ![r] =
          <<[status |-> DeploymentStatus(read[p][r]), ref |-> TRUE]>>]
    /\ current' = [current EXCEPT ![r] = 1]

\* Mutant: only runtimes that run are given an agent.
BackfillMutant(p) ==
    /\ pc[p] = "backfill"
    /\ \E r \in todo[p] :
          /\ todo' = [todo EXCEPT ![p] = @ \ {r}]
          /\ IF status[r] # "none" \/ read[p][r] # "running"
             THEN UNCHANGED <<status, current, deployments>>
             ELSE AddAgent(p, r)
    /\ UNCHANGED <<runtime, up, writer, pc, op, ag, read, dep, ref, alone, trouble>>

\* One turn of the loop.
Backfill(p) ==
    /\ pc[p] = "backfill"
    /\ \E r \in todo[p] :
          /\ todo' = [todo EXCEPT ![p] = @ \ {r}]
          /\ IF status[r] # "none"
             THEN UNCHANGED <<status, current, deployments>>
             ELSE AddAgent(p, r)
    /\ UNCHANGED <<runtime, up, writer, pc, op, ag, read, dep, ref, alone, trouble>>

BackfillDone(p) ==
    /\ pc[p] = "backfill"
    /\ todo[p] = {}
    /\ Goto(p, "load")
    /\ UNCHANGED <<rowVars, writer, op, ag, read, todo, dep, ref, alone, trouble>>

\* Agent.objects.get with its current deployment.  Without an agent, and for a
\* stop without a deployment, the operation raises (Fail).
Load(p) ==
    /\ pc[p] = "load"
    /\ status[ag[p]] # "none"
    /\ CASE op[p] = "get" -> Over(p, ag[p] \in trouble)
         [] op[p] = "launch" ->
               /\ Goto(p, "deploy")
               /\ UNCHANGED <<op, ag, read, todo, dep, ref, alone, trouble>>
         [] op[p] = "stop" ->
               /\ current[ag[p]] # 0
               /\ dep' = [dep EXCEPT ![p] = current[ag[p]]]
               /\ ref' = [ref EXCEPT ![p] = deployments[ag[p]][current[ag[p]]].ref]
               /\ Goto(p, IF ref'[p] THEN "halt" ELSE "save_deployment")
               /\ UNCHANGED <<op, ag, read, todo, alone, trouble>>
    /\ UNCHANGED <<rowVars, writer>>

-----------------------------------------------------------------------------
(***************************************************************************)
(* launch_agent                                                            *)
(***************************************************************************)

Deploy(p) ==
    /\ pc[p] = "deploy"
    /\ Unlocked
    /\ Len(deployments[ag[p]]) < MaxDeployments
    /\ deployments' = [deployments EXCEPT ![ag[p]] =
                          Append(@, [status |-> "launching", ref |-> FALSE])]
    /\ dep' = [dep EXCEPT ![p] = Len(deployments'[ag[p]])]
    /\ Goto(p, "mark")
    /\ UNCHANGED <<status, current, runtime, up, writer, op, ag, read, todo, ref, alone, trouble>>

Mark(p) ==
    /\ pc[p] = "mark"
    /\ Unlocked
    /\ status' = [status EXCEPT ![ag[p]] = "launching"]
    /\ current' = [current EXCEPT ![ag[p]] = dep[p]]
    /\ Goto(p, "enter")
    /\ UNCHANGED <<deployments, runtime, up, writer, op, ag, read, todo, dep, ref, alone, trouble>>

\* create_or_update_runtime holds the write lock while it calls Infisical,
\* LiteLLM and Docker.
Enter(p) ==
    /\ pc[p] = "enter"
    /\ Unlocked
    /\ writer' = p
    /\ Goto(p, "provision")
    /\ UNCHANGED <<rowVars, op, ag, read, todo, dep, ref, alone, trouble>>

Provision(p) ==
    /\ pc[p] = "provision"
    /\ runtime' = [runtime EXCEPT ![ag[p]] = "running"]
    /\ up' = up \cup {ag[p]}
    /\ writer' = NoProc
    /\ Goto(p, "save_deployment")
    /\ UNCHANGED <<status, current, deployments, op, ag, read, todo, dep, ref, alone, trouble>>

-----------------------------------------------------------------------------
(***************************************************************************)
(* stop_agent, and the rows both write last                                *)
(***************************************************************************)

\* Mutant: stop_runtime's command fails unnoticed.
HaltMutant(p) ==
    /\ pc[p] = "halt"
    /\ runtime[ag[p]] # "none"
    /\ \E S \in {up, up \ {ag[p]}} : up' = S
    /\ Goto(p, "save_runtime")
    /\ UNCHANGED <<status, current, deployments, runtime, writer, op, ag, read, todo, dep, ref, alone, trouble>>

\* stop_runtime raises (Fail) without a runtime.
Halt(p) ==
    /\ pc[p] = "halt"
    /\ runtime[ag[p]] # "none"
    /\ up' = up \ {ag[p]}
    /\ Goto(p, "save_runtime")
    /\ UNCHANGED <<status, current, deployments, runtime, writer, op, ag, read, todo, dep, ref, alone, trouble>>

SaveRuntime(p) ==
    /\ pc[p] = "save_runtime"
    /\ Unlocked
    /\ runtime[ag[p]] # "none"
    /\ runtime' = [runtime EXCEPT ![ag[p]] = "stopped"]
    /\ Goto(p, "save_deployment")
    /\ UNCHANGED <<status, current, deployments, up, writer, op, ag, read, todo, dep, ref, alone, trouble>>

SaveDeployment(p) ==
    /\ pc[p] = "save_deployment"
    /\ Unlocked
    /\ deployments' = [deployments EXCEPT ![ag[p]][dep[p]] =
                          IF op[p] = "launch"
                          THEN [status |-> "running", ref |-> TRUE]
                          ELSE [@ EXCEPT !.status = "stopped"]]
    /\ Goto(p, "save_agent")
    /\ UNCHANGED <<status, current, runtime, up, writer, op, ag, read, todo, dep, ref, alone, trouble>>

SaveAgent(p) ==
    /\ pc[p] = "save_agent"
    /\ Unlocked
    /\ IF op[p] = "launch"
       THEN /\ status' = [status EXCEPT ![ag[p]] = "running"]
            /\ current' = [current EXCEPT ![ag[p]] = dep[p]]
       ELSE /\ status' = [status EXCEPT ![ag[p]] = "stopped"]
            /\ UNCHANGED current
    /\ Over(p, p \notin alone \/ (ag[p] \in trouble /\ op[p] = "stop" /\ ~ref[p]))
    /\ UNCHANGED <<deployments, runtime, up, writer>>

-----------------------------------------------------------------------------
(***************************************************************************)
(* Failures, and operations on the runtimes themselves                     *)
(***************************************************************************)

\* The operation has marked the agent, or taken its container down.
Begun(p) ==
    pc[p] \in {"enter", "provision", "save_runtime", "save_deployment", "save_agent"}

\* Any call raises, or the process is killed.  A command to Docker may have had
\* its effect.
Fail(p) ==
    /\ pc[p] # "idle"
    /\ \/ UNCHANGED up
       \/ pc[p] = "provision" /\ up' = up \cup {ag[p]}
       \/ pc[p] = "halt" /\ up' = up \ {ag[p]}
    /\ writer' = IF writer = p THEN NoProc ELSE writer
    /\ Over(p, ag[p] \in trouble \/ Begun(p) \/ p \notin alone \/ up' # up)
    /\ UNCHANGED <<status, current, deployments, runtime>>

\* Through the runtime pages or the CLI; agents are not told.
Direct(r) ==
    /\ Unlocked
    /\ \/ /\ "create" \in DirectOps
          /\ runtime' = [runtime EXCEPT ![r] = "running"]
          /\ up' = up \cup {r}
       \/ /\ "start" \in DirectOps /\ runtime[r] # "none"
          /\ runtime' = [runtime EXCEPT ![r] = "running"]
          /\ up' = up \cup {r}
       \/ /\ "stop" \in DirectOps /\ runtime[r] # "none"
          /\ runtime' = [runtime EXCEPT ![r] = "stopped"]
          /\ up' = up \ {r}
       \/ /\ "delete" \in DirectOps /\ runtime[r] # "none"
          /\ runtime' = [runtime EXCEPT ![r] = "none"]
          /\ up' \in {up, up \ {r}}
    /\ trouble' = IF status[r] # "none" \/ \E p \in Procs : r \in todo[p]
                  THEN trouble \cup {r} ELSE trouble
    /\ alone' = alone \ {p \in Procs : ag[p] = r}
    /\ UNCHANGED <<status, current, deployments, writer, procVars>>

Next ==
    \/ \E p \in Procs :
          \/ \E o \in Ops, a \in Agents : Request(p, o, a)
          \/ Draft(p) \/ Backfill(p) \/ BackfillDone(p) \/ Load(p)
          \/ Deploy(p) \/ Mark(p) \/ Enter(p) \/ Provision(p)
          \/ Halt(p) \/ SaveRuntime(p) \/ SaveDeployment(p) \/ SaveAgent(p)
          \/ Fail(p)
    \/ \E r \in Agents : Direct(r)

Spec == Init /\ [][Next]_vars

-----------------------------------------------------------------------------
(***************************************************************************)
(* Safety                                                                  *)
(***************************************************************************)

\* Launches and stops in progress that have written something already.
Working(a) ==
    \E p \in Procs :
        /\ ag[p] = a
        /\ p \notin alone \/ Begun(p)

\* What the operator sees of an agent is true: it is running, with a running
\* deployment, when its container is up, and stopped when it is not; unless an
\* operation is at work on it, or a launch that broke off, a stop that raced
\* with a launch, or an operation on the runtime itself has spoilt that, and
\* no launch has succeeded since.  The types are checked with it.
AgentTruthful ==
    /\ TypeOK
    /\ \A a \in Agents \ trouble :
          \/ Working(a)
          \/ /\ status[a] = "running" =>
                   a \in up /\ deployments[a][current[a]] = [status |-> "running", ref |-> TRUE]
             /\ status[a] = "stopped" => a \notin up
             /\ status[a] # "launching"

\* Whoever looks up agents finds one for every runtime there was when the
\* look-up began, although other requests make agents at the same time.
BackfillComplete ==
    \A p \in Procs : pc[p] = "load" =>
        \A r \in Agents : read[p][r] # "none" => status[r] # "none"

=============================================================================

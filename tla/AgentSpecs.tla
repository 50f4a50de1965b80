------------------------------ MODULE AgentSpecs -------------------------------
(***************************************************************************)
(* The build specs of agents: their gateway ports and the skills bound to  *)
(* them.  A draft is made in one transaction.  An update saves the fields, *)
(* deletes all the skill bindings and makes the new ones, each a statement *)
(* of its own; a launch reads the bindings three times.                    *)
(*                                                                         *)
(* Source: orchestrator/service_layer.py, and the handlers of              *)
(* controlplane/domain/views.py and api.py that call it.                   *)
(*                                                                         *)
(* What is kept: the order of the statements that read or write ports and  *)
(* bindings, the unique constraints, the transactions, the failures.       *)
(* What is left out: the other fields, which are saved with the port; the  *)
(* statuses and deployments (AgentLaunch); what provisioning consists of   *)
(* (RuntimeKeys, RuntimeRegistry); secrets of the workspace, which cannot  *)
(* be stored: every call that reaches Infisical for one raises a TypeError,*)
(* so that an agent with Telegram cannot be launched.                      *)
(***************************************************************************)
EXTENDS AgentRequests, Naturals, Sequences, SequencesExt

CONSTANTS
    Skills,     \* keys of the catalog
    MaxKeys,    \* bound: how many skills a request names
    MaxPort,    \* bound: the highest port
    MaxChosen,  \* bound: the highest port somebody chooses
    MaxRequests \* bound: how many requests there are

ASSUME SpecAssumption ==
    /\ {MaxKeys, MaxPort, MaxChosen, MaxRequests} \subseteq Nat /\ MaxChosen <= MaxPort
    /\ NoProc \notin Procs /\ NoAgent \notin Agents

VARIABLES
    port,       \* port[a]: gateway_port of the build spec, 0 without an agent
    bindings,   \* bindings[a]: its skill bindings, <<position, skill>>
    runtimePort, \* runtimePort[a]: the port of the runtime, 0 without one
    drafter,    \* the draft that holds the write lock
    place, kind, whose, \* a request's position, kind and agent
    keys,       \* keys[p]: the skills it names
    chosen,     \* chosen[p]: the port it names, or 0; then the port it has read
    launch,     \* launch[p]: the skills it has read for the runtime
    requests,   \* how many there have been
    asked,      \* history: the skills last asked for an agent that is not broken
    broken,     \* history: agents whose bindings an accident has left wrong
    mixed,      \* history: launches that have read while bindings changed
    earlier,    \* history: <<a, b>> where a's port was set before b's
    explicit    \* history: the agents somebody has given a port, or their runtime

specRows    == <<port, bindings, runtimePort, drafter>>
requestVars == <<place, kind, whose, keys, chosen, launch, requests>>
specHistory == <<asked, broken, mixed, earlier, explicit>>
specVars == <<specRows, requestVars, specHistory>>

Lists == BoundedSeq(Skills, MaxKeys)
Ports == 0..MaxPort

Reading == [summary : Lists, prompt : Lists, stack : Lists]
NoReading == [summary |-> <<>>, prompt |-> <<>>, stack |-> <<>>]

Made(a) == port[a] # 0
Asking(p) == place[p] # "idle"
MoveTo(p, step) == place' = [place EXCEPT ![p] = step]

\* The bindings in the order of their positions.
Listing(bs) == [i \in 1..Cardinality(bs) |->
    (CHOOSE b \in bs : Cardinality({c \in bs : c[1] < b[1]}) = i - 1)[2]]

SpecTypeOK ==
    /\ port \in [Agents -> Ports]
    /\ bindings \in [Agents -> SUBSET ((1..MaxKeys) \X Skills)]
    /\ \A a \in Agents :
          /\ \A b, c \in bindings[a] : b[1] = c[1] \/ b[2] = c[2] => b = c
          /\ ~Made(a) => bindings[a] = {}
    /\ runtimePort \in [Agents -> Ports]
    /\ drafter \in Procs \cup {NoProc}
    /\ place \in [Procs -> {"idle", "agent", "port", "spec", "save", "clear", "bind",
                         "deploy", "prompt", "stack", "provision"}]
    /\ kind \in [Procs -> {"none", "draft", "update", "launch"}]
    /\ whose \in [Procs -> Agents \cup {NoAgent}]
    /\ keys \in [Procs -> Lists] /\ chosen \in [Procs -> Nat]
    /\ \A p \in Procs : place[p] # "bind" => chosen[p] \in Ports
    /\ launch \in [Procs -> Reading]
    /\ asked \in [Agents -> Lists]
    /\ requests \in 0..MaxRequests
    /\ broken \subseteq Agents /\ mixed \subseteq Procs
    /\ earlier \subseteq Agents \X Agents
    /\ \A a, b \in Agents :
          /\ <<a, b>> \in earlier => Made(a) /\ Made(b) /\ <<b, a>> \notin earlier
          /\ Made(a) /\ Made(b) /\ a # b => <<a, b>> \in earlier \/ <<b, a>> \in earlier
    /\ explicit \subseteq Agents
    /\ \A p \in Procs : drafter = p <=> place[p] \in {"port", "spec"}

SpecInit ==
    /\ port = [a \in Agents |-> 0] /\ bindings = [a \in Agents |-> {}]
    /\ runtimePort = [a \in Agents |-> 0] /\ drafter = NoProc
    /\ place = [p \in Procs |-> "idle"] /\ kind = [p \in Procs |-> "none"]
    /\ whose = [p \in Procs |-> NoAgent]
    /\ keys = [p \in Procs |-> <<>>] /\ chosen = [p \in Procs |-> 0]
    /\ launch = [p \in Procs |-> NoReading]
    /\ asked = [a \in Agents |-> <<>>]
    /\ broken = {} /\ mixed = {} /\ earlier = {} /\ explicit = {} /\ requests = 0

-----------------------------------------------------------------------------
(***************************************************************************)
(* Requests                                                                *)
(***************************************************************************)

Counted == requests < MaxRequests /\ requests' = requests + 1

Asks(p, o, a, step, ks, n) ==
    /\ MoveTo(p, step)
    /\ kind' = [kind EXCEPT ![p] = o] /\ whose' = [whose EXCEPT ![p] = a]
    /\ keys' = [keys EXCEPT ![p] = ks] /\ chosen' = [chosen EXCEPT ![p] = n]
    /\ UNCHANGED <<specRows, launch, specHistory>>

\* create_draft_agent
Drafts(p) == \E a \in Agents, ks \in Lists, n \in 0..MaxChosen :
    Asks(p, "draft", a, "agent", ks, n)

\* update_agent_build_spec without skill_keys
SavesFields(p) == \E a \in Agents, n \in 0..MaxChosen :
    Made(a) /\ Asks(p, "update", a, "save", <<>>, n)

\* launch_agent
Launches(p) == \E a \in Agents : Made(a) /\ Asks(p, "launch", a, "deploy", <<>>, 0)

HomePage(p) == Drafts(p)
AgentWizard(p) == Drafts(p)
AgentsApi(p) == Drafts(p)

\* The studio saves the fields without the skills, a PATCH may name them.
Studio(p) == SavesFields(p) \/ Launches(p)
BuildSpecApi(p) ==
    \/ SavesFields(p)
    \/ \E a \in Agents, ks \in Lists, n \in 0..MaxChosen :
          Made(a) /\ Asks(p, "update", a, "clear", ks, n)
LaunchApi(p) == Launches(p)

SpecRequest(p) ==
    /\ ~Asking(p) /\ Counted
    /\ \/ HomePage(p) \/ AgentWizard(p) \/ AgentsApi(p)
       \/ Studio(p) \/ BuildSpecApi(p) \/ LaunchApi(p)

\* A runtime is made, or made anew, otherwise.
MakeRuntime == Counted /\ drafter = NoProc /\ \E a \in Agents, n \in 1..MaxChosen :
    /\ runtimePort' = [runtimePort EXCEPT ![a] = n]
    /\ explicit' = explicit \cup {a}
    /\ UNCHANGED <<port, bindings, drafter, place, kind, whose, keys, chosen, launch,
                   asked, broken, mixed, earlier>>

\* a's port is set, after those of all others.
Sets(a) ==
    earlier' = {e \in earlier : a \notin {e[1], e[2]}}
               \cup {<<b, a>> : b \in {c \in Agents \ {a} : Made(c)}}

\* Whoever looks agents up makes one of every runtime without: it has the port
\* of the runtime and no bindings.
BackfillSpec == \E a \in Agents :
    /\ drafter = NoProc
    /\ ~Made(a) /\ runtimePort[a] # 0
    /\ port' = [port EXCEPT ![a] = runtimePort[a]]
    /\ explicit' = explicit \cup {a} /\ Sets(a)
    /\ UNCHANGED <<bindings, runtimePort, drafter, requestVars, asked, broken, mixed>>

-----------------------------------------------------------------------------
(***************************************************************************)
(* The steps of a request                                                  *)
(***************************************************************************)

Finish(p) ==
    /\ MoveTo(p, "idle")
    /\ kind' = [kind EXCEPT ![p] = "none"] /\ whose' = [whose EXCEPT ![p] = NoAgent]
    /\ keys' = [keys EXCEPT ![p] = <<>>] /\ chosen' = [chosen EXCEPT ![p] = 0]
    /\ launch' = [launch EXCEPT ![p] = NoReading]
    /\ mixed' = mixed \ {p}

\* The first statement of the transaction takes SQLite's write lock.
Lock(p) == drafter = NoProc /\ drafter' = p

\* create_draft_agent inserts the agent; a slug that is taken makes it raise.
DraftAgent(p) ==
    /\ place[p] = "agent"
    /\ ~Made(whose[p])
    /\ Lock(p)
    /\ MoveTo(p, "port")
    /\ UNCHANGED <<port, bindings, runtimePort, kind, whose, keys, chosen, launch, specHistory>>

\* Mutant: the number of build specs, not the highest port.
NextPortMutant == Cardinality({a \in Agents : Made(a)}) + 1

\* _next_agent_gateway_port; the default of the highest is 0 here.
NextPort == (CHOOSE n \in Ports : n \in {port[a] : a \in Agents} /\ \A a \in Agents : port[a] <= n) + 1

\* The port of the request, or the next one.
DraftPort(p) ==
    /\ place[p] = "port"
    /\ chosen' = [chosen EXCEPT ![p] = IF @ = 0 THEN NextPort ELSE @]
    /\ chosen'[p] \in Ports
    /\ explicit' = IF chosen[p] = 0 THEN explicit ELSE explicit \cup {whose[p]}
    /\ MoveTo(p, "spec")
    /\ UNCHANGED <<specRows, kind, whose, keys, launch, asked, broken, mixed, earlier>>

Bound(ks) == {<<i, ks[i]>> : i \in DOMAIN ks}

\* The build spec and the bindings, and the transaction is committed.  A skill
\* named twice makes it raise.
DraftSpec(p) ==
    LET a == whose[p] IN
    /\ place[p] = "spec"
    /\ IsInjective(keys[p])
    /\ port' = [port EXCEPT ![a] = chosen[p]]
    /\ bindings' = [bindings EXCEPT ![a] = Bound(keys[p])]
    /\ asked' = [asked EXCEPT ![a] = keys[p]]
    /\ drafter' = NoProc
    /\ Sets(a)
    /\ Finish(p)
    /\ UNCHANGED <<runtimePort, broken, explicit>>

\* The launches that read the bindings of p's agent.
Readers(p) == {q \in Procs : kind[q] = "launch" /\ whose[q] = whose[p] /\ place[q] # "provision"}

Updaters(a) == {q \in Procs : whose[q] = a /\ kind[q] = "update" /\ place[q] = "bind"}

\* build_spec.save, with the bindings deleted next where skills are named.
SaveFields(p) ==
    LET a == whose[p] IN
    /\ chosen[p] # 0
    /\ port' = [port EXCEPT ![a] = chosen[p]]
    /\ explicit' = explicit \cup {a} /\ Sets(a)

Save(p) ==
    /\ place[p] = "save"
    /\ drafter = NoProc
    /\ SaveFields(p) \/ (chosen[p] = 0 /\ UNCHANGED <<port, explicit, earlier>>)
    /\ Finish(p)
    /\ UNCHANGED <<bindings, runtimePort, drafter, asked, broken>>

\* Mutant: the bindings there are stay.
ClearMutant(p) ==
    /\ place[p] = "clear" /\ chosen[p] = 0
    /\ drafter = NoProc
    /\ IF Updaters(whose[p]) = {}
       THEN broken' = broken \ {whose[p]} /\ asked' = [asked EXCEPT ![whose[p]] = keys[p]]
       ELSE broken' = broken \cup {whose[p]} /\ asked' = [asked EXCEPT ![whose[p]] = <<>>]
    /\ mixed' = mixed \cup Readers(p)
    /\ MoveTo(p, "bind")
    /\ UNCHANGED <<specRows, kind, whose, keys, chosen, launch, earlier, explicit>>

\* update_agent_build_spec saves its port, if it names one, ...
SavePort(p) ==
    /\ place[p] = "clear"
    /\ drafter = NoProc
    /\ SaveFields(p)
    /\ chosen' = [chosen EXCEPT ![p] = 0]
    /\ UNCHANGED <<bindings, runtimePort, drafter, place, kind, whose, keys, launch, asked, broken, mixed>>

\* ... deletes the bindings ...
Clear(p) ==
    /\ place[p] = "clear" /\ chosen[p] = 0
    /\ drafter = NoProc
    /\ bindings' = [bindings EXCEPT ![whose[p]] = {}]
    /\ IF Updaters(whose[p]) = {}
       THEN broken' = broken \ {whose[p]} /\ asked' = [asked EXCEPT ![whose[p]] = keys[p]]
       ELSE broken' = broken \cup {whose[p]} /\ asked' = [asked EXCEPT ![whose[p]] = <<>>]
    /\ mixed' = mixed \cup Readers(p)
    /\ MoveTo(p, "bind")
    /\ UNCHANGED <<port, runtimePort, drafter, kind, whose, keys, chosen, launch, earlier, explicit>>

\* ... and makes the new ones one by one; one that is there already makes it raise.
Bind(p) ==
    LET a == whose[p]
        i == chosen[p] + 1 IN
    /\ place[p] = "bind"
    /\ drafter = NoProc
    /\ i <= Len(keys[p])
    /\ \A b \in bindings[a] : b[1] # i /\ b[2] # keys[p][i]
    /\ bindings' = [bindings EXCEPT ![a] = @ \cup {<<i, keys[p][i]>>}]
    /\ chosen' = [chosen EXCEPT ![p] = i]
    /\ mixed' = mixed \cup Readers(p)
    /\ UNCHANGED <<port, runtimePort, drafter, place, kind, whose, keys, launch, asked, broken, earlier, explicit>>

BindingsDone(p) ==
    /\ place[p] = "bind"
    /\ chosen[p] = Len(keys[p])
    /\ Finish(p)
    /\ UNCHANGED <<specRows, asked, broken, earlier, explicit>>

\* launch_agent reads the port, and the bindings for the deployment's summary, ...
ReadSummary(p) ==
    LET a == whose[p] IN
    /\ place[p] = "deploy"
    /\ drafter = NoProc
    /\ chosen' = [chosen EXCEPT ![p] = port[a]]
    /\ launch' = [launch EXCEPT ![p].summary = Listing(bindings[a])]
    /\ mixed' = IF Updaters(a) = {} THEN mixed ELSE mixed \cup {p}
    /\ MoveTo(p, "prompt")
    /\ UNCHANGED <<specRows, kind, whose, keys, asked, broken, earlier, explicit>>

\* Mutant: the prompt names the skills in the order the table has them.
CompilePromptMutant(p) == \E ks \in Lists :
    LET bs == bindings[whose[p]] IN
    /\ place[p] = "prompt"
    /\ IsInjective(ks) /\ ToSet(ks) = {b[2] : b \in bs}
    /\ launch' = [launch EXCEPT ![p].prompt = ks]
    /\ MoveTo(p, "stack")
    /\ UNCHANGED <<specRows, kind, whose, keys, chosen, specHistory>>

\* ... for the prompt, ...
CompilePrompt(p) ==
    /\ place[p] = "prompt"
    /\ launch' = [launch EXCEPT ![p].prompt = Listing(bindings[whose[p]])]
    /\ MoveTo(p, "stack")
    /\ UNCHANGED <<specRows, kind, whose, keys, chosen, specHistory>>

\* ... and for the skill stack, ...
Stack(p) ==
    /\ place[p] = "stack"
    /\ launch' = [launch EXCEPT ![p].stack = Listing(bindings[whose[p]])]
    /\ MoveTo(p, "provision")
    /\ UNCHANGED <<specRows, kind, whose, keys, chosen, specHistory>>

\* ... and provisions the runtime with them.
ProvisionPort(p) ==
    /\ place[p] = "provision"
    /\ drafter = NoProc
    /\ runtimePort' = [runtimePort EXCEPT ![whose[p]] = chosen[p]]
    /\ Finish(p)
    /\ UNCHANGED <<port, bindings, drafter, asked, broken, earlier, explicit>>

\* An exception or a kill; a draft is rolled back.
BreakOff(p) ==
    /\ Asking(p)
    /\ drafter' = IF drafter = p THEN NoProc ELSE drafter
    /\ IF place[p] = "bind"
       THEN broken' = broken \cup {whose[p]} /\ asked' = [asked EXCEPT ![whose[p]] = <<>>]
       ELSE UNCHANGED <<broken, asked>>
    /\ Finish(p)
    /\ UNCHANGED <<port, bindings, runtimePort, earlier, explicit>>

SpecNext ==
    \/ \E p \in Procs :
          \/ SpecRequest(p)
          \/ /\ \/ DraftAgent(p) \/ DraftPort(p) \/ DraftSpec(p)
                \/ Save(p) \/ SavePort(p) \/ Clear(p) \/ Bind(p) \/ BindingsDone(p)
                \/ ReadSummary(p) \/ CompilePrompt(p) \/ Stack(p) \/ ProvisionPort(p) \/ BreakOff(p)
             /\ UNCHANGED requests
    \/ MakeRuntime \/ BackfillSpec

BuildSpecs == SpecInit /\ [][SpecNext]_specVars

-----------------------------------------------------------------------------
(***************************************************************************)
(* Safety                                                                  *)
(***************************************************************************)

\* A draft without a port gets one that no agent had before it, whatever drafts
\* are made beside it: agents share a port only where the one that got it last
\* has been given one by somebody, or was backfilled; and the runtimes of two whose
\* ports are the defaults can run side by side.  The types are checked with it.
PortsDistinct ==
    /\ SpecTypeOK
    /\ \A a, b \in Agents :
          <<a, b>> \in earlier /\ port[a] = port[b] => b \in explicit
    /\ \A a, b \in Agents \ explicit :
          a # b /\ runtimePort[a] = runtimePort[b] => runtimePort[a] = 0

\* An agent's bindings are the skills last asked for it, in their order, unless
\* an update is under way, or one has broken off or met another since.
BindingsWhole ==
    \A a \in Agents \ broken :
        Updaters(a) = {} => Listing(bindings[a]) = asked[a]

\* A runtime's prompt, its skill stack and the summary of its deployment name
\* the same skills, unless an update of the bindings was beside the launch.
LaunchConsistent ==
    \A p \in Procs \ mixed :
        place[p] = "provision" => /\ launch[p].summary = launch[p].prompt
                               /\ launch[p].prompt = launch[p].stack

=============================================================================

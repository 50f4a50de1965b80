----------------------------- MODULE RuntimeWizard -----------------------------
(***************************************************************************)
(* The runtime wizard and the skill catalog.  What an operator types step  *)
(* by step is kept in one dictionary of the Django session: a request      *)
(* reads it when it begins and writes it when it answers, so the tabs of a *)
(* browser overwrite one another.  The skills a page offers are looked up  *)
(* in the catalog when it is rendered, those a runtime gets when it is     *)
(* made; between the two the operator may change the catalog,              *)
(* and every bootstrap rewrites the entries of the internal skills.        *)
(*                                                                         *)
(* Source: controlplane/domain/views.py, api.py and                        *)
(* orchestrator/service_layer.py.                                          *)
(*                                                                         *)
(* What is kept: the steps with what their forms send, when the session is *)
(* read and written, the failures, what is checked of a skill and when, and*)
(* that a launch of an agent checks nothing.                               *)
(* What is left out: the model step, which is like the first; the port and *)
(* the other fields of the first; what making a runtime consists of        *)
(* (RuntimeKeys, RuntimeRegistry, RuntimeChannels).                        *)
(***************************************************************************)
EXTENDS Naturals, FiniteSets

CONSTANTS
    Tabs,               \* of one operator's browser
    Runtimes,
    Internal, External, \* skills with a manifest, and skills without
    Needy,              \* the skills that need Telegram and its token
    Bound,              \* bound: the skills agents are drafted with
    MaxTokens,          \* bound: how many bot tokens are typed
    MaxAccidents,       \* bound: requests beside another, and requests killed
    MaxTurned,          \* bound: how many skills an operator turns off
    NoRuntime

Skills == Internal \cup External

ASSUME WizardAssumption ==
    /\ Internal \cap External = {} /\ Needy \cup Bound \subseteq Skills
    /\ {MaxTokens, MaxAccidents, MaxTurned} \subseteq Nat /\ NoRuntime \notin Runtimes

VARIABLES
    session,    \* the wizard's dictionary as stored
    reviewed,   \* the skills that are active and internal or reviewed
    secret,     \* secret[r]: the Telegram token of a runtime
    stacked,    \* the skills some runtime has been given by a creation or an update
    launched,   \* those an agent's launch has given to its runtime
    pc, mem,    \* a tab's request, and the dictionary it has in memory
    offered,    \* offered[t]: the skills the operator could tick on its page
    tokens,     \* how many tokens have been typed
    accidents,  \* how many requests overlapped or were killed
    typed,      \* history: what the forms have said, unless tangled
    tangled,    \* history: has the session been written by tabs at a time?
    kept,       \* history: the tokens that have stayed in the session
    turned      \* history: the skills an operator has turned off

stacks == <<stacked, launched>>
requestVars == <<pc, mem, offered, tokens, accidents>>
historyVars == <<typed, tangled, kept, turned>>
vars == <<session, reviewed, secret, stacks, requestVars, historyVars>>

Wizard == [runtime : Runtimes \cup {NoRuntime}, telegram : BOOLEAN,
           token : 0..MaxTokens, skills : SUBSET Skills]

\* _wizard_defaults; no token is 0.
Defaults == [runtime |-> NoRuntime, telegram |-> FALSE, token |-> 0, skills |-> {}]

TypeOK ==
    /\ session \in Wizard /\ typed \in Wizard /\ mem \in [Tabs -> Wizard]
    /\ reviewed \subseteq Skills /\ turned \subseteq Skills
    /\ secret \in [Runtimes -> 0..MaxTokens] /\ stacked \subseteq Skills
    /\ launched \subseteq Bound
    /\ pc \in [Tabs -> {"idle", "answer", "create", "begin"}]
    /\ offered \in [Tabs -> SUBSET Skills] /\ tangled \in BOOLEAN
    /\ tokens \in 0..MaxTokens /\ kept \subseteq 1..MaxTokens
    /\ accidents \in 0..MaxAccidents
    /\ \A t \in Tabs : pc[t] = "begin" => mem[t].runtime \in Runtimes

Idle(t) == pc[t] = "idle"
Alone(t) == \A u \in Tabs \ {t} : Idle(u)
Goto(t, step) == pc' = [pc EXCEPT ![t] = step]

-----------------------------------------------------------------------------
(***************************************************************************)
(* The catalog                                                             *)
(***************************************************************************)

\* bootstrap_internal_skill_catalog
Bootstrapped == reviewed \cup Internal

\* _skill_dependency_status: the skills that are not disabled on a page that
\* shows w.
Available(w) == {k \in reviewed : k \in Needy => w.telegram /\ w.token # 0}

\* Mutant: the keys are looked up and nothing more is asked, as agents do.
SelectableMutant(keys, catalog) == keys \subseteq Skills

\* selected_skill_runtime_settings: dependencies are not looked at.
Selectable(keys, catalog) == keys \subseteq catalog

\* The operator edits an entry: its status or its trust.
EditCatalog == \E k \in Skills :
    /\ reviewed' = IF k \in reviewed THEN reviewed \ {k} ELSE reviewed \cup {k}
    /\ turned' = turned \cup (reviewed \cap {k}) /\ Cardinality(turned') <= MaxTurned
    /\ UNCHANGED <<session, secret, stacks, requestVars, typed, tangled, kept>>

\* An import, a migration, or a request elsewhere that looks a runtime up.
Bootstrap ==
    /\ reviewed' = Bootstrapped
    /\ UNCHANGED <<session, secret, stacks, requestVars, historyVars>>

-----------------------------------------------------------------------------
(***************************************************************************)
(* The wizard                                                              *)
(***************************************************************************)

Init ==
    /\ session = Defaults /\ typed = Defaults
    /\ reviewed \in {Skills, Internal}
    /\ secret = [r \in Runtimes |-> 0] /\ stacked = {} /\ launched = {}
    /\ pc = [t \in Tabs |-> "idle"] /\ mem = [t \in Tabs |-> Defaults]
    /\ offered = [t \in Tabs |-> {}] /\ tokens = 0 /\ accidents = 0
    /\ tangled = FALSE /\ kept = {} /\ turned = {}

\* GET ?step=3: a tab shows any step at any time, and only of this one does it
\* matter when.
Visit(t) ==
    /\ Idle(t)
    /\ offered' = [offered EXCEPT ![t] = Available(session)]
    /\ UNCHANGED <<session, reviewed, secret, stacks, pc, mem, tokens, accidents, historyVars>>

\* GET ?reset=1; a request under way in another tab brings the old ones back.
Reset(t) ==
    /\ Idle(t)
    /\ session' = Defaults /\ typed' = Defaults /\ tangled' = ~Alone(t)
    /\ UNCHANGED <<reviewed, secret, stacks, requestVars, kept, turned>>

\* A token is one nobody has typed before.
NewTokens == {0} \cup ({tokens + 1} \cap 1..MaxTokens)

\* What the form of a step sends: the first, the third and the fourth have
\* fields of the wizard, the last has none.
Forms(t) ==
    [step : {1}, runtime : Runtimes]
      \cup [step : {3}, telegram : BOOLEAN, skills : SUBSET offered[t]]
      \cup [step : {4}, token : NewTokens]
      \cup {[step |-> 5]}

\* Rebuild Baseline is a form of its own on the same step, without its fields.
Blanks ==
    {[step |-> 1, runtime |-> NoRuntime], [step |-> 4, token |-> 0], [step |-> 5],
     [step |-> 3, telegram |-> FALSE, skills |-> {}]}

\* Mutant: a blank token field clears the token.
UpdatedMutant(w, form) ==
    CASE form.step = 1 -> [w EXCEPT !.runtime = form.runtime]
      [] form.step = 3 -> [w EXCEPT !.telegram = form.telegram, !.skills = form.skills]
      [] form.step = 4 -> [w EXCEPT !.token = form.token]
      [] OTHER -> w

\* _update_wizard_state_from_post
Updated(w, form) ==
    CASE form.step = 1 -> [w EXCEPT !.runtime = form.runtime]
      [] form.step = 3 -> [w EXCEPT !.telegram = form.telegram, !.skills = form.skills]
      [] form.step = 4 -> [w EXCEPT !.token = IF form.token = 0 THEN @ ELSE form.token]
      [] OTHER -> w

\* What the operator has said, field by field.
Said(form) ==
    [f \in DOMAIN typed |->
        IF f \in DOMAIN form /\ ~(f = "token" /\ form[f] = 0) THEN form[f] ELSE typed[f]]

Accident(happens) ==
    /\ happens => accidents < MaxAccidents
    /\ accidents' = IF happens THEN accidents + 1 ELSE accidents

\* A form is sent.  The request has a copy of the session; what is in it when
\* requests overlap may come back later.
Sends(t, action, form) ==
    /\ Idle(t)
    /\ Accident(~Alone(t))
    /\ Goto(t, action)
    /\ mem' = [mem EXCEPT ![t] = Updated(session, form)]
    /\ tokens' = IF form.step = 4 /\ form.token # 0 THEN form.token ELSE tokens
    /\ tangled' = (tangled \/ ~Alone(t))
    /\ typed' = IF tangled' THEN Defaults ELSE Said(form)
    /\ kept' = IF Alone(t) THEN kept
               ELSE kept \cup (({session.token} \cup {mem'[u].token : u \in Tabs}) \ {0})
    /\ offered' = [offered EXCEPT ![t] = {}]
    /\ UNCHANGED <<session, secret, stacks, turned>>

\* Next, previous and validate save what the step's form says.
Post(t) == \E form \in Forms(t) : Sends(t, "answer", form) /\ UNCHANGED reviewed

\* The step's values are blanked, and the page says so only when it is shown;
\* backfill_runtime_related_records bootstraps the catalog.
Rebuild(t) == \E form \in Blanks : Sends(t, "answer", form) /\ reviewed' = Bootstrapped

\* The last step; it needs no validation.
Create(t) == Sends(t, "create", [step |-> 5]) /\ UNCHANGED reviewed

\* create_or_update_runtime, a transaction: Infisical refuses to make a project
\* for a runtime without an id; the catalog is bootstrapped and the skills are
\* looked up in it; a token is stored when there is one and Telegram is on.
Provision(r, telegram, token, keys) ==
    /\ r # NoRuntime
    /\ Selectable(keys, Bootstrapped)
    /\ reviewed' = Bootstrapped
    /\ stacked' = stacked \cup keys /\ UNCHANGED launched
    /\ secret' = [secret EXCEPT ![r] = IF telegram /\ token # 0 THEN token ELSE @]

\* A smoke test may follow.  When it raises, the operator is shown the last step
\* again, as after a creation that raises, though the runtime is made.
Make(t) == \E smokeFails \in BOOLEAN :
    /\ pc[t] = "create"
    /\ Provision(mem[t].runtime, mem[t].telegram, mem[t].token, mem[t].skills)
    /\ Goto(t, IF smokeFails THEN "answer" ELSE "begin")
    /\ kept' = IF smokeFails THEN kept \cup ({mem[t].token} \ {0}) ELSE kept
    /\ UNCHANGED <<session, mem, offered, tokens, accidents, typed, tangled, turned>>

\* The creation raises: all of it is rolled back.
Fails(t) ==
    /\ pc[t] = "create"
    /\ Goto(t, "answer")
    /\ UNCHANGED <<session, reviewed, secret, stacks, mem, offered, tokens, accidents,
                   historyVars>>

\* The session is saved with the answer.
Saves(t, w) ==
    /\ Goto(t, "idle")
    /\ session' = w
    /\ mem' = [mem EXCEPT ![t] = Defaults]
    /\ UNCHANGED <<reviewed, secret, stacks, offered, tokens, accidents, kept, turned>>

Answer(t) ==
    /\ pc[t] = "answer"
    /\ Saves(t, mem[t])
    /\ UNCHANGED <<typed, tangled>>

\* Mutant: after a creation the session keeps what was typed.
BeginMutant(t) ==
    /\ pc[t] = "begin"
    /\ Saves(t, mem[t])
    /\ UNCHANGED <<typed, tangled>>

\* After a creation the wizard begins anew.
Begin(t) ==
    /\ pc[t] = "begin"
    /\ Saves(t, Defaults)
    /\ typed' = Defaults
    /\ tangled' = (tangled /\ ~Alone(t))

\* An exception nobody catches, as one of the rebuild, or a kill: the session is
\* not saved.
Kill(t) ==
    /\ ~Idle(t)
    /\ Accident(TRUE)
    /\ Goto(t, "idle")
    /\ mem' = [mem EXCEPT ![t] = Defaults]
    /\ tangled' = TRUE /\ typed' = Defaults
    /\ kept' = kept \cup ({session.token} \ {0})
    /\ UNCHANGED <<session, reviewed, secret, stacks, offered, tokens, turned>>

\* POST of /api/runtime-wizard/create: everything comes with the request.
ApiCreate == \E r \in Runtimes, keys \in SUBSET Skills, token \in NewTokens :
    /\ Provision(r, token # 0, token, keys)
    /\ tokens' = IF token = 0 THEN tokens ELSE token
    /\ UNCHANGED <<session, pc, mem, offered, accidents, historyVars>>

-----------------------------------------------------------------------------
(***************************************************************************)
(* The skills of a runtime that is there, and of an agent                  *)
(***************************************************************************)

\* update_runtime_skills, of a runtime's page: the catalog is bootstrapped when
\* the runtime is looked up (Bootstrap), and may change before this look-up.
UpdateSkills == \E keys \in SUBSET Skills :
    /\ Selectable(keys, reviewed)
    /\ stacked' = stacked \cup keys
    /\ UNCHANGED <<session, reviewed, secret, launched, requestVars, historyVars>>

\* launch_agent: the skills bound to a draft, or to an agent by an update, by
\* their keys alone, become the stack of its runtime.  Without Telegram there is
\* no token; the bindings themselves are in AgentSpecs.
Launch == \E keys \in SUBSET Bound :
    /\ reviewed' = Bootstrapped
    /\ launched' = launched \cup keys
    /\ UNCHANGED <<session, secret, stacked, requestVars, historyVars>>

Next ==
    \/ \E t \in Tabs :
          \/ Visit(t) \/ Reset(t) \/ Post(t) \/ Rebuild(t) \/ Create(t) \/ Make(t)
          \/ Fails(t) \/ Answer(t) \/ Begin(t) \/ Kill(t)
    \/ EditCatalog \/ Bootstrap \/ ApiCreate \/ UpdateSkills \/ Launch

Spec == Init /\ [][Next]_vars

-----------------------------------------------------------------------------
(***************************************************************************)
(* Safety                                                                  *)
(***************************************************************************)

\* What one tab's request is about to make, and what the session holds between
\* requests, is what its forms have said, whatever the way through the steps,
\* and also after a creation that failed.  Tabs that overlap and a request that
\* is killed may change it, until the wizard begins anew.  The types are checked with it.
CreatedAsTyped ==
    /\ TypeOK
    /\ \/ tangled
       \/ IF \A t \in Tabs : Idle(t) THEN session = typed
          ELSE \A t \in Tabs : pc[t] \in {"create", "answer"} => mem[t] = typed

\* The Telegram token of a runtime goes to no second runtime: the wizard keeps
\* it no longer than the creation, but for a creation whose smoke test failed,
\* a killed one, and one beside another tab's request.
TokenUsedOnce ==
    \A r, s \in Runtimes :
        r # s /\ secret[r] = secret[s] => secret[r] \in kept \cup {0}

\* A skill in the session, or that a creation by the wizard or the API or an
\* update of a runtime's skills has put in a stack, is active and reviewed, or it
\* was when it was picked and the operator has turned it off since.  Of the skills
\* an agent's launch brings nothing is asked: AgentsReviewed.
SkillsReviewed ==
    session.skills \cup stacked \subseteq reviewed \cup turned

\* docs/superpowers/specs/2026-05-07-agent-operator-skills-design.md:47 says of
\* the trust states "`quarantine`: imported but not enabled for agents": a skill
\* an agent's launch has put in a stack is reviewed, or was turned off since.  The
\* draft, the update and the launch look at the key alone.
AgentsReviewed ==
    launched \subseteq reviewed \cup turned

=============================================================================

-------------------------- MODULE RuntimeWizardProofs --------------------------
(***************************************************************************)
(* The invariants of RuntimeWizard, proved for any number of tabs,         *)
(* runtimes, skills, tokens and accidents.                                 *)
(*                                                                         *)
(* What they need beside themselves: that a dictionary nobody has tangled  *)
(* is in one place at a time, the session or the request of one tab        *)
(* (Drafted); that every place a skill passes on its way to a stack, and   *)
(* not only the ends, holds skills that are reviewed or were turned off    *)
(* (Picked); that a token is new when it is typed (Counted), that two      *)
(* requests hold the same one only when it is known to have stayed         *)
(* (Unshared), and that one a runtime has is held no more but by a request *)
(* about to begin the wizard anew (Spent).                                 *)
(***************************************************************************)
EXTENDS RuntimeWizard, TLAPS

\* What is in memory between requests is nothing.
Rested == \A t \in Tabs : Idle(t) => mem[t] = Defaults

\* Unless it is tangled, the dictionary is with one tab, or in the session.
Drafted ==
    ~tangled =>
        /\ \A t, u \in Tabs : ~Idle(t) /\ ~Idle(u) => t = u
        /\ (\A t \in Tabs : Idle(t)) => session = typed
        /\ \A t \in Tabs : pc[t] \in {"create", "answer"} => mem[t] = typed

\* Skills are active and reviewed wherever they are, or have been turned off.
Picked ==
    /\ session.skills \subseteq reviewed \cup turned
    /\ stacked \subseteq reviewed \cup turned
    /\ \A t \in Tabs :
          /\ offered[t] \subseteq reviewed \cup turned
          /\ mem[t].skills \subseteq reviewed \cup turned

\* No token is known that has not been typed.
Counted ==
    /\ session.token <= tokens
    /\ \A t \in Tabs : mem[t].token <= tokens
    /\ \A r \in Runtimes : secret[r] <= tokens

\* Requests of two tabs have the same token only if it has stayed.
Unshared ==
    \A t, u \in Tabs :
        t # u /\ mem[t].token = mem[u].token => mem[t].token \in kept \cup {0}

\* The token of a runtime is held by a request about to begin the wizard anew,
\* and by the session while there is one, or it has stayed.
Spent ==
    \A r \in Runtimes : secret[r] \notin kept \cup {0} =>
        /\ \A t \in Tabs : mem[t].token = secret[r] => pc[t] = "begin"
        /\ session.token = secret[r] => \E t \in Tabs : pc[t] = "begin"

\* The inductive invariant.
IInv ==
    /\ TypeOK /\ Rested /\ Drafted /\ Picked
    /\ Counted /\ Unshared /\ Spent /\ TokenUsedOnce

-----------------------------------------------------------------------------
(***************************************************************************)
(* What a form does to a dictionary                                        *)
(***************************************************************************)

\* A token that has been typed is not 0.
LEMMA TypedToken ==
    ASSUME NEW k \in 0 .. MaxTokens, k # 0
    PROVE  k \in 1 .. MaxTokens
<1>1. MaxTokens \in Nat
  BY WizardAssumption
<1> QED
  BY <1>1

\* The forms of a tab, the blank ones among them, by the step they are of.
LEMMA FormShape ==
    ASSUME NEW t \in Tabs, NEW form \in Forms(t) \cup Blanks
    PROVE  \/ \E r \in Runtimes \cup {NoRuntime} : form = [step |-> 1, runtime |-> r]
           \/ \E b \in BOOLEAN, ks \in SUBSET offered[t] :
                 form = [step |-> 3, telegram |-> b, skills |-> ks]
           \/ \E n \in NewTokens : form = [step |-> 4, token |-> n]
           \/ form = [step |-> 5]
<1>1. CASE form \in [step : {1}, runtime : Runtimes]
  <2>1. form = [step |-> 1, runtime |-> form.runtime] /\ form.runtime \in Runtimes
    BY <1>1
  <2> QED
    BY <2>1
<1>2. CASE form \in [step : {3}, telegram : BOOLEAN, skills : SUBSET offered[t]]
  <2>1. /\ form = [step |-> 3, telegram |-> form.telegram, skills |-> form.skills]
        /\ form.telegram \in BOOLEAN /\ form.skills \in SUBSET offered[t]
    BY <1>2
  <2> QED
    BY <2>1
<1>3. CASE form \in [step : {4}, token : NewTokens]
  <2>1. form = [step |-> 4, token |-> form.token] /\ form.token \in NewTokens
    BY <1>3
  <2> QED
    BY <2>1
<1>4. CASE form = [step |-> 5]
  BY <1>4
<1>5. CASE form \in Blanks
  BY <1>5 DEF Blanks, NewTokens
<1> QED
  BY <1>1, <1>2, <1>3, <1>4, <1>5 DEF Forms

\* A dictionary stays one; its skills are the old ones or were offered; its
\* token is the old one or the next.
LEMMA FormMeans ==
    ASSUME TypeOK, NEW t \in Tabs, NEW form \in Forms(t) \cup Blanks, NEW w \in Wizard
    PROVE  /\ Updated(w, form) \in Wizard
           /\ Updated(w, form).skills \subseteq w.skills \cup offered[t]
           /\ \/ /\ ~(form.step = 4 /\ form.token # 0)
                 /\ Updated(w, form).token = w.token
              \/ /\ form.step = 4 /\ form.token # 0 /\ form.token = tokens + 1
                 /\ tokens + 1 \in 1 .. MaxTokens
                 /\ Updated(w, form).token = tokens + 1
<1> USE WizardAssumption DEF Updated, Wizard
<1>0. tokens \in Nat /\ MaxTokens \in Nat /\ offered[t] \subseteq Skills
  BY DEF TypeOK
<1>1. ASSUME NEW r \in Runtimes \cup {NoRuntime}, form = [step |-> 1, runtime |-> r]
      PROVE  /\ Updated(w, form) \in Wizard
             /\ Updated(w, form).skills = w.skills
             /\ form.step # 4 /\ Updated(w, form).token = w.token
  BY <1>1
<1>2. ASSUME NEW b \in BOOLEAN, NEW ks \in SUBSET offered[t],
             form = [step |-> 3, telegram |-> b, skills |-> ks]
      PROVE  /\ Updated(w, form) \in Wizard
             /\ Updated(w, form).skills = ks
             /\ form.step # 4 /\ Updated(w, form).token = w.token
  <2>1. form.step = 3 /\ form.telegram = b /\ form.skills = ks
    BY <1>2
  <2>2. Updated(w, form) = [w EXCEPT !.telegram = form.telegram, !.skills = form.skills]
    <3>1. form.step = 3 /\ form.step # 1 /\ form.step # 4
      BY <2>1
    <3> HIDE <2>1
    <3> QED
      BY <3>1, ZenonT(20)
  <2>3. Updated(w, form) = [w EXCEPT !.telegram = b, !.skills = ks]
    BY <2>1, <2>2
  <2> HIDE DEF Updated
  <2>4. [w EXCEPT !.telegram = b, !.skills = ks] \in Wizard
    BY <1>0
  <2>5. [w EXCEPT !.telegram = b, !.skills = ks].token = w.token
    OBVIOUS
  <2>6. [w EXCEPT !.telegram = b, !.skills = ks].skills = ks
    OBVIOUS
  <2> QED
    BY <2>1, <2>3, <2>4, <2>5, <2>6
<1>3. ASSUME NEW n \in NewTokens, form = [step |-> 4, token |-> n]
      PROVE  /\ Updated(w, form) \in Wizard
             /\ Updated(w, form).skills = w.skills
             /\ form.step = 4 /\ form.token = n
             /\ n = 0 => Updated(w, form).token = w.token
             /\ n # 0 => /\ Updated(w, form).token = n
                         /\ n = tokens + 1 /\ n \in 1 .. MaxTokens
  <2>1. n \in 0 .. MaxTokens /\ (n # 0 => n = tokens + 1 /\ n \in 1 .. MaxTokens)
    BY <1>0 DEF NewTokens
  <2>2. form.step = 4 /\ form.token = n
    BY <1>3
  <2>3. CASE n = 0
    <3>1. Updated(w, form) = [w EXCEPT !.token = w.token]
      BY <2>2, <2>3
    <3> QED
      BY <2>2, <2>3, <3>1
  <2>4. CASE n # 0
    <3>1. Updated(w, form) = [w EXCEPT !.token = n]
      BY <2>2, <2>4
    <3> QED
      BY <2>1, <2>2, <2>4, <3>1
  <2> QED
    BY <2>3, <2>4
<1>4. ASSUME form = [step |-> 5]
      PROVE  Updated(w, form) = w /\ form.step # 4
  BY <1>4
<1> HIDE DEF Updated, Wizard
<1> QED
  BY <1>1, <1>2, <1>3, <1>4, FormShape

\* What the operator has said is what the dictionary holds, when it held that
\* before.
LEMMA SaidIsUpdated ==
    ASSUME TypeOK, NEW t \in Tabs, NEW form \in Forms(t) \cup Blanks
    PROVE  Said(form) = Updated(typed, form)
<1> DEFINE Fields == {"runtime", "telegram", "token", "skills"}
<1>1. typed \in Wizard /\ DOMAIN typed = Fields
  BY DEF TypeOK, Wizard
<1>2. typed = [f \in Fields |-> typed[f]]
  BY <1>1 DEF Wizard
<1>3. ASSUME NEW r \in Runtimes \cup {NoRuntime}, form = [step |-> 1, runtime |-> r]
      PROVE  Said(form) = Updated(typed, form)
  <2>1. DOMAIN form = {"step", "runtime"} /\ form.step = 1 /\ form["runtime"] = r
    BY <1>3
  <2>2. Updated(typed, form) = [typed EXCEPT !["runtime"] = r]
    BY <2>1 DEF Updated
  <2>3. Said(form) = [f \in Fields |-> IF f = "runtime" THEN r ELSE typed[f]]
    BY <1>1, <2>1 DEF Said
  <2> QED
    BY <1>1, <1>2, <2>2, <2>3
<1>4. ASSUME NEW b \in BOOLEAN, NEW ks \in SUBSET offered[t],
             form = [step |-> 3, telegram |-> b, skills |-> ks]
      PROVE  Said(form) = Updated(typed, form)
  <2>1. /\ DOMAIN form = {"step", "telegram", "skills"} /\ form.step = 3
        /\ form["telegram"] = b /\ form["skills"] = ks
    BY <1>4
  <2>2. Updated(typed, form) = [typed EXCEPT !["telegram"] = b, !["skills"] = ks]
    <3>1. Updated(typed, form) = [typed EXCEPT !.telegram = form.telegram, !.skills = form.skills]
      <4>1. form.step = 3 /\ form.step # 1 /\ form.step # 4
        BY <2>1
      <4> QED
        BY <4>1, ZenonT(20) DEF Updated
    <3> QED
      BY <2>1, <3>1
  <2>3. Said(form) = [f \in Fields |->
                         IF f = "telegram" THEN b ELSE IF f = "skills" THEN ks ELSE typed[f]]
    BY <1>1, <2>1 DEF Said
  <2> QED
    BY <1>1, <1>2, <2>2, <2>3
<1>5. ASSUME NEW n \in NewTokens, form = [step |-> 4, token |-> n]
      PROVE  Said(form) = Updated(typed, form)
  <2>1. DOMAIN form = {"step", "token"} /\ form.step = 4 /\ form["token"] = n
    BY <1>5
  <2>2. Updated(typed, form) = [typed EXCEPT !["token"] = IF n = 0 THEN typed["token"] ELSE n]
    BY <2>1 DEF Updated
  <2>3. Said(form) = [f \in Fields |->
                         IF f = "token" /\ n # 0 THEN n ELSE typed[f]]
    BY <1>1, <2>1 DEF Said
  <2> QED
    BY <1>1, <1>2, <2>2, <2>3
<1>6. ASSUME form = [step |-> 5]
      PROVE  Said(form) = Updated(typed, form)
  <2>1. DOMAIN form = {"step"} /\ form.step = 5
    BY <1>6
  <2>2. Updated(typed, form) = typed
    BY <2>1 DEF Updated
  <2>3. Said(form) = [f \in Fields |-> typed[f]]
    BY <1>1, <2>1 DEF Said
  <2> QED
    BY <1>2, <2>2, <2>3
<1> QED
  BY <1>3, <1>4, <1>5, <1>6, FormShape

-----------------------------------------------------------------------------
(***************************************************************************)
(* Every step keeps the invariant                                          *)
(***************************************************************************)

\* A form is sent: the request has the dictionary with what the form says.
LEMMA SendsStep ==
    ASSUME NEW t \in Tabs, NEW form \in Forms(t) \cup Blanks,
           NEW action \in {"answer", "create"}, IInv,
           Sends(t, action, form), reviewed' = reviewed \/ reviewed' = Bootstrapped
    PROVE  IInv'
<1> USE WizardAssumption
<1> DEFINE x == Updated(session, form)
<1>a. /\ Idle(t) /\ (Alone(t) => accidents' = accidents)
      /\ (~Alone(t) => accidents < MaxAccidents /\ accidents' = accidents + 1)
      /\ pc' = [pc EXCEPT ![t] = action] /\ mem' = [mem EXCEPT ![t] = x]
      /\ tokens' = IF form.step = 4 /\ form.token # 0 THEN form.token ELSE tokens
      /\ tangled' = (tangled \/ ~Alone(t))
      /\ typed' = IF tangled' THEN Defaults ELSE Said(form)
      /\ offered' = [offered EXCEPT ![t] = {}]
      /\ session' = session /\ secret' = secret /\ turned' = turned
      /\ stacked' = stacked /\ launched' = launched
  BY DEF Sends, Accident, Goto, stacks
<1>b. kept' = IF Alone(t) THEN kept
              ELSE kept \cup (({session.token} \cup {mem'[u].token : u \in Tabs}) \ {0})
  BY DEF Sends
<1>c. TypeOK /\ session \in Wizard /\ typed \in Wizard /\ mem \in [Tabs -> Wizard]
  BY DEF IInv, TypeOK
<1>d. /\ x \in Wizard /\ x.skills \subseteq session.skills \cup offered[t]
      /\ \/ tokens' = tokens /\ x.token = session.token
         \/ tokens' = tokens + 1 /\ tokens + 1 \in 1 .. MaxTokens /\ x.token = tokens + 1
  BY <1>a, <1>c, FormMeans
<1> HIDE DEF x
<1>e. /\ pc'[t] = action /\ mem'[t] = x /\ offered'[t] = {}
      /\ \A u \in Tabs \ {t} : pc'[u] = pc[u] /\ mem'[u] = mem[u] /\ offered'[u] = offered[u]
      /\ mem' \in [Tabs -> Wizard] /\ offered' \in [Tabs -> SUBSET Skills]
      /\ pc' \in [Tabs -> {"idle", "answer", "create", "begin"}]
  BY <1>a, <1>c, <1>d DEF TypeOK
<1>f. Updated(typed, form) \in Wizard /\ Said(form) = Updated(typed, form)
  BY <1>c, FormMeans, SaidIsUpdated
<1>g. tokens \in Nat /\ MaxTokens \in Nat /\ tokens <= MaxTokens /\ tokens' \in 0 .. MaxTokens
  BY <1>c, <1>d DEF TypeOK
<1>h. \A w \in Wizard : w.token \in 0 .. MaxTokens
  BY DEF Wizard
<1>i. /\ kept \subseteq kept' /\ kept' \subseteq 1 .. MaxTokens
      /\ ~Alone(t) => session.token \in kept' \cup {0}
      /\ ~Alone(t) => \A u \in Tabs : mem'[u].token \in kept' \cup {0}
  <2>1. kept \subseteq kept'
    BY <1>b
  <2>2. /\ ~Alone(t) => session.token \in kept' \cup {0}
        /\ ~Alone(t) => \A u \in Tabs : mem'[u].token \in kept' \cup {0}
    BY <1>b
  <2>3. \A u \in Tabs : mem'[u].token \in 0 .. MaxTokens
    BY <1>e, <1>h
  <2>4. session.token \in 0 .. MaxTokens /\ kept \subseteq 1 .. MaxTokens
    BY <1>c, <1>h DEF TypeOK
  <2>5. kept' \subseteq 1 .. MaxTokens
    <3> SUFFICES ASSUME NEW k \in kept' PROVE k \in 1 .. MaxTokens
      OBVIOUS
    <3>1. k \in kept \/ (k # 0 /\ (k = session.token \/ \E u \in Tabs : k = mem'[u].token))
      BY <1>b
    <3>2. k \in kept \/ (k # 0 /\ k \in 0 .. MaxTokens)
      BY <2>3, <2>4, <3>1
    <3>3. CASE k \in kept
      BY <2>4, <3>3
    <3>4. CASE k # 0 /\ k \in 0 .. MaxTokens
      BY <3>4, TypedToken
    <3> QED
      BY <3>2, <3>3, <3>4
  <2> QED
    BY <2>1, <2>2, <2>5
<1>j. reviewed \cup turned \subseteq reviewed' \cup turned'
  BY <1>a DEF Bootstrapped
<1>1. TypeOK'
  <2>1. Defaults \in Wizard
    BY <1>g DEF Defaults, Wizard
  <2>2. typed' \in Wizard /\ tangled' \in BOOLEAN
    BY <1>a, <1>c, <1>f, <2>1 DEF TypeOK, Alone
  <2>3. accidents' \in 0 .. MaxAccidents
    BY <1>a, <1>c DEF TypeOK
  <2>4. reviewed' \subseteq Skills
    BY <1>c DEF TypeOK, Bootstrapped, Skills
  <2>5. \A u \in Tabs : pc'[u] = "begin" => mem'[u].runtime \in Runtimes
    BY <1>c, <1>e DEF TypeOK
  <2> QED
    BY <1>a, <1>c, <1>e, <1>g, <1>i, <2>2, <2>3, <2>4, <2>5 DEF TypeOK
<1>2. Rested'
  BY <1>e DEF IInv, Rested, Idle
<1>3. Drafted'
  <2> SUFFICES ASSUME ~tangled'
               PROVE  /\ \A u, v \in Tabs : ~(pc'[u] = "idle") /\ ~(pc'[v] = "idle") => u = v
                      /\ (\A u \in Tabs : pc'[u] = "idle") => session' = typed'
                      /\ \A u \in Tabs : pc'[u] \in {"create", "answer"} => mem'[u] = typed'
    BY DEF Drafted, Idle
  <2>1. ~tangled /\ Alone(t)
    BY <1>a
  <2>2. \A u \in Tabs \ {t} : pc'[u] = "idle"
    BY <1>e, <2>1 DEF Alone, Idle
  <2>3. session = typed
    BY <1>a, <2>1 DEF IInv, Drafted, Alone
  <2>4. typed' = x
    BY <1>a, <1>f, <2>3 DEF x
  <2> QED
    BY <1>e, <2>2, <2>4
<1>4. Picked'
  BY <1>a, <1>d, <1>e, <1>j DEF IInv, Picked
<1>5. Counted'
  <2>1. /\ session.token \in Nat /\ \A r \in Runtimes : secret[r] \in Nat
        /\ \A u \in Tabs : mem[u].token \in Nat
    BY <1>c, <1>h DEF TypeOK
  <2> QED
    BY <1>a, <1>d, <1>e, <1>g, <2>1 DEF IInv, Counted
<1>6. Unshared'
  <2>1. CASE Alone(t)
    <3>1. \A u \in Tabs \ {t} : mem[u] = Defaults
      BY <2>1 DEF IInv, Rested, Alone
    <3>2. \A u \in Tabs \ {t} : mem'[u].token = 0
      BY <1>e, <3>1 DEF Defaults
    <3> QED
      BY <3>2 DEF Unshared
  <2>2. CASE ~Alone(t)
    BY <1>i, <2>2 DEF Unshared
  <2> QED
    BY <2>1, <2>2
<1>7. Spent'
  <2> SUFFICES ASSUME NEW r \in Runtimes, secret[r] \notin kept' \cup {0}
               PROVE  /\ \A u \in Tabs : mem'[u].token = secret[r] => pc'[u] = "begin"
                      /\ session.token = secret[r] => \E u \in Tabs : pc'[u] = "begin"
    BY <1>a DEF Spent
  <2>1. /\ \A u \in Tabs : mem[u].token = secret[r] => pc[u] = "begin"
        /\ session.token = secret[r] => \E u \in Tabs : pc[u] = "begin"
    BY <1>i DEF IInv, Spent
  <2>2. secret[r] <= tokens /\ secret[r] \in Nat
    BY <1>c DEF IInv, Counted, TypeOK
  <2>3. session.token # secret[r]
    <3> SUFFICES ASSUME session.token = secret[r] PROVE FALSE
      OBVIOUS
    <3>1. PICK v \in Tabs : pc[v] = "begin"
      BY <2>1
    <3>2. ~Alone(t)
      BY <1>a, <3>1 DEF Alone, Idle
    <3> QED
      BY <1>i, <3>2
  <2>4. x.token # secret[r]
    BY <1>d, <1>g, <2>2, <2>3
  <2> QED
    BY <1>e, <2>1, <2>3, <2>4
<1>8. TokenUsedOnce'
  BY <1>a, <1>i DEF IInv, TokenUsedOnce
<1> QED
  BY <1>1, <1>2, <1>3, <1>4, <1>5, <1>6, <1>7, <1>8 DEF IInv

\* A page is shown with the skills that are available.
LEMMA VisitStep ==
    ASSUME NEW t \in Tabs, IInv, Visit(t)
    PROVE  IInv'
<1> USE WizardAssumption DEF Visit, Goto, stacks, requestVars, historyVars
<1>1. TypeOK'
  BY DEF IInv, TypeOK, Wizard, Idle, Available
<1>2. Rested'
  BY DEF IInv, Rested, Idle, TypeOK
<1>3. Drafted'
  BY DEF IInv, Drafted, Idle, Alone
<1>4. Picked'
  BY DEF IInv, Picked, TypeOK, Available
<1>5. Counted'
  BY DEF IInv, Counted, TypeOK
<1>6. Unshared'
  BY DEF IInv, Unshared, TypeOK, Rested
<1>7. Spent'
  BY DEF IInv, Spent, TypeOK, Idle
<1>8. TokenUsedOnce'
  BY DEF IInv, TokenUsedOnce, TypeOK
<1> QED
  BY <1>1, <1>2, <1>3, <1>4, <1>5, <1>6, <1>7, <1>8
  DEF IInv

\* The wizard begins anew.
LEMMA ResetStep ==
    ASSUME NEW t \in Tabs, IInv, Reset(t)
    PROVE  IInv'
<1> USE WizardAssumption DEF Reset, Defaults, Goto, stacks, requestVars, historyVars
<1>1. TypeOK'
  BY DEF IInv, TypeOK, Wizard, Idle
<1>2. Rested'
  BY DEF IInv, Rested, Idle, TypeOK
<1>3. Drafted'
  BY DEF IInv, Drafted, Idle, Alone
<1>4. Picked'
  BY DEF IInv, Picked, TypeOK
<1>5. Counted'
  BY DEF IInv, Counted, TypeOK
<1>6. Unshared'
  BY DEF IInv, Unshared, TypeOK, Rested
<1>7. Spent'
  BY DEF IInv, Spent, TypeOK, Idle
<1>8. TokenUsedOnce'
  BY DEF IInv, TokenUsedOnce, TypeOK
<1> QED
  BY <1>1, <1>2, <1>3, <1>4, <1>5, <1>6, <1>7, <1>8
  DEF IInv

\* A creation raises.
LEMMA FailsStep ==
    ASSUME NEW t \in Tabs, IInv, Fails(t)
    PROVE  IInv'
<1> USE WizardAssumption DEF Fails, Goto, stacks, requestVars, historyVars
<1>1. TypeOK'
  BY DEF IInv, TypeOK, Wizard, Idle
<1>2. Rested'
  BY DEF IInv, Rested, Idle, TypeOK
<1>3. Drafted'
  BY DEF IInv, Drafted, Idle, Alone
<1>4. Picked'
  BY DEF IInv, Picked, TypeOK
<1>5. Counted'
  BY DEF IInv, Counted, TypeOK
<1>6. Unshared'
  BY DEF IInv, Unshared, TypeOK, Rested
<1>7. Spent'
  BY DEF IInv, Spent, TypeOK, Idle
<1>8. TokenUsedOnce'
  BY DEF IInv, TokenUsedOnce, TypeOK
<1> QED
  BY <1>1, <1>2, <1>3, <1>4, <1>5, <1>6, <1>7, <1>8
  DEF IInv

\* The session is what the request had in memory.
LEMMA AnswerStep ==
    ASSUME NEW t \in Tabs, IInv, Answer(t)
    PROVE  IInv'
<1> USE WizardAssumption DEF Answer, Saves, Goto, stacks, requestVars, historyVars
<1>1. TypeOK'
  BY DEF IInv, TypeOK, Wizard, Idle, Defaults
<1>2. Rested'
  BY DEF IInv, Rested, Idle, TypeOK
<1>3. Drafted'
  <2> SUFFICES ASSUME ~tangled'
               PROVE  /\ \A u, v \in Tabs : ~(pc'[u] = "idle") /\ ~(pc'[v] = "idle") => u = v
                      /\ (\A u \in Tabs : pc'[u] = "idle") => session' = typed'
                      /\ \A u \in Tabs : pc'[u] \in {"create", "answer"} => mem'[u] = typed'
    BY DEF Drafted, Idle
  <2>1. \A u \in Tabs : pc'[u] = "idle"
    BY DEF IInv, Drafted, TypeOK, Idle, Alone
  <2>2. session' = typed'
    BY DEF IInv, Drafted
  <2> QED
    BY <2>1, <2>2
<1>4. Picked'
  BY DEF IInv, Picked, TypeOK, Defaults
<1>5. Counted'
  BY DEF IInv, Counted, TypeOK, Defaults
<1>6. Unshared'
  BY DEF IInv, Unshared, TypeOK, Rested, Defaults
<1>7. Spent'
  BY DEF IInv, Spent, TypeOK, Idle, Defaults
<1>8. TokenUsedOnce'
  BY DEF IInv, TokenUsedOnce, TypeOK
<1> QED
  BY <1>1, <1>2, <1>3, <1>4, <1>5, <1>6, <1>7, <1>8
  DEF IInv

\* The wizard begins anew after a creation.
LEMMA BeginStep ==
    ASSUME NEW t \in Tabs, IInv, Begin(t)
    PROVE  IInv'
<1> USE WizardAssumption DEF Begin, Defaults, Saves, Goto, stacks, requestVars,
      historyVars
<1>1. TypeOK'
  BY DEF IInv, TypeOK, Wizard, Idle
<1>2. Rested'
  BY DEF IInv, Rested, Idle, TypeOK
<1>3. Drafted'
  <2> SUFFICES ASSUME ~tangled'
               PROVE  /\ \A u, v \in Tabs : ~(pc'[u] = "idle") /\ ~(pc'[v] = "idle") => u = v
                      /\ (\A u \in Tabs : pc'[u] = "idle") => session' = typed'
                      /\ \A u \in Tabs : pc'[u] \in {"create", "answer"} => mem'[u] = typed'
    BY DEF Drafted, Idle
  <2>1. \A u \in Tabs : pc'[u] = "idle"
    BY DEF IInv, Drafted, TypeOK, Idle, Alone
  <2>2. session' = typed'
    BY DEF IInv, Drafted
  <2> QED
    BY <2>1, <2>2
<1>4. Picked'
  BY DEF IInv, Picked, TypeOK
<1>5. Counted'
  BY DEF IInv, Counted, TypeOK
<1>6. Unshared'
  BY DEF IInv, Unshared, TypeOK, Rested
<1>7. Spent'
  BY DEF IInv, Spent, TypeOK, Idle
<1>8. TokenUsedOnce'
  BY DEF IInv, TokenUsedOnce, TypeOK
<1> QED
  BY <1>1, <1>2, <1>3, <1>4, <1>5, <1>6, <1>7, <1>8
  DEF IInv

\* A request ends without an answer.
LEMMA KillStep ==
    ASSUME NEW t \in Tabs, IInv, Kill(t)
    PROVE  IInv'
<1> USE WizardAssumption DEF Kill, Accident, Defaults, Goto, stacks, requestVars,
      historyVars
<1>1. TypeOK'
  <2>1. Defaults \in Wizard /\ mem' \in [Tabs -> Wizard]
    BY DEF IInv, TypeOK, Wizard
  <2>2. kept' \subseteq 1 .. MaxTokens
    <3>1. session.token \in 0 .. MaxTokens /\ kept \subseteq 1 .. MaxTokens
      BY DEF IInv, TypeOK, Wizard
    <3>2. kept' = kept \cup ({session.token} \ {0})
      OBVIOUS
    <3> HIDE DEF Kill, Accident, Defaults
    <3>3. session.token # 0 => session.token \in 1 .. MaxTokens
      BY <3>1, TypedToken
    <3> QED
      BY <3>1, <3>2, <3>3
  <2>3. accidents' \in 0 .. MaxAccidents
    BY DEF IInv, TypeOK
  <2>4. /\ pc' \in [Tabs -> {"idle", "answer", "create", "begin"}]
        /\ \A u \in Tabs : pc'[u] = "begin" => mem'[u].runtime \in Runtimes
    BY DEF IInv, TypeOK
  <2>5. typed' = Defaults /\ tangled' = TRUE
    OBVIOUS
  <2>6. UNCHANGED <<session, reviewed, secret, stacks, offered, tokens, turned>>
    OBVIOUS
  <2> HIDE DEF Kill, Accident, Defaults
  <2> QED
    BY <2>1, <2>2, <2>3, <2>4, <2>5, <2>6 DEF IInv, TypeOK
<1>2. Rested'
  BY DEF IInv, Rested, Idle, TypeOK
<1>3. Drafted'
  BY DEF IInv, Drafted, Idle, Alone
<1>4. Picked'
  BY DEF IInv, Picked, TypeOK
<1>5. Counted'
  BY DEF IInv, Counted, TypeOK
<1>6. Unshared'
  BY DEF IInv, Unshared, TypeOK, Rested
<1>7. Spent'
  BY DEF IInv, Spent, TypeOK, Idle
<1>8. TokenUsedOnce'
  BY DEF IInv, TokenUsedOnce, TypeOK
<1> QED
  BY <1>1, <1>2, <1>3, <1>4, <1>5, <1>6, <1>7, <1>8
  DEF IInv

\* The operator edits the catalog.
LEMMA EditStep ==
    ASSUME IInv, EditCatalog
    PROVE  IInv'
<1> USE WizardAssumption DEF EditCatalog, Goto, stacks, requestVars, historyVars
<1>1. TypeOK'
  BY DEF IInv, TypeOK, Wizard, Idle
<1>2. Rested'
  BY DEF IInv, Rested, Idle, TypeOK
<1>3. Drafted'
  BY DEF IInv, Drafted, Idle, Alone
<1>4. Picked'
  BY DEF IInv, Picked, TypeOK
<1>5. Counted'
  BY DEF IInv, Counted, TypeOK
<1>6. Unshared'
  BY DEF IInv, Unshared, TypeOK, Rested
<1>7. Spent'
  BY DEF IInv, Spent, TypeOK, Idle
<1>8. TokenUsedOnce'
  BY DEF IInv, TokenUsedOnce, TypeOK
<1> QED
  BY <1>1, <1>2, <1>3, <1>4, <1>5, <1>6, <1>7, <1>8
  DEF IInv

\* The catalog is bootstrapped.
LEMMA BootstrapStep ==
    ASSUME IInv, Bootstrap
    PROVE  IInv'
<1> USE WizardAssumption DEF Bootstrap, Bootstrapped, Goto, stacks, requestVars,
      historyVars
<1>1. TypeOK'
  BY DEF IInv, TypeOK, Wizard, Idle, Skills
<1>2. Rested'
  BY DEF IInv, Rested, Idle, TypeOK
<1>3. Drafted'
  BY DEF IInv, Drafted, Idle, Alone
<1>4. Picked'
  BY DEF IInv, Picked, TypeOK
<1>5. Counted'
  BY DEF IInv, Counted, TypeOK
<1>6. Unshared'
  BY DEF IInv, Unshared, TypeOK, Rested
<1>7. Spent'
  BY DEF IInv, Spent, TypeOK, Idle
<1>8. TokenUsedOnce'
  BY DEF IInv, TokenUsedOnce, TypeOK
<1> QED
  BY <1>1, <1>2, <1>3, <1>4, <1>5, <1>6, <1>7, <1>8
  DEF IInv

\* A runtime is made of what the request has in memory.
LEMMA MakeStep ==
    ASSUME NEW t \in Tabs, IInv, Make(t)
    PROVE  IInv'
<1> USE WizardAssumption DEF Make, Provision, Selectable, Goto, stacks
<1>a. PICK smokeFails \in BOOLEAN :
         /\ Goto(t, IF smokeFails THEN "answer" ELSE "begin")
         /\ kept' = IF smokeFails THEN kept \cup ({mem[t].token} \ {0}) ELSE kept
  OBVIOUS
<1>b. /\ mem[t] \in Wizard /\ mem[t].runtime \in Runtimes /\ mem[t].skills \subseteq Bootstrapped
      /\ pc[t] = "create" /\ mem[t].token \in 0 .. MaxTokens
  BY DEF IInv, TypeOK, Wizard, Selectable
<1>c. /\ reviewed' = Bootstrapped /\ stacked' = stacked \cup mem[t].skills
      /\ launched' = launched
      /\ secret' = [secret EXCEPT ![mem[t].runtime] =
                       IF mem[t].telegram /\ mem[t].token # 0 THEN mem[t].token ELSE @]
      /\ session' = session /\ mem' = mem /\ offered' = offered /\ tokens' = tokens
      /\ accidents' = accidents /\ typed' = typed /\ tangled' = tangled /\ turned' = turned
  OBVIOUS
<1>d. /\ pc'[t] = IF smokeFails THEN "answer" ELSE "begin"
      /\ \A u \in Tabs \ {t} : pc'[u] = pc[u]
      /\ pc' \in [Tabs -> {"idle", "answer", "create", "begin"}]
      /\ kept \subseteq kept' /\ kept' \subseteq 1 .. MaxTokens
      /\ smokeFails => mem[t].token \in kept' \cup {0}
  <2>1. /\ pc' = [pc EXCEPT ![t] = IF smokeFails THEN "answer" ELSE "begin"]
        /\ pc \in [Tabs -> {"idle", "answer", "create", "begin"}]
        /\ kept \subseteq 1 .. MaxTokens /\ MaxTokens \in Nat
    BY <1>a DEF IInv, TypeOK
  <2> HIDE DEF Make, Provision, Selectable, Goto
  <2>2. mem[t].token # 0 => mem[t].token \in 1 .. MaxTokens
    BY <1>b, TypedToken
  <2>3. kept' = IF smokeFails THEN kept \cup ({mem[t].token} \ {0}) ELSE kept
    BY <1>a
  <2>4. /\ kept \subseteq kept' /\ kept' \subseteq 1 .. MaxTokens
        /\ smokeFails => mem[t].token \in kept' \cup {0}
    BY <2>1, <2>2, <2>3
  <2> QED
    BY <2>1, <2>4
<1>e. /\ \A r \in Runtimes : r # mem[t].runtime => secret'[r] = secret[r]
      /\ secret'[mem[t].runtime] \in {secret[mem[t].runtime], mem[t].token}
      /\ secret' \in [Runtimes -> 0 .. MaxTokens]
  BY <1>b, <1>c DEF IInv, TypeOK
<1> HIDE DEF Make, Provision
<1>1. TypeOK'
  <2>1. reviewed' \subseteq Skills /\ stacked' \subseteq Skills
    BY <1>b, <1>c DEF IInv, TypeOK, Bootstrapped, Skills
  <2>2. \A u \in Tabs : pc'[u] = "begin" => mem[u].runtime \in Runtimes
    BY <1>b, <1>d DEF IInv, TypeOK
  <2> QED
    BY <1>c, <1>d, <1>e, <2>1, <2>2 DEF IInv, TypeOK
<1>2. Rested'
  BY <1>b, <1>c, <1>d DEF IInv, Rested, Idle
<1>3. Drafted'
  BY <1>b, <1>c, <1>d DEF IInv, Drafted, Idle
<1>4. Picked'
  BY <1>b, <1>c DEF IInv, Picked, Bootstrapped
<1>5. Counted'
  BY <1>b, <1>c, <1>e DEF IInv, Counted
<1>6. Unshared'
  BY <1>c, <1>d DEF IInv, Unshared
<1>7. Spent'
  <2> SUFFICES ASSUME NEW r \in Runtimes, secret'[r] \notin kept' \cup {0}
               PROVE  /\ \A u \in Tabs : mem[u].token = secret'[r] => pc'[u] = "begin"
                      /\ session.token = secret'[r] => \E u \in Tabs : pc'[u] = "begin"
    BY <1>c DEF Spent
  <2>1. CASE secret'[r] = secret[r]
    <3>1. mem[t].token # secret[r]
      BY <1>b, <1>d, <2>1 DEF IInv, Spent
    <3> QED
      BY <1>b, <1>d, <2>1, <3>1, ZenonT(40) DEF IInv, Spent
  <2>2. CASE secret'[r] = mem[t].token
    <3>1. pc'[t] = "begin"
      BY <1>d, <2>2
    <3>2. \A u \in Tabs \ {t} : mem[u].token # mem[t].token
      BY <1>d, <2>2 DEF IInv, Unshared
    <3> QED
      BY <2>2, <3>1, <3>2
  <2> QED
    BY <1>e, <2>1, <2>2
<1>8. TokenUsedOnce'
  <2>1. \A r \in Runtimes : secret[r] = mem[t].token => secret[r] \in kept' \cup {0}
    BY <1>b, <1>d DEF IInv, Spent
  <2> QED
    BY <1>b, <1>d, <1>e, <2>1 DEF IInv, TokenUsedOnce
<1> QED
  BY <1>1, <1>2, <1>3, <1>4, <1>5, <1>6, <1>7, <1>8
  DEF IInv

\* A runtime is made of what the request has brought.
LEMMA ApiStep ==
    ASSUME IInv, ApiCreate
    PROVE  IInv'
<1> USE WizardAssumption DEF ApiCreate, historyVars
<1>a. PICK r \in Runtimes, keys \in SUBSET Skills, token \in NewTokens :
          /\ Provision(r, token # 0, token, keys)
          /\ tokens' = IF token = 0 THEN tokens ELSE token
  OBVIOUS
<1>b. /\ session' = session /\ pc' = pc /\ mem' = mem /\ offered' = offered
      /\ accidents' = accidents /\ typed' = typed /\ tangled' = tangled
      /\ kept' = kept /\ turned' = turned
  OBVIOUS
<1> HIDE DEF ApiCreate
<1>c. /\ reviewed' = Bootstrapped /\ stacked' = stacked \cup keys /\ keys \subseteq Bootstrapped
      /\ launched' = launched
      /\ secret' = [secret EXCEPT ![r] = IF token # 0 /\ token # 0 THEN token ELSE @]
  BY <1>a DEF Provision, Selectable
<1>d. /\ tokens \in Nat /\ MaxTokens \in Nat /\ tokens <= MaxTokens
      /\ token # 0 => token = tokens + 1 /\ token \in 1 .. MaxTokens
  BY DEF IInv, TypeOK, NewTokens
<1>e. /\ tokens' \in {tokens, tokens + 1} /\ tokens' \in 0 .. MaxTokens
      /\ \A s \in Runtimes : s # r => secret'[s] = secret[s]
      /\ \/ secret'[r] = secret[r]
         \/ tokens' = tokens + 1 /\ secret'[r] = tokens + 1
      /\ secret' \in [Runtimes -> 0 .. MaxTokens]
  <2>1. CASE token = 0
    BY <1>a, <1>c, <1>d, <2>1 DEF IInv, TypeOK
  <2>2. CASE token # 0
    BY <1>a, <1>c, <1>d, <2>2 DEF IInv, TypeOK
  <2> QED
    BY <2>1, <2>2
<1>f. /\ \A s \in Runtimes : secret[s] <= tokens /\ secret[s] \in Nat
      /\ session.token <= tokens /\ session.token \in Nat
      /\ \A t \in Tabs : mem[t].token <= tokens /\ mem[t].token \in Nat
  BY DEF IInv, Counted, TypeOK, Wizard
<1>1. TypeOK'
  <2>1. reviewed' \subseteq Skills /\ stacked' \subseteq Skills
    BY <1>c DEF IInv, TypeOK, Bootstrapped, Skills
  <2> QED
    BY <1>b, <1>c, <1>e, <2>1 DEF IInv, TypeOK
<1>2. Rested'
  BY <1>b DEF IInv, Rested, Idle
<1>3. Drafted'
  BY <1>b DEF IInv, Drafted, Idle
<1>4. Picked'
  BY <1>b, <1>c DEF IInv, Picked, Bootstrapped
<1>5. Counted'
  BY <1>b, <1>d, <1>e, <1>f DEF IInv, Counted
<1>6. Unshared'
  BY <1>b DEF IInv, Unshared
<1>7. Spent'
  <2> SUFFICES ASSUME NEW s \in Runtimes, secret'[s] \notin kept \cup {0}
               PROVE  /\ \A t \in Tabs : mem[t].token = secret'[s] => pc[t] = "begin"
                      /\ session.token = secret'[s] => \E t \in Tabs : pc[t] = "begin"
    BY <1>b DEF Spent
  <2>1. CASE secret'[s] = secret[s]
    BY <2>1 DEF IInv, Spent
  <2>2. CASE secret'[s] = tokens + 1
    BY <1>d, <1>f, <2>2
  <2> QED
    BY <1>e, <2>1, <2>2
<1>8. TokenUsedOnce'
  BY <1>b, <1>d, <1>e, <1>f DEF IInv, TokenUsedOnce
<1> QED
  BY <1>1, <1>2, <1>3, <1>4, <1>5, <1>6, <1>7, <1>8
  DEF IInv

\* A runtime gets the skills its page was asked for.
LEMMA UpdateStep ==
    ASSUME IInv, UpdateSkills
    PROVE  IInv'
<1>1. PICK keys \in SUBSET Skills :
         keys \subseteq reviewed /\ stacked' = stacked \cup keys
  BY DEF UpdateSkills, Selectable
<1>2. UNCHANGED <<session, reviewed, secret, launched, requestVars, historyVars>>
  BY DEF UpdateSkills
<1> USE DEF requestVars, historyVars
<1>3. TypeOK'
  BY <1>1, <1>2 DEF IInv, TypeOK
<1>4. Rested' /\ Drafted'
  BY <1>2 DEF IInv, Rested, Drafted, Idle
<1>5. Picked'
  BY <1>1, <1>2 DEF IInv, Picked
<1>6. Counted' /\ Unshared' /\ Spent' /\ TokenUsedOnce'
  BY <1>2 DEF IInv, Counted, Unshared, Spent, TokenUsedOnce
<1> QED
  BY <1>3, <1>4, <1>5, <1>6 DEF IInv

\* An agent's launch bootstraps the catalog and brings what skills it has.
LEMMA LaunchStep ==
    ASSUME IInv, Launch
    PROVE  IInv'
<1>1. /\ reviewed' = reviewed \cup Internal /\ Internal \subseteq Skills
      /\ launched \subseteq Bound => launched' \subseteq Bound
  BY DEF Launch, Bootstrapped, Skills
<1>2. UNCHANGED <<session, secret, stacked, requestVars, historyVars>>
  BY DEF Launch
<1> USE DEF requestVars, historyVars
<1>3. TypeOK'
  BY <1>1, <1>2 DEF IInv, TypeOK
<1>4. Rested' /\ Drafted'
  BY <1>2 DEF IInv, Rested, Drafted, Idle
<1>5. Picked'
  BY <1>1, <1>2 DEF IInv, Picked
<1>6. Counted' /\ Unshared' /\ Spent' /\ TokenUsedOnce'
  BY <1>2 DEF IInv, Counted, Unshared, Spent, TokenUsedOnce
<1> QED
  BY <1>3, <1>4, <1>5, <1>6 DEF IInv

-----------------------------------------------------------------------------
(***************************************************************************)
(* The invariant and the theorems                                          *)
(***************************************************************************)

\* Before anything is typed the invariant holds.
LEMMA InitIInv == Init => IInv
<1> SUFFICES ASSUME Init PROVE IInv
  OBVIOUS
<1> USE WizardAssumption DEF Init, Defaults
<1>1. TypeOK
  <2>1. Defaults \in Wizard
    BY DEF Wizard
  <2>2. reviewed \subseteq Skills /\ turned \subseteq Skills /\ stacked \subseteq Skills
        /\ launched \subseteq Bound
    BY DEF Skills
  <2>3. session \in Wizard /\ typed \in Wizard /\ mem \in [Tabs -> Wizard]
    BY <2>1
  <2>4. MaxTokens \in Nat /\ MaxAccidents \in Nat
    OBVIOUS
  <2>5. tokens \in 0 .. MaxTokens /\ accidents \in 0 .. MaxAccidents
    BY <2>4
  <2>6. secret \in [Runtimes -> 0 .. MaxTokens]
    BY <2>4
  <2>7. /\ pc \in [Tabs -> {"idle", "answer", "create", "begin"}]
        /\ offered \in [Tabs -> SUBSET Skills] /\ tangled \in BOOLEAN
        /\ kept \subseteq 1 .. MaxTokens
        /\ \A t \in Tabs : pc[t] = "begin" => mem[t].runtime \in Runtimes
    OBVIOUS
  <2> HIDE DEF Init, Defaults
  <2> QED
    BY <2>2, <2>3, <2>5, <2>6, <2>7 DEF TypeOK
<1>2. Rested /\ Drafted /\ Picked
  BY DEF Rested, Drafted, Picked, Idle
<1>3. Counted /\ Unshared /\ Spent /\ TokenUsedOnce
  BY DEF Counted, Unshared, Spent, TokenUsedOnce
<1> QED
  BY <1>1, <1>2, <1>3 DEF IInv

\* A step that changes nothing keeps the invariant.
LEMMA StutterStep == IInv /\ UNCHANGED vars => IInv'
<1> SUFFICES ASSUME IInv, UNCHANGED vars PROVE IInv'
  OBVIOUS
<1> USE DEF vars, stacks, requestVars, historyVars
<1>1. (TypeOK /\ Rested /\ Drafted /\ Picked)'
  BY DEF IInv, TypeOK, Rested, Drafted, Picked, Idle
<1>2. (Counted /\ Unshared /\ Spent /\ TokenUsedOnce)'
  BY DEF IInv, Counted, Unshared, Spent, TokenUsedOnce
<1> QED
  BY <1>1, <1>2 DEF IInv

\* Every step keeps the invariant.
LEMMA NextIInv == IInv /\ [Next]_vars => IInv'
<1> SUFFICES ASSUME IInv, [Next]_vars PROVE IInv'
  OBVIOUS
<1>1. ASSUME NEW t \in Tabs, Post(t)
      PROVE  IInv'
  BY <1>1, SendsStep DEF Post
<1>2. ASSUME NEW t \in Tabs, Rebuild(t)
      PROVE  IInv'
  BY <1>2, SendsStep DEF Rebuild
<1>3. ASSUME NEW t \in Tabs, Create(t)
      PROVE  IInv'
  <2>1. [step |-> 5] \in Forms(t) \cup Blanks
    BY DEF Blanks
  <2> QED
    BY <1>3, <2>1, SendsStep DEF Create
<1>4. ASSUME NEW t \in Tabs,
             \/ Visit(t) \/ Reset(t) \/ Make(t)
             \/ Fails(t) \/ Answer(t) \/ Begin(t) \/ Kill(t)
      PROVE  IInv'
  BY <1>4, VisitStep, ResetStep, MakeStep, FailsStep, AnswerStep, BeginStep, KillStep
<1>5. CASE EditCatalog \/ Bootstrap \/ ApiCreate \/ UpdateSkills \/ Launch
  BY <1>5, EditStep, BootstrapStep, ApiStep, UpdateStep, LaunchStep
<1>6. CASE UNCHANGED vars
  BY <1>6, StutterStep
<1> QED
  BY <1>1, <1>2, <1>3, <1>4, <1>5, <1>6 DEF Next

\* The invariant holds in every reachable state.
THEOREM Invariance == Spec => []IInv
BY InitIInv, NextIInv, PTL DEF Spec

\* What a request is about to make, and what the session holds between
\* requests, is what the forms have said, unless tabs have overlapped or a
\* request was killed.
THEOREM WizardTrue == Spec => []CreatedAsTyped
<1>1. IInv => CreatedAsTyped
  BY DEF IInv, Drafted, CreatedAsTyped
<1> QED
  BY <1>1, Invariance, PTL

\* No two runtimes get one token, but for one known to have stayed in the session.
THEOREM TokensSpent == Spec => []TokenUsedOnce
<1>1. IInv => TokenUsedOnce
  BY DEF IInv
<1> QED
  BY <1>1, Invariance, PTL

\* A skill in the session, or that a creation or an update of a runtime's skills
\* has put in a stack, is reviewed, or was turned off since, whatever agents are
\* launched with in between.
THEOREM SkillsKnown == Spec => []SkillsReviewed
<1>1. IInv => SkillsReviewed
  BY DEF IInv, Picked, SkillsReviewed
<1> QED
  BY <1>1, Invariance, PTL

-----------------------------------------------------------------------------
(***************************************************************************)
(* Undisturbed operation                                                   *)
(*                                                                         *)
(* The properties name what overlapping tabs, a request that was killed, a *)
(* failed smoke test and an operator who turns a skill off may leave.      *)
(* Without these the wizard makes what was typed, and nothing else.        *)
(***************************************************************************)

\* One request at a time, which is answered; no smoke test fails, and no skill
\* is turned off.
CalmNext ==
    \/ \E t \in Tabs :
          \/ Alone(t) /\ (Reset(t) \/ Post(t) \/ Rebuild(t) \/ Create(t))
          \/ Make(t) /\ pc'[t] = "begin"
          \/ Visit(t) \/ Fails(t) \/ Answer(t) \/ Begin(t)
    \/ EditCatalog /\ reviewed \subseteq reviewed'
    \/ Bootstrap \/ ApiCreate \/ UpdateSkills \/ Launch

Undisturbed == Init /\ [][CalmNext]_vars

\* The session says what was typed, no two runtimes have one token, and every
\* skill in the session, or put in a stack by a creation or an update, is active
\* and reviewed.
AtRest ==
    /\ (\A t \in Tabs : Idle(t)) => session = typed
    /\ \A t \in Tabs : pc[t] = "create" => mem[t] = typed
    /\ \A r, s \in Runtimes : r # s /\ secret[r] = secret[s] => secret[r] = 0
    /\ session.skills \cup stacked \subseteq reviewed

Calm == ~tangled /\ kept = {} /\ turned = {}

\* Every step of undisturbed operation is one of the specification.
LEMMA CalmIsNext == CalmNext => Next
BY DEF CalmNext, Next

\* Every step of undisturbed operation keeps it so.
LEMMA CalmStep == IInv /\ Calm /\ [CalmNext]_vars => Calm'
<1> SUFFICES ASSUME IInv, Calm, [CalmNext]_vars PROVE Calm'
  OBVIOUS
<1> USE DEF Calm, stacks, requestVars, historyVars
<1>1. ASSUME NEW t \in Tabs, Alone(t), Reset(t) PROVE Calm'
  BY <1>1 DEF Reset
<1>2. ASSUME NEW t \in Tabs, Alone(t), Post(t) \/ Rebuild(t) \/ Create(t) PROVE Calm'
  <2>1. tangled' = (tangled \/ ~Alone(t))
    BY <1>2 DEF Post, Rebuild, Create, Sends
  <2>2. ~tangled'
    BY <1>2, <2>1
  <2>3. kept' = kept /\ turned' = turned
    BY <1>2 DEF Post, Rebuild, Create, Sends
  <2> QED
    BY <2>2, <2>3
<1>3. ASSUME NEW t \in Tabs, Make(t), pc'[t] = "begin" PROVE Calm'
  <2>1. PICK smokeFails \in BOOLEAN :
           /\ Goto(t, IF smokeFails THEN "answer" ELSE "begin")
           /\ kept' = IF smokeFails THEN kept \cup ({mem[t].token} \ {0}) ELSE kept
           /\ tangled' = tangled /\ turned' = turned
    BY <1>3 DEF Make
  <2>2. ~smokeFails
    BY <1>3, <2>1 DEF Goto, IInv, TypeOK
  <2> QED
    BY <2>1, <2>2
<1>4. ASSUME NEW t \in Tabs, Visit(t) \/ Fails(t) \/ Answer(t) \/ Begin(t) PROVE Calm'
  <2>1. kept' = kept /\ turned' = turned
    BY <1>4 DEF Visit, Fails, Answer, Begin, Saves
  <2>2. tangled' = tangled \/ tangled' = (tangled /\ ~Alone(t))
    BY <1>4 DEF Visit, Fails, Answer, Begin
  <2>3. ~tangled
    OBVIOUS
  <2>4. ~tangled'
    BY <2>2, <2>3, Zenon
  <2> QED
    BY <2>1, <2>4
<1>5. ASSUME EditCatalog, reviewed \subseteq reviewed' PROVE Calm'
  <2>1. PICK k \in Skills :
           /\ reviewed' = IF k \in reviewed THEN reviewed \ {k} ELSE reviewed \cup {k}
           /\ turned' = turned \cup (reviewed \cap {k})
           /\ tangled' = tangled /\ kept' = kept
    BY <1>5 DEF EditCatalog
  <2> QED
    BY <1>5, <2>1
<1>6. CASE Bootstrap \/ ApiCreate \/ UpdateSkills \/ Launch
  BY <1>6 DEF Bootstrap, ApiCreate, UpdateSkills, Launch
<1>7. CASE UNCHANGED vars
  BY <1>7 DEF vars
<1> QED
  BY <1>1, <1>2, <1>3, <1>4, <1>5, <1>6, <1>7 DEF CalmNext

\* While the operator's requests come one after the other and are answered, the
\* wizard makes what was typed, gives a token to one runtime and takes skills that
\* are reviewed, also when creations fail, the API makes runtimes and agents are
\* launched beside it, and the catalog is bootstrapped at any time: the exceptions of CreatedAsTyped,
\* TokenUsedOnce and SkillsReviewed all have an accident for a cause.
THEOREM UndisturbedAgrees == Undisturbed => []AtRest
<1>1. Init => Calm
  BY DEF Init, Calm
<1>2. IInv /\ Calm => AtRest
  BY DEF IInv, Calm, AtRest, Drafted, Picked, TokenUsedOnce
<1>3. [CalmNext]_vars => [Next]_vars
  BY CalmIsNext
<1> QED
  BY InitIInv, NextIInv, CalmStep, <1>1, <1>2, <1>3, PTL DEF Undisturbed

=============================================================================

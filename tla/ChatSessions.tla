----------------------------- MODULE ChatSessions -----------------------------
(***************************************************************************)
(* The operator's chat with one runtime.  A message is stored when it is   *)
(* sent, a one-shot agent container answers it, which takes up to minutes, *)
(* and the answer is stored in the session read at the start.  Meanwhile   *)
(* the session can be reset and the runtime deleted and created again.     *)
(*                                                                         *)
(* Source: orchestrator/service_layer.py, controlplane/domain/models.py,   *)
(* and the chat handlers of controlplane/domain/views.py and api.py.       *)
(*                                                                         *)
(* What is kept: which row is read and written when, the foreign keys and  *)
(* their cascades, ids that are never used again, failures and kills.      *)
(* What is left out: texts, titles and actors, the order of the messages   *)
(* in a page, what the agent remembers itself, compose files (which        *)
(* RuntimeRegistry has).                                                   *)
(***************************************************************************)
EXTENDS Naturals, FiniteSets

CONSTANTS
    Procs,          \* concurrent requests
    Sessions,       \* ids of sessions
    MaxRuntimes,    \* bound: how often the runtime is created
    MaxAsks,        \* bound: how many messages are sent
    None            \* no session

ASSUME ChatAssumption ==
    MaxRuntimes \in Nat \ {0} /\ MaxAsks \in Nat /\ None \notin Sessions

VARIABLES
    runtime,    \* the id of the runtime's row, 0 without one
    created,    \* how many rows there have been
    session,    \* session[s]: the runtime of the session's row, 0 without one
    used,       \* the ids of sessions that are taken or have been
    messages,   \* the rows of messages
    asks,       \* how many messages have been sent
    pc,         \* where a request is
    at,         \* at[p]: the session p has read, or None
    found,      \* found[p]: the runtime p has read; 0 for none
    ask,        \* ask[p]: the number of the message p sends
    reply,      \* reply[p]: the runtime whose agent answered p, 0 for none yet
    collected,  \* collected[p]: the sessions p is to delete with the runtime
    answered,   \* history: the messages reported as answered
    failed,     \* history: the messages reported as failed, or never reported
    cut         \* history: the messages a reset caught on their way

rows == <<runtime, created, session, used, messages, asks>>
locals == <<pc, at, found, ask, reply, collected>>
history == <<answered, failed, cut>>
vars == <<rows, locals, history>>

Runtimes == 0..MaxRuntimes
Message == [session : Sessions, role : {"user", "assistant"}, ask : 1..MaxAsks,
            by : Runtimes]

TypeOK ==
    /\ created \in Runtimes /\ runtime \in {0, created}
    /\ session \in [Sessions -> 0..created]
    /\ used \subseteq Sessions
    /\ messages \subseteq Message
    /\ asks \in 0..MaxAsks
    /\ pc \in [Procs -> {"idle", "create", "send", "run", "store", "touch",
                         "reset", "collect", "erase"}]
    /\ at \in [Procs -> Sessions \cup {None}]
    /\ found \in [Procs -> Runtimes]
    /\ ask \in [Procs -> 0..asks]
    /\ reply \in [Procs -> Runtimes]
    /\ collected \in [Procs -> SUBSET used]
    /\ answered \cup failed \cup cut \subseteq 1..asks
    /\ \A p \in Procs :
          /\ (pc[p] = "idle") = (found[p] = 0)
          /\ (pc[p] \in {"run", "store", "touch"}) = (ask[p] # 0)

Init ==
    /\ runtime = 1 /\ created = 1
    /\ session = [s \in Sessions |-> 0] /\ used = {}
    /\ messages = {} /\ asks = 0
    /\ pc = [p \in Procs |-> "idle"]
    /\ at = [p \in Procs |-> None]
    /\ found = [p \in Procs |-> 0]
    /\ ask = [p \in Procs |-> 0]
    /\ reply = [p \in Procs |-> 0]
    /\ collected = [p \in Procs |-> {}]
    /\ answered = {} /\ failed = {} /\ cut = {}

-----------------------------------------------------------------------------

Goto(p, step) == pc' = [pc EXCEPT ![p] = step]

Over(p) ==
    /\ Goto(p, "idle")
    /\ at' = [at EXCEPT ![p] = None]
    /\ found' = [found EXCEPT ![p] = 0]
    /\ ask' = [ask EXCEPT ![p] = 0]
    /\ reply' = [reply EXCEPT ![p] = 0]
    /\ collected' = [collected EXCEPT ![p] = {}]

\* get_runtime, and the session of a runtime: each answers 404 or an error
\* unless it finds its row; nothing has been written then.
Reads(p, s, step) ==
    /\ pc[p] = "idle"
    /\ runtime # 0
    /\ s # None => session[s] = runtime
    /\ found' = [found EXCEPT ![p] = runtime]
    /\ at' = [at EXCEPT ![p] = s]
    /\ Goto(p, step)

\* The page: create, send or reset
ChatPage(p) ==
    \/ Reads(p, None, "create")
    \/ \E s \in Sessions : Reads(p, s, "send") \/ Reads(p, s, "reset")

\* The API has a request of its own for each.
SessionsApi(p) == Reads(p, None, "create")
MessagesApi(p) == \E s \in Sessions : Reads(p, s, "send")
ResetApi(p) == \E s \in Sessions : Reads(p, s, "reset")

\* delete_runtime_service, up to runtime.delete; the last runtime within the
\* bound is kept.
DeleteRuntime(p) == created < MaxRuntimes /\ Reads(p, None, "collect")

Request(p) ==
    /\ ChatPage(p) \/ SessionsApi(p) \/ MessagesApi(p) \/ ResetApi(p) \/ DeleteRuntime(p)
    /\ UNCHANGED <<rows, ask, reply, collected, history>>

\* A runtime is created under the id of the deleted one: with a row of its own.
CreateRuntime ==
    /\ runtime = 0 /\ created < MaxRuntimes
    /\ created' = created + 1 /\ runtime' = created'
    /\ UNCHANGED <<session, used, messages, asks, locals, history>>

\* create_chat_session; the foreign key wants the runtime's row.
CreateSession(p) == \E s \in Sessions \ used :
    /\ pc[p] = "create"
    /\ runtime = found[p]
    /\ session' = [session EXCEPT ![s] = found[p]]
    /\ used' = used \cup {s}
    /\ Over(p)
    /\ UNCHANGED <<runtime, created, messages, asks, history>>

\* send_chat_message stores the operator's message first; the foreign key wants
\* the session's row.
StoreQuestion(p) ==
    /\ pc[p] = "send"
    /\ asks < MaxAsks
    /\ session[at[p]] # 0
    /\ asks' = asks + 1
    /\ ask' = [ask EXCEPT ![p] = asks']
    /\ messages' = messages \cup
           {[session |-> at[p], role |-> "user", ask |-> asks', by |-> 0]}
    /\ Goto(p, "run")
    /\ UNCHANGED <<runtime, created, session, used, at, found, reply, collected, history>>

\* docker compose run agent-<id>: the name may be that of another runtime by now.
\* While the deleted one's service is still in the compose file, that answers.
RunAgent(p) == \E r \in {found[p], runtime} \ {0} :
    /\ pc[p] = "run"
    /\ reply' = [reply EXCEPT ![p] = r]
    /\ Goto(p, "store")
    /\ UNCHANGED <<rows, at, found, ask, collected, history>>

\* Mutant: the answer is put in whatever session the runtime has now.
StoreAnswerMutant(p) == \E s \in Sessions :
    /\ pc[p] = "store"
    /\ session[s] # 0
    /\ messages' = messages \cup
           {[session |-> s, role |-> "assistant", ask |-> ask[p], by |-> reply[p]]}
    /\ Goto(p, "touch")
    /\ UNCHANGED <<runtime, created, session, used, asks, at, found, ask, reply, collected, history>>

\* The answer is stored in the session read at the start, reset or not.
StoreAnswer(p) ==
    /\ pc[p] = "store"
    /\ session[at[p]] # 0
    /\ messages' = messages \cup
           {[session |-> at[p], role |-> "assistant", ask |-> ask[p], by |-> reply[p]]}
    /\ Goto(p, "touch")
    /\ UNCHANGED <<runtime, created, session, used, asks, at, found, ask, reply, collected, history>>

\* session.save(update_fields=...) needs the row too; then the page or the API
\* reports the answer.
Touch(p) ==
    /\ pc[p] = "touch"
    /\ session[at[p]] # 0
    /\ answered' = answered \cup {ask[p]}
    /\ Over(p)
    /\ UNCHANGED <<rows, failed, cut>>

\* Mutant: a reset takes what the operator wrote.
UserErasedMutant(s) == {m \in messages : m.session = s /\ m.role = "user"}

\* Mutant: a reset takes what the agent said.
AgentErasedMutant(s) == {m \in messages : m.session = s /\ m.role = "assistant"}

\* session.messages.all(): all there is of it now
Erased(s) == {m \in messages : m.session = s}

\* reset_chat_session
Reset(p) ==
    LET onTheWay == {q \in Procs : pc[q] \in {"run", "store", "touch"} /\ at[q] = at[p]} IN
    /\ pc[p] = "reset"
    /\ messages' = messages \ Erased(at[p])
    /\ cut' = cut \cup {ask[q] : q \in onTheWay}
    /\ Over(p)
    /\ UNCHANGED <<runtime, created, session, used, asks, answered, failed>>

\* runtime.delete collects the rows that go with it before its transaction.
Collect(p) ==
    /\ pc[p] = "collect"
    /\ collected' = [collected EXCEPT ![p] = {s \in Sessions : session[s] = found[p]}]
    /\ Goto(p, "erase")
    /\ UNCHANGED <<rows, at, found, ask, reply, history>>

\* on_delete=CASCADE of RuntimeChatMessage.session
Cascade(S) == {m \in messages : m.session \notin S}

\* Mutant: the transaction does not look for rows that refer to the runtime.
UnreferencedMutant(p) == TRUE

\* A session made since the collection refers to the runtime: the foreign key is
\* checked at the commit, which fails.
Unreferenced(p) == \A s \in Sessions \ collected[p] : session[s] # found[p]

\* The transaction of runtime.delete; a row that is gone already is no error.
Erase(p) ==
    /\ pc[p] = "erase"
    /\ Unreferenced(p)
    /\ session' = [s \in Sessions |-> IF s \in collected[p] THEN 0 ELSE session[s]]
    /\ messages' = Cascade(collected[p])
    /\ runtime' = IF runtime = found[p] THEN 0 ELSE runtime
    /\ Over(p)
    /\ UNCHANGED <<created, used, asks, history>>

\* A failing container, a row that is gone, a timeout or a kill.
Fail(p) ==
    /\ pc[p] # "idle"
    /\ failed' = IF ask[p] # 0 THEN failed \cup {ask[p]} ELSE failed
    /\ Over(p)
    /\ UNCHANGED <<rows, answered, cut>>

Next ==
    \/ \E p \in Procs :
          \/ Request(p) \/ CreateSession(p) \/ StoreQuestion(p) \/ RunAgent(p)
          \/ StoreAnswer(p) \/ Touch(p) \/ Reset(p) \/ Collect(p) \/ Erase(p) \/ Fail(p)
    \/ CreateRuntime

Spec == Init /\ [][Next]_vars

-----------------------------------------------------------------------------
(***************************************************************************)
(* Safety                                                                  *)
(***************************************************************************)

Of(s, role) == {m.ask : m \in {m \in messages : m.session = s /\ m.role = role}}

\* No message is without its session and no session without its runtime,
\* whatever is created while the runtime is being deleted.  The types of the variables are checked
\* with it.
NoOrphans ==
    /\ TypeOK
    /\ \A m \in messages : session[m.session] # 0
    /\ \A s \in Sessions : session[s] # 0 => session[s] = runtime

\* An answer stands beside its question in a session, unless a reset came while
\* the agent was at work: then it stands alone.
AnswerHasQuestion ==
    \A s \in Sessions : Of(s, "assistant") \subseteq Of(s, "user") \cup cut

\* What an agent said is never kept for another runtime than the one it belongs
\* to, though the two have the same name: a session ends with its runtime.
OwnAnswers ==
    \A m \in messages : m.role = "assistant" => m.by = session[m.session]

\* A question without an answer is one that is being answered, or one whose
\* failure the operator was told of or nobody could tell him: a reset leaves no
\* question of an answer it deleted.
QuestionsAccounted ==
    \A s \in Sessions : \A a \in Of(s, "user") \ Of(s, "assistant") :
        a \in failed \/ \E p \in Procs : ask[p] = a

=============================================================================

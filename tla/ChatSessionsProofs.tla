-------------------------- MODULE ChatSessionsProofs --------------------------
(***************************************************************************)
(* The invariants of ChatSessions, proved for any number of requests,      *)
(* sessions, messages and creations of the runtime.                        *)
(*                                                                         *)
(* What the safety properties need beside themselves is what a request     *)
(* that has read a session may still rely on when its agent has answered:  *)
(* the id of the session is not used again, so that it names the session   *)
(* read or none (Reading); the question is there, or was cut off by a      *)
(* reset (Asking); the agent that answered is that of the session's        *)
(* runtime (Answering); and no other request sends the same message        *)
(* (AsksApart, AskedOnce).                                                 *)
(***************************************************************************)
EXTENDS ChatSessions, TLAPS

\* The session a request has read is that of the runtime it has read, or is
\* gone for good.
Reading ==
    \A p \in Procs :
        /\ pc[p] \in {"send", "run", "store", "touch", "reset"} => at[p] # None
        /\ at[p] # None => at[p] \in used /\ session[at[p]] \in {0, found[p]}

\* A session that has its row has its id taken.
IdsTaken == \A s \in Sessions : session[s] # 0 => s \in used

\* Two requests send two messages.
AsksApart == \A p, q \in Procs : ask[p] # 0 /\ ask[p] = ask[q] => p = q

\* A message that is on its way is in the session its request has read.
AskedOnce ==
    /\ \A m \in messages : m.ask <= asks
    /\ \A p \in Procs, m \in messages : m.ask = ask[p] => m.session = at[p]

\* A message of a session, a role and a number is stored.
Has(s, role, a) == \E m \in messages : m.session = s /\ m.role = role /\ m.ask = a

\* The question of a request at work is stored beside where the answer goes,
\* unless a reset came in between.
Asking ==
    \A p \in Procs :
        pc[p] \in {"run", "store", "touch"} /\ session[at[p]] # 0 =>
            Has(at[p], "user", ask[p]) \/ ask[p] \in cut

\* The agent that has answered belongs to the runtime of the session, and the
\* answer that has been stored stands beside its question.
Answering ==
    \A p \in Procs :
        /\ pc[p] \in {"store", "touch"} /\ session[at[p]] # 0 => reply[p] = session[at[p]]
        /\ pc[p] = "touch" /\ Has(at[p], "user", ask[p]) =>
               Has(at[p], "assistant", ask[p])

\* What NoOrphans says beside the types.
Rooted ==
    /\ \A m \in messages : session[m.session] # 0
    /\ \A s \in Sessions : session[s] # 0 => session[s] = runtime

\* The inductive invariant.
IInv ==
    /\ TypeOK /\ Rooted /\ Reading /\ IdsTaken /\ AsksApart /\ AskedOnce
    /\ Asking /\ Answering
    /\ AnswerHasQuestion /\ OwnAnswers /\ QuestionsAccounted

-----------------------------------------------------------------------------
(***************************************************************************)
(* Every step keeps the invariant                                          *)
(***************************************************************************)

\* A request reads the runtime and a session of its.
LEMMA RequestStep ==
    ASSUME NEW p \in Procs, IInv, Request(p)
    PROVE  IInv'
<1> USE ChatAssumption DEF Request, ChatPage, SessionsApi, MessagesApi,
      ResetApi, DeleteRuntime, Reads, Goto, Over, rows, locals, history
<1>1. TypeOK'
  BY DEF IInv, TypeOK, Runtimes, Message
<1>2. Rooted'
  BY DEF IInv, Rooted, TypeOK, Message
<1>3. Reading'
  BY DEF IInv, Reading, TypeOK, IdsTaken
<1>4. IdsTaken'
  BY DEF IInv, IdsTaken, TypeOK
<1>5. AsksApart'
  BY DEF IInv, AsksApart, TypeOK
<1>6. AskedOnce'
  BY DEF IInv, AskedOnce, TypeOK, Message
<1>7. Asking'
  BY DEF IInv, Asking, TypeOK, Has
<1>8. Answering'
  BY DEF IInv, Answering, TypeOK, Has
<1>9. AnswerHasQuestion'
  BY DEF IInv, AnswerHasQuestion, TypeOK, Of, Message
<1>10. OwnAnswers'
  BY DEF IInv, OwnAnswers, TypeOK, Message
<1>11. QuestionsAccounted'
  BY DEF IInv, QuestionsAccounted, TypeOK, Of, Message
<1> QED
  BY <1>1, <1>2, <1>3, <1>4, <1>5, <1>6, <1>7, <1>8, <1>9, <1>10, <1>11
  DEF IInv

\* A session is made for the runtime that is there, under an id of its own.
LEMMA CreateSessionStep ==
    ASSUME NEW p \in Procs, IInv, CreateSession(p)
    PROVE  IInv'
<1> USE ChatAssumption DEF CreateSession, Goto, Over, rows, locals, history
<1>1. TypeOK'
  BY DEF IInv, TypeOK, Runtimes, Message
<1>2. Rooted'
  BY DEF IInv, Rooted, TypeOK, Message
<1>3. Reading'
  BY DEF IInv, Reading, TypeOK, IdsTaken
<1>4. IdsTaken'
  BY DEF IInv, IdsTaken, TypeOK
<1>5. AsksApart'
  BY DEF IInv, AsksApart, TypeOK
<1>6. AskedOnce'
  BY DEF IInv, AskedOnce, TypeOK, Message
<1>7. Asking'
  BY DEF IInv, Asking, TypeOK, Reading, Has
<1>8. Answering'
  BY DEF IInv, Answering, TypeOK, Reading, Has
<1>9. AnswerHasQuestion'
  BY DEF IInv, AnswerHasQuestion, TypeOK, Of, Message
<1>10. OwnAnswers'
  BY DEF IInv, OwnAnswers, TypeOK, Rooted, IdsTaken, Message
<1>11. QuestionsAccounted'
  BY DEF IInv, QuestionsAccounted, TypeOK, Of, Message
<1> QED
  BY <1>1, <1>2, <1>3, <1>4, <1>5, <1>6, <1>7, <1>8, <1>9, <1>10, <1>11
  DEF IInv

\* A message is numbered as no other and stored where its answer will go.
LEMMA StoreQuestionStep ==
    ASSUME NEW p \in Procs, IInv, StoreQuestion(p)
    PROVE  IInv'
<1> USE ChatAssumption DEF StoreQuestion, Goto, Over, rows, locals, history
<1>1. TypeOK'
  BY DEF IInv, TypeOK, Reading, Runtimes, Message
<1>2. Rooted'
  BY DEF IInv, Rooted, TypeOK, Reading, Message
<1>3. Reading'
  BY DEF IInv, Reading, TypeOK
<1>4. IdsTaken'
  BY DEF IInv, IdsTaken, TypeOK
<1>5. AsksApart'
  BY DEF IInv, AsksApart, TypeOK
<1>6. AskedOnce'
  BY DEF IInv, AskedOnce, TypeOK, Message
<1>7. Asking'
  <2> SUFFICES ASSUME NEW q \in Procs, pc'[q] \in {"run", "store", "touch"},
                      session'[at'[q]] # 0
               PROVE  (Has(at[q], "user", ask[q]) \/ ask[q] \in cut)'
    BY DEF Asking
  <2>1. CASE q = p
    <3> DEFINE m == [session |-> at[p], role |-> "user", ask |-> asks + 1, by |-> 0]
    <3>1. m \in messages'
      OBVIOUS
    <3>2. at'[p] = at[p] /\ ask'[p] = asks + 1
      BY DEF IInv, TypeOK
    <3> QED
      BY <2>1, <3>1, <3>2 DEF Has
  <2>2. CASE q # p
    <3>1. at'[q] = at[q] /\ ask'[q] = ask[q] /\ pc'[q] = pc[q]
      BY <2>2 DEF IInv, TypeOK
    <3>2. messages \subseteq messages'
      OBVIOUS
    <3> QED
      BY <3>1, <3>2 DEF IInv, Asking, Has
  <2> QED
    BY <2>1, <2>2
<1>8. Answering'
  BY DEF IInv, Answering, TypeOK, Has
<1>9. AnswerHasQuestion'
  BY DEF IInv, AnswerHasQuestion, TypeOK, Of, Message
<1>10. OwnAnswers'
  BY DEF IInv, OwnAnswers, TypeOK, Message
<1>11. QuestionsAccounted'
  BY DEF IInv, QuestionsAccounted, TypeOK, Of, Message
<1> QED
  BY <1>1, <1>2, <1>3, <1>4, <1>5, <1>6, <1>7, <1>8, <1>9, <1>10, <1>11
  DEF IInv

\* The agent that answers has the name of the runtime; where the session is still
\* there, so is its runtime.
LEMMA RunAgentStep ==
    ASSUME NEW p \in Procs, IInv, RunAgent(p)
    PROVE  IInv'
<1> USE ChatAssumption DEF RunAgent, Goto, Over, rows, locals, history
<1>1. TypeOK'
  BY DEF IInv, TypeOK, Runtimes, Message
<1>2. Rooted'
  BY DEF IInv, Rooted, TypeOK, Message
<1>3. Reading'
  BY DEF IInv, Reading, TypeOK
<1>4. IdsTaken'
  BY DEF IInv, IdsTaken, TypeOK
<1>5. AsksApart'
  BY DEF IInv, AsksApart, TypeOK
<1>6. AskedOnce'
  BY DEF IInv, AskedOnce, TypeOK, Message
<1>7. Asking'
  BY DEF IInv, Asking, TypeOK, Has
<1>8. Answering'
  BY DEF IInv, Answering, TypeOK, Reading, Rooted, Has
<1>9. AnswerHasQuestion'
  BY DEF IInv, AnswerHasQuestion, TypeOK, Of, Message
<1>10. OwnAnswers'
  BY DEF IInv, OwnAnswers, TypeOK, Message
<1>11. QuestionsAccounted'
  BY DEF IInv, QuestionsAccounted, TypeOK, Of, Message
<1> QED
  BY <1>1, <1>2, <1>3, <1>4, <1>5, <1>6, <1>7, <1>8, <1>9, <1>10, <1>11
  DEF IInv

\* The answer is stored beside its question, or where a reset took this away.
LEMMA StoreAnswerStep ==
    ASSUME NEW p \in Procs, IInv, StoreAnswer(p)
    PROVE  IInv'
<1> USE ChatAssumption DEF StoreAnswer, Goto, Over, rows, locals, history
<1>1. TypeOK'
  BY DEF IInv, TypeOK, Reading, Runtimes, Message
<1>2. Rooted'
  BY DEF IInv, Rooted, TypeOK, Reading, Message
<1>3. Reading'
  BY DEF IInv, Reading, TypeOK
<1>4. IdsTaken'
  BY DEF IInv, IdsTaken, TypeOK
<1>5. AsksApart'
  BY DEF IInv, AsksApart, TypeOK
<1>6. AskedOnce'
  BY DEF IInv, AskedOnce, TypeOK, AsksApart, Message
<1>7. Asking'
  BY DEF IInv, Asking, TypeOK, Has
<1>8. Answering'
  <2>1. \A q \in Procs :
            at'[q] = at[q] /\ ask'[q] = ask[q] /\ reply'[q] = reply[q]
    BY DEF IInv, TypeOK
  <2>2. ASSUME NEW q \in Procs, pc'[q] \in {"store", "touch"}, session'[at'[q]] # 0
        PROVE  reply'[q] = session'[at'[q]]
    BY <2>2 DEF IInv, TypeOK, Answering
  <2>3. ASSUME NEW q \in Procs, pc'[q] = "touch", Has(at[q], "user", ask[q])'
        PROVE  Has(at[q], "assistant", ask[q])'
    <3>1. CASE q = p
      <4> DEFINE m == [session |-> at[p], role |-> "assistant", ask |-> ask[p],
                       by |-> reply[p]]
      <4>1. m \in messages'
        OBVIOUS
      <4> QED
        BY <2>1, <3>1, <4>1 DEF Has
    <3>2. CASE q # p
      <4>1. pc[q] = "touch"
        BY <2>3, <3>2 DEF IInv, TypeOK
      <4>2. Has(at[q], "user", ask[q])
        BY <2>1, <2>3 DEF Has
      <4>3. Has(at[q], "assistant", ask[q])
        BY <4>1, <4>2 DEF IInv, Answering
      <4> QED
        BY <2>1, <4>3 DEF Has
    <3> QED
      BY <3>1, <3>2
  <2> QED
    BY <2>2, <2>3 DEF Answering
<1>9. AnswerHasQuestion'
  BY DEF IInv, AnswerHasQuestion, TypeOK, Asking, Has, Of, Message
<1>10. OwnAnswers'
  BY DEF IInv, OwnAnswers, TypeOK, Answering, Message
<1>11. QuestionsAccounted'
  BY DEF IInv, QuestionsAccounted, TypeOK, Of, Message
<1> QED
  BY <1>1, <1>2, <1>3, <1>4, <1>5, <1>6, <1>7, <1>8, <1>9, <1>10, <1>11
  DEF IInv

\* A message that has been answered is accounted for.
LEMMA TouchStep ==
    ASSUME NEW p \in Procs, IInv, Touch(p)
    PROVE  IInv'
<1> USE ChatAssumption DEF Touch, Goto, Over, rows, locals, history
<1>1. TypeOK'
  BY DEF IInv, TypeOK, Runtimes, Message
<1>2. Rooted'
  BY DEF IInv, Rooted, TypeOK, Message
<1>3. Reading'
  BY DEF IInv, Reading, TypeOK
<1>4. IdsTaken'
  BY DEF IInv, IdsTaken, TypeOK
<1>5. AsksApart'
  BY DEF IInv, AsksApart, TypeOK
<1>6. AskedOnce'
  BY DEF IInv, AskedOnce, TypeOK, Message
<1>7. Asking'
  BY DEF IInv, Asking, TypeOK, Has
<1>8. Answering'
  BY DEF IInv, Answering, TypeOK, Has
<1>9. AnswerHasQuestion'
  BY DEF IInv, AnswerHasQuestion, TypeOK, Of, Message
<1>10. OwnAnswers'
  BY DEF IInv, OwnAnswers, TypeOK, Message
<1>11. QuestionsAccounted'
  BY DEF IInv, QuestionsAccounted, TypeOK, Answering, AskedOnce, Has, Of,
      Message
<1> QED
  BY <1>1, <1>2, <1>3, <1>4, <1>5, <1>6, <1>7, <1>8, <1>9, <1>10, <1>11
  DEF IInv

\* A reset takes questions and answers alike.
LEMMA ResetStep ==
    ASSUME NEW p \in Procs, IInv, Reset(p)
    PROVE  IInv'
<1> USE ChatAssumption DEF Reset, Erased, Goto, Over, rows, locals, history
<1>1. TypeOK'
  BY DEF IInv, TypeOK, Runtimes, Message
<1>2. Rooted'
  BY DEF IInv, Rooted, TypeOK, Message
<1>3. Reading'
  BY DEF IInv, Reading, TypeOK
<1>4. IdsTaken'
  BY DEF IInv, IdsTaken, TypeOK
<1>5. AsksApart'
  BY DEF IInv, AsksApart, TypeOK
<1>6. AskedOnce'
  BY DEF IInv, AskedOnce, TypeOK, Message
<1>7. Asking'
  BY DEF IInv, Asking, TypeOK, Has
<1>8. Answering'
  BY DEF IInv, Answering, TypeOK, Has
<1>9. AnswerHasQuestion'
  BY DEF IInv, AnswerHasQuestion, TypeOK, Of, Message
<1>10. OwnAnswers'
  BY DEF IInv, OwnAnswers, TypeOK, Message
<1>11. QuestionsAccounted'
  BY DEF IInv, QuestionsAccounted, TypeOK, Of, Message
<1> QED
  BY <1>1, <1>2, <1>3, <1>4, <1>5, <1>6, <1>7, <1>8, <1>9, <1>10, <1>11
  DEF IInv

\* The deletion of the runtime collects its sessions.
LEMMA CollectStep ==
    ASSUME NEW p \in Procs, IInv, Collect(p)
    PROVE  IInv'
<1> USE ChatAssumption DEF Collect, Goto, Over, rows, locals, history
<1>1. TypeOK'
  BY DEF IInv, TypeOK, IdsTaken, Runtimes, Message
<1>2. Rooted'
  BY DEF IInv, Rooted, TypeOK, Message
<1>3. Reading'
  BY DEF IInv, Reading, TypeOK
<1>4. IdsTaken'
  BY DEF IInv, IdsTaken, TypeOK
<1>5. AsksApart'
  BY DEF IInv, AsksApart, TypeOK
<1>6. AskedOnce'
  BY DEF IInv, AskedOnce, TypeOK, Message
<1>7. Asking'
  BY DEF IInv, Asking, TypeOK, Has
<1>8. Answering'
  BY DEF IInv, Answering, TypeOK, Has
<1>9. AnswerHasQuestion'
  BY DEF IInv, AnswerHasQuestion, TypeOK, Of, Message
<1>10. OwnAnswers'
  BY DEF IInv, OwnAnswers, TypeOK, Message
<1>11. QuestionsAccounted'
  BY DEF IInv, QuestionsAccounted, TypeOK, Of, Message
<1> QED
  BY <1>1, <1>2, <1>3, <1>4, <1>5, <1>6, <1>7, <1>8, <1>9, <1>10, <1>11
  DEF IInv

\* The sessions and the messages that go are those of the runtime that goes.
LEMMA EraseStep ==
    ASSUME NEW p \in Procs, IInv, Erase(p)
    PROVE  IInv'
<1> USE ChatAssumption DEF Erase, Cascade, Unreferenced, Goto, Over, rows,
      locals, history
<1>1. TypeOK'
  BY DEF IInv, TypeOK, Runtimes, Message
<1>2. Rooted'
  BY DEF IInv, Rooted, TypeOK, Message
<1>3. Reading'
  BY DEF IInv, Reading, TypeOK
<1>4. IdsTaken'
  BY DEF IInv, IdsTaken, TypeOK
<1>5. AsksApart'
  BY DEF IInv, AsksApart, TypeOK
<1>6. AskedOnce'
  BY DEF IInv, AskedOnce, TypeOK, Message
<1>7. Asking'
  BY DEF IInv, Asking, TypeOK, Message, Reading, Has
<1>8. Answering'
  BY DEF IInv, Answering, TypeOK, Message, Reading, Has
<1>9. AnswerHasQuestion'
  BY DEF IInv, AnswerHasQuestion, TypeOK, Of, Message
<1>10. OwnAnswers'
  BY DEF IInv, OwnAnswers, TypeOK, Message
<1>11. QuestionsAccounted'
  BY DEF IInv, QuestionsAccounted, TypeOK, Of, Message
<1> QED
  BY <1>1, <1>2, <1>3, <1>4, <1>5, <1>6, <1>7, <1>8, <1>9, <1>10, <1>11
  DEF IInv

\* A message whose request breaks off is accounted for as a failure.
LEMMA FailStep ==
    ASSUME NEW p \in Procs, IInv, Fail(p)
    PROVE  IInv'
<1> USE ChatAssumption DEF Fail, Goto, Over, rows, locals, history
<1>1. TypeOK'
  BY DEF IInv, TypeOK, Runtimes, Message
<1>2. Rooted'
  BY DEF IInv, Rooted, TypeOK, Message
<1>3. Reading'
  BY DEF IInv, Reading, TypeOK
<1>4. IdsTaken'
  BY DEF IInv, IdsTaken, TypeOK
<1>5. AsksApart'
  BY DEF IInv, AsksApart, TypeOK
<1>6. AskedOnce'
  BY DEF IInv, AskedOnce, TypeOK, Message
<1>7. Asking'
  BY DEF IInv, Asking, TypeOK, Has
<1>8. Answering'
  BY DEF IInv, Answering, TypeOK, Has
<1>9. AnswerHasQuestion'
  BY DEF IInv, AnswerHasQuestion, TypeOK, Of, Message
<1>10. OwnAnswers'
  BY DEF IInv, OwnAnswers, TypeOK, Message
<1>11. QuestionsAccounted'
  BY DEF IInv, QuestionsAccounted, TypeOK, Of, Message
<1> QED
  BY <1>1, <1>2, <1>3, <1>4, <1>5, <1>6, <1>7, <1>8, <1>9, <1>10, <1>11
  DEF IInv

\* A runtime is created when no session is left of another.
LEMMA CreateRuntimeStep ==
    ASSUME IInv, CreateRuntime
    PROVE  IInv'
<1> USE ChatAssumption DEF CreateRuntime, locals, history
<1>1. TypeOK'
  BY DEF IInv, TypeOK, Runtimes, Message
<1>2. Rooted'
  BY DEF IInv, Rooted, TypeOK, Message
<1>3. Reading'
  BY DEF IInv, Reading, TypeOK
<1>4. IdsTaken'
  BY DEF IInv, IdsTaken, TypeOK
<1>5. AsksApart'
  BY DEF IInv, AsksApart, TypeOK
<1>6. AskedOnce'
  BY DEF IInv, AskedOnce, TypeOK, Message
<1>7. Asking'
  BY DEF IInv, Asking, TypeOK, Has
<1>8. Answering'
  BY DEF IInv, Answering, TypeOK, Has
<1>9. AnswerHasQuestion'
  BY DEF IInv, AnswerHasQuestion, TypeOK, Of, Message
<1>10. OwnAnswers'
  BY DEF IInv, OwnAnswers, TypeOK, Rooted, Message
<1>11. QuestionsAccounted'
  BY DEF IInv, QuestionsAccounted, TypeOK, Of, Message
<1> QED
  BY <1>1, <1>2, <1>3, <1>4, <1>5, <1>6, <1>7, <1>8, <1>9, <1>10, <1>11
  DEF IInv

-----------------------------------------------------------------------------
(***************************************************************************)
(* The invariant and the theorems                                          *)
(***************************************************************************)

\* The state the first request meets satisfies the invariant.
LEMMA InitIInv == Init => IInv
BY ChatAssumption
DEF Init, IInv, TypeOK, Rooted, Reading, IdsTaken, AsksApart, AskedOnce, Asking,
    Answering, AnswerHasQuestion, OwnAnswers, QuestionsAccounted, Of, Has, Runtimes

\* A step that changes nothing keeps the invariant.
LEMMA StutterStep == IInv /\ UNCHANGED vars => IInv'
BY DEF vars, rows, locals, history, IInv, TypeOK, Rooted, Reading, IdsTaken,
       AsksApart, AskedOnce, Asking, Answering, AnswerHasQuestion, OwnAnswers,
       QuestionsAccounted, Of, Has

\* Every step keeps the invariant.
LEMMA NextIInv == IInv /\ [Next]_vars => IInv'
<1> SUFFICES ASSUME IInv, [Next]_vars PROVE IInv'
  OBVIOUS
<1>1. ASSUME NEW p \in Procs,
             \/ Request(p) \/ CreateSession(p) \/ StoreQuestion(p) \/ RunAgent(p)
             \/ StoreAnswer(p) \/ Touch(p) \/ Reset(p) \/ Collect(p) \/ Erase(p)
             \/ Fail(p)
      PROVE  IInv'
  BY <1>1, RequestStep, CreateSessionStep, StoreQuestionStep, RunAgentStep,
     StoreAnswerStep, TouchStep, ResetStep, CollectStep, EraseStep, FailStep
<1>2. CASE CreateRuntime
  BY <1>2, CreateRuntimeStep
<1>3. CASE UNCHANGED vars
  BY <1>3, StutterStep
<1> QED
  BY <1>1, <1>2, <1>3 DEF Next

\* The invariant holds in every reachable state.
THEOREM Invariance == Spec => []IInv
BY InitIInv, NextIInv, PTL DEF Spec

\* Whatever is created while the runtime is being deleted, no message is left
\* without its session and no session without its runtime.
THEOREM RowsRooted == Spec => []NoOrphans
<1>1. IInv => NoOrphans
  BY DEF IInv, Rooted, NoOrphans
<1> QED
  BY <1>1, Invariance, PTL

\* Only a reset during the agent's work separates an answer from its question.
THEOREM AnswersBelong == Spec => []AnswerHasQuestion
<1>1. IInv => AnswerHasQuestion
  BY DEF IInv
<1> QED
  BY <1>1, Invariance, PTL

\* An answer kept in a session was given by the agent of that session's
\* runtime, though a deleted runtime and its successor share the agent's name.
THEOREM AnswersOwn == Spec => []OwnAnswers
<1>1. IInv => OwnAnswers
  BY DEF IInv
<1> QED
  BY <1>1, Invariance, PTL

\* No question stays unanswered without a failure or a request at work on it.
THEOREM QuestionsHandled == Spec => []QuestionsAccounted
<1>1. IInv => QuestionsAccounted
  BY DEF IInv
<1> QED
  BY <1>1, Invariance, PTL

-----------------------------------------------------------------------------
(***************************************************************************)
(* Undisturbed operation                                                   *)
(*                                                                         *)
(* The properties name what a failure or a reset has left without its      *)
(* counterpart.  Without one, questions and answers of a session match.    *)
(***************************************************************************)

\* No message is on its way to or from the agent.
Quiet(s) == \A p \in Procs : ask[p] # 0 => at[p] # s

\* A session is reset while it is quiet, and a message that has been stored only
\* fails when its session is gone.
CalmNext ==
    \/ \E p \in Procs :
          \/ Request(p) \/ CreateSession(p) \/ StoreQuestion(p) \/ RunAgent(p)
          \/ StoreAnswer(p) \/ Touch(p) \/ Collect(p) \/ Erase(p)
          \/ Reset(p) /\ Quiet(at[p])
          \/ Fail(p) /\ (ask[p] # 0 => session[at[p]] = 0)
    \/ CreateRuntime

Undisturbed == Init /\ [][CalmNext]_vars

\* A quiet session has an answer for every question, and no other.
AtRest == \A s \in Sessions : Quiet(s) => Of(s, "user") = Of(s, "assistant")

\* No reset has come in between, and of what has failed nothing is left.
Calm ==
    /\ cut = {}
    /\ \A m \in messages : m.ask \notin failed
    /\ \A p \in Procs : ask[p] \notin failed

\* Every step of undisturbed operation is one of the specification.
LEMMA CalmIsNext == CalmNext => Next
BY DEF CalmNext, Next

\* Every step of undisturbed operation keeps it so.
LEMMA CalmStep == IInv /\ Calm /\ [CalmNext]_vars => Calm'
<1> SUFFICES ASSUME IInv, Calm, [CalmNext]_vars PROVE Calm'
  OBVIOUS
<1> USE ChatAssumption DEF Goto, rows, locals, history
<1>0. /\ TypeOK /\ failed \subseteq 1..asks /\ asks \in Nat
      /\ \A m \in messages : session[m.session] # 0 /\ m.session \in Sessions
  BY DEF IInv, TypeOK, Rooted, Message
<1>1. ASSUME NEW p \in Procs, Request(p) PROVE Calm'
  BY <1>1 DEF Calm, Request, ChatPage, SessionsApi, MessagesApi, ResetApi, DeleteRuntime, Reads
<1>2. ASSUME NEW p \in Procs, CreateSession(p) \/ Touch(p) PROVE Calm'
  BY <1>0, <1>2 DEF Calm, TypeOK, CreateSession, Touch, Over
<1>3. ASSUME NEW p \in Procs, StoreQuestion(p) PROVE Calm'
  <2>1. asks' \notin failed
    BY <1>0, <1>3 DEF StoreQuestion
  <2> QED
    BY <1>0, <1>3, <2>1 DEF Calm, TypeOK, StoreQuestion
<1>4. ASSUME NEW p \in Procs, RunAgent(p) \/ StoreAnswer(p) \/ Collect(p) PROVE Calm'
  BY <1>4 DEF Calm, RunAgent, StoreAnswer, Collect
<1>5. ASSUME NEW p \in Procs, Erase(p) PROVE Calm'
  BY <1>0, <1>5 DEF Calm, TypeOK, Erase, Cascade, Over
<1>6. ASSUME NEW p \in Procs, Reset(p), Quiet(at[p]) PROVE Calm'
  <2>1. {q \in Procs : pc[q] \in {"run", "store", "touch"} /\ at[q] = at[p]} = {}
    BY <1>0, <1>6 DEF TypeOK, Quiet
  <2>2. cut' = {}
    BY <1>6, <2>1 DEF Reset, Calm
  <2> QED
    BY <1>0, <1>6, <2>2 DEF Calm, TypeOK, Reset, Erased, Over
<1>7. ASSUME NEW p \in Procs, Fail(p), ask[p] # 0 => session[at[p]] = 0 PROVE Calm'
  <2>1. \A m \in messages : ask[p] # 0 => m.ask # ask[p]
    BY <1>0, <1>7 DEF IInv, AskedOnce
  <2>2. \A q \in Procs \ {p} : ask[p] # 0 => ask[q] # ask[p]
    BY DEF IInv, AsksApart
  <2> QED
    BY <1>0, <1>7, <2>1, <2>2 DEF Calm, TypeOK, Fail, Over
<1>8. CASE CreateRuntime
  BY <1>8 DEF Calm, CreateRuntime
<1>9. CASE UNCHANGED vars
  BY <1>9 DEF Calm, vars
<1> QED
  BY <1>1, <1>2, <1>3, <1>4, <1>5, <1>6, <1>7, <1>8, <1>9 DEF CalmNext

\* While the agent answers what it is asked, and no session is reset under a
\* message on its way, every session without such a message has an answer for each
\* of its questions and a question for each of its answers, whatever else happens
\* to sessions and runtimes: the exceptions of AnswerHasQuestion and
\* QuestionsAccounted all have an accident for a cause.
THEOREM UndisturbedAgrees == Undisturbed => []AtRest
<1>1. Init => Calm
  BY DEF Init, Calm
<1>2. IInv /\ Calm => AtRest
  <2> SUFFICES ASSUME IInv, Calm, NEW s \in Sessions, Quiet(s)
               PROVE  Of(s, "user") = Of(s, "assistant")
    BY DEF AtRest
  <2>1. Of(s, "assistant") \subseteq Of(s, "user")
    BY DEF IInv, AnswerHasQuestion, Calm
  <2>2. ASSUME NEW a \in Of(s, "user"), a \notin Of(s, "assistant") PROVE FALSE
    <3>1. PICK m \in messages : m.session = s /\ m.ask = a
      BY <2>2 DEF Of
    <3>2. a \notin failed /\ a # 0
      BY <3>1 DEF Calm, IInv, TypeOK, Message
    <3>3. PICK p \in Procs : ask[p] = a
      BY <2>2, <3>2 DEF IInv, QuestionsAccounted
    <3>4. at[p] = s
      BY <3>1, <3>3 DEF IInv, AskedOnce
    <3> QED
      BY <3>2, <3>3, <3>4 DEF Quiet
  <2> QED
    BY <2>1, <2>2
<1>3. [CalmNext]_vars => [Next]_vars
  BY CalmIsNext
<1> QED
  BY InitIInv, NextIInv, CalmStep, <1>1, <1>2, <1>3, PTL DEF Undisturbed

=============================================================================

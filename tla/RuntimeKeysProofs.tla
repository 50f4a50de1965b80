-------------------------- MODULE RuntimeKeysProofs --------------------------
(***************************************************************************)
(* The invariants of RuntimeKeys and its refinement of KeyVault, proved    *)
(* for any number of operations, runtimes and keys.                        *)
(*                                                                         *)
(* The argument is one inductive invariant, IInv.  None of its safety      *)
(* parts is inductive alone: that no live key is lost when a new one is    *)
(* stored (LiveKeysAccounted) needs to know that the key stored before is  *)
(* dead or a stray (OldKeyHandled), which needs the lock to keep other     *)
(* transactions out (ProvisionSerial), each key to have one owner          *)
(* (Ownership), and the new key to be unknown to a revoke (NewKeyPrivate). *)
(*                                                                         *)
(* One lemma per group of actions shows that it preserves IInv.            *)
(***************************************************************************)
EXTENDS RuntimeKeys, TLAPS

\* A request only sets up the locals of the operation it starts.
LEMMA RequestStep ==
    ASSUME NEW p \in Procs, NEW r \in Runtimes, IInv, Create(p, r) \/ Rotate(p, r) \/ Revoke(p, r)
    PROVE  IInv'
<1> USE NullAssumption DEF CreateSteps, RevokeSteps, Steps, Debts, Create,
        Rotate, Revoke, Goto, keyVars, runVars
<1>1. TypeOK'
  BY DEF IInv, TypeOK
<1>2. ProvisionSerial'
  BY DEF IInv, TypeOK, ProvisionSerial
<1>3. Ownership'
  BY DEF IInv, TypeOK, Ownership, Locals
<1>4. Locals'
  BY DEF IInv, TypeOK, Locals
<1>5. NewKeyPrivate'
  BY DEF IInv, TypeOK, NewKeyPrivate
<1>6. OldKeyHandled'
  BY DEF IInv, TypeOK, OldKeyHandled
<1>7. RevokeProgress'
  BY DEF IInv, TypeOK, RevokeProgress
<1>8. RotationHolds'
  BY DEF IInv, TypeOK, RotationHolds
<1>9. LiveKeysAccounted'
  BY DEF IInv, TypeOK, LiveKeysAccounted
<1>10. StoredKeyLive'
  BY DEF IInv, TypeOK, StoredKeyLive
<1>11. GatewayCurrent'
  BY DEF IInv, TypeOK, GatewayCurrent
<1> QED
  BY <1>1, <1>2, <1>3, <1>4, <1>5, <1>6, <1>7, <1>8, <1>9, <1>10, <1>11
  DEF IInv

\* The transaction begins and the current key is read, or taken for missing.
LEMMA LookupStep ==
    ASSUME NEW p \in Procs, IInv, Enter(p) \/ Lookup(p)
    PROVE  IInv'
<1> USE NullAssumption DEF CreateSteps, RevokeSteps, Steps, Debts, Enter,
        Lookup, Goto, Real, keyVars, runVars
<1>1. TypeOK'
  BY DEF IInv, TypeOK, Locals
<1>2. ProvisionSerial'
  BY DEF IInv, TypeOK, ProvisionSerial
<1>3. Ownership'
  BY DEF IInv, TypeOK, Ownership, Locals
<1>4. Locals'
  BY DEF IInv, TypeOK, Locals
<1>5. NewKeyPrivate'
  BY DEF IInv, TypeOK, NewKeyPrivate, Locals
<1>6. OldKeyHandled'
  BY DEF IInv, TypeOK, OldKeyHandled
<1>7. RevokeProgress'
  BY DEF IInv, TypeOK, RevokeProgress
<1>8. RotationHolds'
  BY DEF IInv, TypeOK, RotationHolds
<1>9. LiveKeysAccounted'
  BY DEF IInv, TypeOK, LiveKeysAccounted
<1>10. StoredKeyLive'
  BY DEF IInv, TypeOK, StoredKeyLive
<1>11. GatewayCurrent'
  BY DEF IInv, TypeOK, GatewayCurrent
<1> QED
  BY <1>1, <1>2, <1>3, <1>4, <1>5, <1>6, <1>7, <1>8, <1>9, <1>10, <1>11
  DEF IInv

\* The old key dies, survives a swallowed error, or dies unheard of.
LEMMA DropStep ==
    ASSUME NEW p \in Procs, IInv, Drop(p) \/ DropUnanswered(p)
    PROVE  IInv'
<1> USE NullAssumption DEF CreateSteps, RevokeSteps, Steps, Debts, Drop,
        DropUnanswered, Rollback, Over, Goto, Owe, runVars
<1>1. TypeOK'
  BY DEF IInv, TypeOK
<1>2. ProvisionSerial'
  BY DEF IInv, TypeOK, ProvisionSerial
<1>3. Ownership'
  BY DEF IInv, TypeOK, Ownership
<1>4. Locals'
  BY DEF IInv, TypeOK, Locals
<1>5. NewKeyPrivate'
  BY DEF IInv, TypeOK, NewKeyPrivate
<1>6. OldKeyHandled'
  BY DEF IInv, TypeOK, OldKeyHandled
<1>7. RevokeProgress'
  BY DEF IInv, TypeOK, RevokeProgress
<1>8. RotationHolds'
  BY DEF IInv, TypeOK, RotationHolds
<1>9. LiveKeysAccounted'
  BY DEF IInv, TypeOK, LiveKeysAccounted
<1>10. StoredKeyLive'
  BY DEF IInv, TypeOK, StoredKeyLive, Ownership
<1>11. GatewayCurrent'
  BY DEF IInv, TypeOK, GatewayCurrent
<1> QED
  BY <1>1, <1>2, <1>3, <1>4, <1>5, <1>6, <1>7, <1>8, <1>9, <1>10, <1>11
  DEF IInv

\* The new key is one nobody refers to, because nobody owns it yet.
LEMMA GenerateStep ==
    ASSUME NEW p \in Procs, IInv, Generate(p) \/ GenerateUnanswered(p)
    PROVE  IInv'
<1> USE NullAssumption DEF CreateSteps, RevokeSteps, Steps, Debts, Generate,
        GenerateUnanswered, Issue, Rollback, CutShort, Over, Goto, Owe,
        runVars
<1>1. TypeOK'
  BY DEF IInv, TypeOK
<1>2. ProvisionSerial'
  BY DEF IInv, TypeOK, ProvisionSerial
<1>3. Ownership'
  BY DEF IInv, TypeOK, Ownership, Locals
<1>4. Locals'
  BY DEF IInv, TypeOK, Locals
<1>5. NewKeyPrivate'
  BY DEF IInv, TypeOK, NewKeyPrivate, Ownership, Locals
<1>6. OldKeyHandled'
  BY DEF IInv, TypeOK, OldKeyHandled, Ownership, Locals
<1>7. RevokeProgress'
  BY DEF IInv, TypeOK, RevokeProgress, Ownership, Locals
<1>8. RotationHolds'
  BY DEF IInv, TypeOK, RotationHolds
<1>9. LiveKeysAccounted'
  BY DEF IInv, TypeOK, LiveKeysAccounted
<1>10. StoredKeyLive'
  BY DEF IInv, TypeOK, StoredKeyLive
<1>11. GatewayCurrent'
  BY DEF IInv, TypeOK, GatewayCurrent
<1> QED
  BY <1>1, <1>2, <1>3, <1>4, <1>5, <1>6, <1>7, <1>8, <1>9, <1>10, <1>11
  DEF IInv

\* The new key becomes the secret: it is live, and the key it replaces is dead
\* or a stray, so no live key is lost (LiveKeysAccounted).
LEMMA StoreStep ==
    ASSUME NEW p \in Procs, IInv, Store(p) \/ StoreUnanswered(p)
    PROVE  IInv'
<1> USE NullAssumption DEF CreateSteps, RevokeSteps, Steps, Debts, Store,
        StoreUnanswered, Rollback, Over, Goto, Settle, runVars
<1>1. TypeOK'
  BY DEF IInv, TypeOK
<1>2. ProvisionSerial'
  BY DEF IInv, TypeOK, ProvisionSerial
<1>3. Ownership'
  BY DEF IInv, TypeOK, Ownership
<1>4. Locals'
  BY DEF IInv, TypeOK, Locals
<1>5. NewKeyPrivate'
  BY DEF IInv, TypeOK, NewKeyPrivate, ProvisionSerial
<1>6. OldKeyHandled'
  BY DEF IInv, TypeOK, OldKeyHandled, ProvisionSerial
<1>7. RevokeProgress'
  BY DEF IInv, TypeOK, RevokeProgress, Locals, NewKeyPrivate
<1>8. RotationHolds'
  BY DEF IInv, TypeOK, RotationHolds, ProvisionSerial, Locals
<1>9. LiveKeysAccounted'
  BY DEF IInv, TypeOK, LiveKeysAccounted, Ownership, OldKeyHandled
<1>10. StoredKeyLive'
  BY DEF IInv, TypeOK, StoredKeyLive, NewKeyPrivate
<1>11. GatewayCurrent'
  BY DEF IInv, TypeOK, GatewayCurrent
<1> QED
  BY <1>1, <1>2, <1>3, <1>4, <1>5, <1>6, <1>7, <1>8, <1>9, <1>10, <1>11
  DEF IInv

\* The gateway is restarted, and the transaction commits.
LEMMA UpCommitStep ==
    ASSUME NEW p \in Procs, IInv, Up(p) \/ Commit(p)
    PROVE  IInv'
<1> USE NullAssumption DEF CreateSteps, RevokeSteps, Steps, Debts, Up,
        Commit, Over, Goto, Settle, keyVars, runVars
<1>1. TypeOK'
  BY DEF IInv, TypeOK, Locals
<1>2. ProvisionSerial'
  BY DEF IInv, TypeOK, ProvisionSerial
<1>3. Ownership'
  BY DEF IInv, TypeOK, Ownership
<1>4. Locals'
  BY DEF IInv, TypeOK, Locals
<1>5. NewKeyPrivate'
  BY DEF IInv, TypeOK, NewKeyPrivate
<1>6. OldKeyHandled'
  BY DEF IInv, TypeOK, OldKeyHandled
<1>7. RevokeProgress'
  BY DEF IInv, TypeOK, RevokeProgress
<1>8. RotationHolds'
  BY DEF IInv, TypeOK, RotationHolds, Locals
<1>9. LiveKeysAccounted'
  BY DEF IInv, TypeOK, LiveKeysAccounted
<1>10. StoredKeyLive'
  BY DEF IInv, TypeOK, StoredKeyLive
<1>11. GatewayCurrent'
  BY DEF IInv, TypeOK, GatewayCurrent
<1> QED
  BY <1>1, <1>2, <1>3, <1>4, <1>5, <1>6, <1>7, <1>8, <1>9, <1>10, <1>11
  DEF IInv

\* The rest of create_or_update_runtime is cut off at any step.
LEMMA AbortStep ==
    ASSUME NEW p \in Procs, IInv, Abort(p)
    PROVE  IInv'
<1> USE NullAssumption DEF CreateSteps, RevokeSteps, Steps, Debts, Abort,
        CutShort, Rollback, Over, Goto, Owe, keyVars, runVars
<1>1. TypeOK'
  BY DEF IInv, TypeOK, Locals
<1>2. ProvisionSerial'
  BY DEF IInv, TypeOK, ProvisionSerial
<1>3. Ownership'
  BY DEF IInv, TypeOK, Ownership
<1>4. Locals'
  BY DEF IInv, TypeOK, Locals
<1>5. NewKeyPrivate'
  BY DEF IInv, TypeOK, NewKeyPrivate
<1>6. OldKeyHandled'
  BY DEF IInv, TypeOK, OldKeyHandled
<1>7. RevokeProgress'
  BY DEF IInv, TypeOK, RevokeProgress
<1>8. RotationHolds'
  BY DEF IInv, TypeOK, RotationHolds
<1>9. LiveKeysAccounted'
  BY DEF IInv, TypeOK, LiveKeysAccounted
<1>10. StoredKeyLive'
  BY DEF IInv, TypeOK, StoredKeyLive
<1>11. GatewayCurrent'
  BY DEF IInv, TypeOK, GatewayCurrent
<1> QED
  BY <1>1, <1>2, <1>3, <1>4, <1>5, <1>6, <1>7, <1>8, <1>9, <1>10, <1>11
  DEF IInv

\* A revoke reads the key, saves the row, or fails.
LEMMA RevokeMoveStep ==
    ASSUME NEW p \in Procs, IInv, RevokeLookup(p) \/ RevokeSave(p) \/ RevokeFail(p)
    PROVE  IInv'
<1> USE NullAssumption DEF CreateSteps, RevokeSteps, Steps, Debts,
        RevokeLookup, RevokeSave, RevokeFail, Over, Goto, Owe, keyVars,
        runVars
<1>1. TypeOK'
  BY DEF IInv, TypeOK, Locals
<1>2. ProvisionSerial'
  BY DEF IInv, TypeOK, ProvisionSerial
<1>3. Ownership'
  BY DEF IInv, TypeOK, Ownership, Locals
<1>4. Locals'
  BY DEF IInv, TypeOK, Locals
<1>5. NewKeyPrivate'
  BY DEF IInv, TypeOK, NewKeyPrivate, Locals
<1>6. OldKeyHandled'
  BY DEF IInv, TypeOK, OldKeyHandled
<1>7. RevokeProgress'
  BY DEF IInv, TypeOK, RevokeProgress
<1>8. RotationHolds'
  BY DEF IInv, TypeOK, RotationHolds
<1>9. LiveKeysAccounted'
  BY DEF IInv, TypeOK, LiveKeysAccounted
<1>10. StoredKeyLive'
  BY DEF IInv, TypeOK, StoredKeyLive
<1>11. GatewayCurrent'
  BY DEF IInv, TypeOK, GatewayCurrent
<1> QED
  BY <1>1, <1>2, <1>3, <1>4, <1>5, <1>6, <1>7, <1>8, <1>9, <1>10, <1>11
  DEF IInv

\* A revoke kills the key it read.
LEMMA RevokeDropStep ==
    ASSUME NEW p \in Procs, IInv, RevokeDrop(p) \/ RevokeDropUnanswered(p)
    PROVE  IInv'
<1> USE NullAssumption DEF CreateSteps, RevokeSteps, Steps, Debts,
        RevokeDrop, RevokeDropUnanswered, Over, Goto, Owe, runVars
<1>1. TypeOK'
  BY DEF IInv, TypeOK
<1>2. ProvisionSerial'
  BY DEF IInv, TypeOK, ProvisionSerial
<1>3. Ownership'
  BY DEF IInv, TypeOK, Ownership
<1>4. Locals'
  BY DEF IInv, TypeOK, Locals
<1>5. NewKeyPrivate'
  BY DEF IInv, TypeOK, NewKeyPrivate
<1>6. OldKeyHandled'
  BY DEF IInv, TypeOK, OldKeyHandled
<1>7. RevokeProgress'
  BY DEF IInv, TypeOK, RevokeProgress
<1>8. RotationHolds'
  BY DEF IInv, TypeOK, RotationHolds
<1>9. LiveKeysAccounted'
  BY DEF IInv, TypeOK, LiveKeysAccounted
<1>10. StoredKeyLive'
  BY DEF IInv, TypeOK, StoredKeyLive, Ownership
<1>11. GatewayCurrent'
  BY DEF IInv, TypeOK, GatewayCurrent
<1> QED
  BY <1>1, <1>2, <1>3, <1>4, <1>5, <1>6, <1>7, <1>8, <1>9, <1>10, <1>11
  DEF IInv

\* A revoke deletes the secret; another key it finds there is a stray.
LEMMA RevokeForgetStep ==
    ASSUME NEW p \in Procs, IInv, RevokeForget(p)
    PROVE  IInv'
<1> USE NullAssumption DEF CreateSteps, RevokeSteps, Steps, Debts,
        RevokeForget, Goto, Settle, Real, runVars
<1>1. TypeOK'
  BY DEF IInv, TypeOK
<1>2. ProvisionSerial'
  BY DEF IInv, TypeOK, ProvisionSerial
<1>3. Ownership'
  BY DEF IInv, TypeOK, Ownership
<1>4. Locals'
  BY DEF IInv, TypeOK, Locals
<1>5. NewKeyPrivate'
  BY DEF IInv, TypeOK, NewKeyPrivate
<1>6. OldKeyHandled'
  BY DEF IInv, TypeOK, OldKeyHandled
<1>7. RevokeProgress'
  BY DEF IInv, TypeOK, RevokeProgress, Locals
<1>8. RotationHolds'
  BY DEF IInv, TypeOK, RotationHolds
<1>9. LiveKeysAccounted'
  BY DEF IInv, TypeOK, LiveKeysAccounted, RevokeProgress
<1>10. StoredKeyLive'
  BY DEF IInv, TypeOK, StoredKeyLive
<1>11. GatewayCurrent'
  BY DEF IInv, TypeOK, GatewayCurrent
<1> QED
  BY <1>1, <1>2, <1>3, <1>4, <1>5, <1>6, <1>7, <1>8, <1>9, <1>10, <1>11
  DEF IInv

\* Containers start, stop and boot; no key and no secret changes.
LEMMA GatewayStep ==
    ASSUME NEW r \in Runtimes, IInv, Gateway(r)
    PROVE  IInv'
<1> USE NullAssumption DEF CreateSteps, RevokeSteps, Steps, Debts, Gateway,
        StartGateway, StopGateway, Delete, Boot, GatewayExit, Settle,
        keyVars, runVars, procVars
<1>1. TypeOK'
  BY DEF IInv, TypeOK
<1>2. ProvisionSerial'
  BY DEF IInv, TypeOK, ProvisionSerial
<1>3. Ownership'
  BY DEF IInv, TypeOK, Ownership
<1>4. Locals'
  BY DEF IInv, TypeOK, Locals
<1>5. NewKeyPrivate'
  BY DEF IInv, TypeOK, NewKeyPrivate
<1>6. OldKeyHandled'
  BY DEF IInv, TypeOK, OldKeyHandled
<1>7. RevokeProgress'
  BY DEF IInv, TypeOK, RevokeProgress
<1>8. RotationHolds'
  BY DEF IInv, TypeOK, RotationHolds, Locals
<1>9. LiveKeysAccounted'
  BY DEF IInv, TypeOK, LiveKeysAccounted
<1>10. StoredKeyLive'
  BY DEF IInv, TypeOK, StoredKeyLive
<1>11. GatewayCurrent'
  BY DEF IInv, TypeOK, GatewayCurrent
<1> QED
  BY <1>1, <1>2, <1>3, <1>4, <1>5, <1>6, <1>7, <1>8, <1>9, <1>10, <1>11
  DEF IInv

-----------------------------------------------------------------------------

\* Initially nothing is provisioned and nothing is running.
LEMMA InitIInv == Init => IInv
<1> USE NullAssumption DEF Init, CreateSteps, RevokeSteps, Steps, Debts
<1>1. Init => TypeOK
  BY DEF TypeOK
<1>2. Init => ProvisionSerial /\ Ownership /\ Locals
  BY DEF ProvisionSerial, Ownership, Locals
<1>3. Init => NewKeyPrivate /\ OldKeyHandled /\ RevokeProgress /\ RotationHolds
  BY DEF NewKeyPrivate, OldKeyHandled, RevokeProgress, RotationHolds
<1>4. Init => LiveKeysAccounted /\ StoredKeyLive /\ GatewayCurrent
  BY DEF LiveKeysAccounted, StoredKeyLive, GatewayCurrent
<1> QED
  BY <1>1, <1>2, <1>3, <1>4 DEF IInv

\* A step that changes nothing preserves everything.
LEMMA StutterStep == IInv /\ UNCHANGED vars => IInv'
<1> SUFFICES ASSUME IInv, UNCHANGED vars PROVE IInv'
  OBVIOUS
<1> USE DEF vars, keyVars, IInv
<1>1. TypeOK' /\ ProvisionSerial' /\ Ownership' /\ Locals'
  BY DEF TypeOK, ProvisionSerial, Ownership, Locals
<1>2. NewKeyPrivate' /\ OldKeyHandled' /\ RevokeProgress' /\ RotationHolds'
  BY DEF NewKeyPrivate, OldKeyHandled, RevokeProgress, RotationHolds
<1>3. LiveKeysAccounted' /\ StoredKeyLive' /\ GatewayCurrent'
  BY DEF LiveKeysAccounted, StoredKeyLive, GatewayCurrent
<1> QED
  BY <1>1, <1>2, <1>3

\* Every step preserves the inductive invariant.
LEMMA NextIInv == IInv /\ [Next]_vars => IInv'
<1> SUFFICES ASSUME IInv, [Next]_vars PROVE IInv'
  OBVIOUS
<1>1. CASE UNCHANGED vars
  BY <1>1, StutterStep
<1>2. ASSUME NEW p \in Procs, Request(p) PROVE IInv'
  BY <1>2, RequestStep DEF Request
<1>3. ASSUME NEW p \in Procs, Work(p) PROVE IInv'
  BY <1>3, LookupStep, DropStep, GenerateStep, StoreStep, UpCommitStep,
     RevokeMoveStep, RevokeDropStep, RevokeForgetStep
  DEF Work
<1>4. ASSUME NEW p \in Procs, Fault(p) PROVE IInv'
  BY <1>4, DropStep, GenerateStep, StoreStep, AbortStep, RevokeMoveStep,
     RevokeDropStep
  DEF Fault
<1>5. ASSUME NEW r \in Runtimes, Gateway(r) PROVE IInv'
  BY <1>5, GatewayStep
<1> QED
  BY <1>1, <1>2, <1>3, <1>4, <1>5 DEF Next

\* The invariant everything below follows from.
THEOREM Invariance == Spec => []IInv
  BY InitIInv, NextIInv, PTL DEF Spec

\* Every variable of the key operations keeps its type.
THEOREM TypeCorrect == Spec => []TypeOK
<1>1. IInv => TypeOK
  BY DEF IInv
<1> QED
  BY <1>1, Invariance, PTL

\* Whatever fails and however operations interleave, a key that LiteLLM still
\* accepts is a runtime's secret, about to become one, or was let go of by a
\* step that failed or raced.
THEOREM NoKeyLost == Spec => []LiveKeysAccounted
<1>1. IInv => LiveKeysAccounted
  BY DEF IInv
<1> QED
  BY <1>1, Invariance, PTL

\* A runtime's secret is a key LiteLLM accepts, except while it is replaced
\* or after an operation broke off between the two services.
THEOREM SecretsLive == Spec => []StoredKeyLive
<1>1. IInv => StoredKeyLive
  BY DEF IInv
<1> QED
  BY <1>1, Invariance, PTL

\* A running gateway runs with its runtime's secret, except around the end of
\* a rotation.
THEOREM GatewaysCurrent == Spec => []GatewayCurrent
<1>1. IInv => GatewayCurrent
  BY DEF IInv
<1> QED
  BY <1>1, Invariance, PTL

\* SQLite's write lock makes provisioning a critical section: no two operations
\* are inside create_or_update_runtime.
THEOREM ProvisionsSerial == Spec => []ProvisionSerial
<1>1. IInv => ProvisionSerial
  BY DEF IInv
<1> QED
  BY <1>1, Invariance, PTL

\* Nothing but a revoke takes a rotation's key away before it has committed.
THEOREM RotationsIsolated == Spec => []RotationHolds
<1>1. IInv => RotationHolds
  BY DEF IInv
<1> QED
  BY <1>1, Invariance, PTL

\* A revoke that reports success has killed and removed the key it read, even
\* when rotations ran between its calls.
THEOREM RevokesVerified == Spec => RevokeVerified
<1>1. IInv /\ [Next]_vars =>
        [\A p \in Procs : pc[p] = "rv_save" /\ RevokeSave(p) =>
            seen[p] \notin live /\ stored[rt[p]] # seen[p]]_vars
  BY DEF IInv, RevokeProgress
<1> QED
  BY <1>1, Invariance, PTL DEF Spec, RevokeVerified

-----------------------------------------------------------------------------
(***************************************************************************)
(* RuntimeKeys implements KeyVault                                         *)
(***************************************************************************)

\* A step of create_or_update_runtime is a step of the vault, or is none of
\* its business; storing is allowed because the new key is live and owned by
\* the runtime (NewKeyPrivate, Ownership).
LEMMA CreateRefines ==
    ASSUME NEW p \in Procs, IInv,
           \/ Enter(p) \/ Lookup(p) \/ Drop(p) \/ Generate(p) \/ Store(p)
           \/ Up(p) \/ Commit(p) \/ Abort(p)
           \/ DropUnanswered(p) \/ GenerateUnanswered(p) \/ StoreUnanswered(p)
    PROVE  [Vault!Next]_(Vault!vaultVars)
<1> USE DEF Vault!Next, Vault!vaultVars, keyVars, runVars, CreateSteps
<1>1. rt[p] \in Runtimes \/ pc[p] = "idle"
  BY DEF IInv, Locals
<1>2. CASE Enter(p) \/ Lookup(p) \/ Commit(p) \/ Abort(p)
  BY <1>2 DEF Enter, Lookup, Commit, Abort
<1>3. CASE Drop(p) \/ DropUnanswered(p)
  <2>1. seen[p] \in Keys
    BY <1>3 DEF IInv, Locals, Drop, DropUnanswered
  <2>2. Vault!Kill(seen[p]) \/ UNCHANGED Vault!vaultVars
    BY <1>3 DEF Drop, DropUnanswered, Vault!Kill
  <2> QED
    BY <2>1, <2>2
<1>4. CASE Generate(p) \/ GenerateUnanswered(p)
  <2>1. PICK k \in Keys : Issue(p, k)
    BY <1>4 DEF Generate, GenerateUnanswered
  <2>2. Vault!Mint(rt[p], k)
    BY <1>4, <2>1 DEF Generate, GenerateUnanswered, Issue, Vault!Mint
  <2> QED
    BY <1>1, <1>4, <2>2 DEF Generate, GenerateUnanswered
<1>5. CASE Store(p) \/ StoreUnanswered(p)
  <2>1. /\ new[p] \in Keys
        /\ new[p] \in live
        /\ owner[new[p]] = rt[p]
    BY <1>5 DEF IInv, Locals, NewKeyPrivate, Ownership, Store, StoreUnanswered
  <2>2. Vault!Keep(rt[p], new[p])
    BY <1>5, <2>1 DEF Store, StoreUnanswered, Vault!Keep
  <2> QED
    BY <1>1, <1>5, <2>1, <2>2 DEF Store, StoreUnanswered
<1>6. CASE Up(p)
  <2>1. Vault!Quit(rt[p])
    BY <1>6 DEF Up, Vault!Quit
  <2> QED
    BY <1>1, <1>6, <2>1 DEF Up
<1> QED
  BY <1>2, <1>3, <1>4, <1>5, <1>6

\* A revoke kills a key and empties the secret.
LEMMA RevokeRefines ==
    ASSUME NEW p \in Procs, IInv,
           \/ RevokeLookup(p) \/ RevokeDrop(p) \/ RevokeForget(p)
           \/ RevokeSave(p) \/ RevokeFail(p) \/ RevokeDropUnanswered(p)
    PROVE  [Vault!Next]_(Vault!vaultVars)
<1> USE DEF Vault!Next, Vault!vaultVars, keyVars, runVars
<1>1. CASE RevokeLookup(p) \/ RevokeSave(p) \/ RevokeFail(p)
  BY <1>1 DEF RevokeLookup, RevokeSave, RevokeFail
<1>2. CASE RevokeDrop(p) \/ RevokeDropUnanswered(p)
  <2>1. seen[p] \in Keys
    BY <1>2 DEF IInv, Locals, RevokeDrop, RevokeDropUnanswered
  <2>2. Vault!Kill(seen[p])
    BY <1>2 DEF RevokeDrop, RevokeDropUnanswered, Vault!Kill
  <2> QED
    BY <2>1, <2>2
<1>3. CASE RevokeForget(p)
  <2>1. rt[p] \in Runtimes
    BY <1>3 DEF IInv, Locals, RevokeForget
  <2>2. Vault!Forget(rt[p])
    BY <1>3 DEF RevokeForget, Vault!Forget
  <2> QED
    BY <2>1, <2>2
<1> QED
  BY <1>1, <1>2, <1>3

\* A gateway takes up the secret of its runtime or loses its process.
LEMMA GatewayRefines ==
    ASSUME NEW r \in Runtimes, Gateway(r)
    PROVE  [Vault!Next]_(Vault!vaultVars)
<1> USE DEF Vault!Next, Vault!vaultVars, keyVars, runVars, procVars
<1>1. CASE StartGateway(r) \/ StopGateway(r) \/ GatewayExit(r)
  <2>1. Vault!Quit(r)
    BY <1>1 DEF StartGateway, StopGateway, GatewayExit, Vault!Quit
  <2> QED
    BY <2>1
<1>2. CASE Delete(r)
  <2>1. Vault!Quit(r) \/ UNCHANGED Vault!vaultVars
    BY <1>2 DEF Delete, Vault!Quit
  <2> QED
    BY <2>1
<1>3. CASE Boot(r)
  <2>1. Vault!Use(r)
    BY <1>3 DEF Boot, Vault!Use
  <2> QED
    BY <2>1
<1> QED
  BY <1>1, <1>2, <1>3 DEF Gateway

\* No failure and no interleaving of the key operations leaves what KeyVault
\* allows: a key serves the runtime it was generated for only, is live when it
\* is stored, and stays dead once it is dead.
THEOREM ImplementsVault == Spec => VaultSpec
<1>1. Init => Vault!Init
  BY DEF Init, Vault!Init
<1>2. ASSUME IInv, [Next]_vars PROVE [Vault!Next]_(Vault!vaultVars)
  <2>1. CASE UNCHANGED vars
    BY <2>1 DEF vars, keyVars, Vault!vaultVars
  <2>2. ASSUME NEW p \in Procs, Request(p)
        PROVE  UNCHANGED Vault!vaultVars
    BY <2>2 DEF Request, Create, Rotate, Revoke, keyVars, runVars,
                Vault!vaultVars
  <2>3. ASSUME NEW p \in Procs, Work(p) \/ Fault(p)
        PROVE  [Vault!Next]_(Vault!vaultVars)
    BY <1>2, <2>3, CreateRefines, RevokeRefines DEF Work, Fault
  <2>4. ASSUME NEW r \in Runtimes, Gateway(r)
        PROVE  [Vault!Next]_(Vault!vaultVars)
    BY <2>4, GatewayRefines
  <2> QED
    BY <1>2, <2>1, <2>2, <2>3, <2>4 DEF Next
<1> QED
  BY <1>1, <1>2, Invariance, PTL DEF Spec, VaultSpec, Vault!Spec

-----------------------------------------------------------------------------
(***************************************************************************)
(* Undisturbed operation                                                   *)
(*                                                                         *)
(* The safety properties name the keys and secrets an accident has left    *)
(* behind.  Without one, a runtime has one live key at most: the stored    *)
(* one, which its gateway uses.                                            *)
(***************************************************************************)

\* p has killed no key that is still stored, and made none that is not.
Harmless(p) == CutShort(p) = {} /\ pc[p] \notin {"store", "rv_forget"}

\* One operation at a time on a runtime; LiteLLM and Infisical answer, and an
\* operation breaks off only where it leaves nothing undone.
CalmNext ==
    \/ \E p \in Procs :
          \/ \E r \in Runtimes :
                /\ \A q \in Procs : rt[q] # r
                /\ Create(p, r) \/ Rotate(p, r) \/ Revoke(p, r)
          \/ Lookup(p) /\ seen'[p] = stored[rt[p]]
          \/ Drop(p) /\ seen[p] \notin live'
          \/ Enter(p) \/ Generate(p) \/ Store(p) \/ Up(p) \/ Commit(p)
          \/ RevokeLookup(p) \/ RevokeDrop(p) \/ RevokeForget(p) \/ RevokeSave(p)
          \/ Harmless(p) /\ (Abort(p) \/ RevokeFail(p))
    \/ \E r \in Runtimes : Gateway(r)

Undisturbed == Init /\ [][CalmNext]_vars

\* Of the keys made for a runtime nobody is at, LiteLLM accepts the stored one
\* and no other, and a running gateway has it.
AtRest ==
    \A r \in Runtimes : (\A p \in Procs : rt[p] # r) =>
        /\ {k \in live : owner[k] = r} = {stored[r]} \ {NoKey}
        /\ gateway[r] = "running" /\ stored[r] # NoKey => loaded[r] = stored[r]

\* Nothing has gone wrong, nobody is beside an operation, and a revoke has read
\* the key that is stored.
Calm ==
    /\ strays = {} /\ \A r \in Runtimes : debt[r] = {}
    /\ \A p, q \in Procs : pc[p] # "idle" /\ rt[p] = rt[q] => p = q
    /\ \A p \in Procs : pc[p] \in {"rv_drop", "rv_forget"} => stored[rt[p]] = seen[p]

\* Every step of undisturbed operation is one of the specification.
LEMMA CalmIsNext == CalmNext => Next
BY DEF CalmNext, Next, Request, Work, Fault

\* Every step of undisturbed operation keeps it so.
LEMMA CalmStep == IInv /\ Calm /\ [CalmNext]_vars => Calm'
<1> SUFFICES ASSUME IInv, Calm, [CalmNext]_vars PROVE Calm'
  OBVIOUS
<1> USE NullAssumption DEF Goto, keyVars, runVars, procVars
<1>0. TypeOK /\ Locals
  BY DEF IInv
<1>1. ASSUME NEW p \in Procs, NEW r \in Runtimes, \A q \in Procs : rt[q] # r,
             Create(p, r) \/ Rotate(p, r) \/ Revoke(p, r)
      PROVE  Calm'
  BY <1>0, <1>1 DEF Calm, TypeOK, Create, Rotate, Revoke
<1>2. ASSUME NEW p \in Procs, Lookup(p), seen'[p] = stored[rt[p]] PROVE Calm'
  <2>1. pc[p] = "lookup" /\ rt[p] \in Runtimes
    BY <1>0, <1>2 DEF Lookup, Locals
  <2>2. strays' = {}
    BY <1>0, <1>2, <2>1 DEF Calm, Lookup, Real, TypeOK
  <2> QED
    BY <1>0, <1>2, <2>2 DEF Calm, TypeOK, Lookup
<1>3. ASSUME NEW p \in Procs, Drop(p), seen[p] \notin live' PROVE Calm'
  <2>1. strays' = {}
    BY <1>3 DEF Calm, Drop
  <2> QED
    BY <1>0, <1>3, <2>1 DEF Calm, TypeOK, Drop
<1>4. ASSUME NEW p \in Procs, Enter(p) \/ Generate(p) PROVE Calm'
  BY <1>0, <1>4 DEF Calm, TypeOK, Enter, Generate
<1>5. ASSUME NEW p \in Procs, Store(p) \/ Up(p) PROVE Calm'
  <2>1. rt[p] \in Runtimes /\ \A q \in Procs \ {p} : rt[q] # rt[p]
    BY <1>0, <1>5 DEF Calm, Locals, Store, Up
  <2>2. \A r \in Runtimes : debt'[r] = {}
    BY <1>0, <1>5 DEF Calm, TypeOK, Store, Up, Settle
  <2>3. ASSUME NEW q \in Procs, pc'[q] \in {"rv_drop", "rv_forget"}
        PROVE  stored'[rt'[q]] = seen'[q]
    <3>1. q # p /\ pc'[q] = pc[q] /\ rt'[q] = rt[q] /\ seen'[q] = seen[q]
      BY <1>0, <1>5, <2>3 DEF TypeOK, Store, Up
    <3>2. rt[q] \in Runtimes /\ stored'[rt[q]] = stored[rt[q]]
      BY <1>0, <1>5, <2>1, <2>3, <3>1 DEF TypeOK, Locals, Store, Up
    <3> QED
      BY <2>3, <3>1, <3>2 DEF Calm
  <2>4. \A q, s \in Procs : pc'[q] # "idle" /\ rt'[q] = rt'[s] => q = s
    BY <1>0, <1>5 DEF Calm, TypeOK, Store, Up
  <2> QED
    BY <1>5, <2>1, <2>2, <2>3, <2>4 DEF Calm, Store, Up
<1>6. ASSUME NEW p \in Procs, Commit(p) \/ RevokeSave(p) PROVE Calm'
  BY <1>0, <1>6 DEF Calm, TypeOK, Locals, Commit, RevokeSave, Over
<1>7. ASSUME NEW p \in Procs, RevokeLookup(p) \/ RevokeDrop(p) PROVE Calm'
  BY <1>0, <1>7 DEF Calm, TypeOK, RevokeLookup, RevokeDrop
<1>8. ASSUME NEW p \in Procs, RevokeForget(p) PROVE Calm'
  <2>1. rt[p] \in Runtimes /\ \A q \in Procs \ {p} : rt[q] # rt[p]
    BY <1>0, <1>8 DEF Calm, Locals, RevokeForget
  <2>2. strays' = {}
    BY <1>8 DEF Calm, RevokeForget, Real
  <2>3. \A r \in Runtimes : debt'[r] = {}
    BY <1>0, <1>8 DEF Calm, TypeOK, RevokeForget, Settle
  <2>4. ASSUME NEW q \in Procs, pc'[q] \in {"rv_drop", "rv_forget"}
        PROVE  stored'[rt'[q]] = seen'[q]
    <3>1. q # p /\ pc'[q] = pc[q] /\ rt'[q] = rt[q] /\ seen'[q] = seen[q]
      BY <1>0, <1>8, <2>4 DEF TypeOK, RevokeForget
    <3>2. rt[q] \in Runtimes /\ stored'[rt[q]] = stored[rt[q]]
      BY <1>0, <1>8, <2>1, <2>4, <3>1 DEF TypeOK, Locals, RevokeForget
    <3> QED
      BY <2>4, <3>1, <3>2 DEF Calm
  <2>5. \A q, s \in Procs : pc'[q] # "idle" /\ rt'[q] = rt'[s] => q = s
    BY <1>0, <1>8 DEF Calm, TypeOK, RevokeForget
  <2> QED
    BY <1>8, <2>1, <2>2, <2>3, <2>4, <2>5 DEF Calm, RevokeForget
<1>9. ASSUME NEW p \in Procs, Harmless(p), Abort(p) \/ RevokeFail(p) PROVE Calm'
  <2>1. strays' = {}
    BY <1>9 DEF Calm, Harmless, Abort, RevokeFail
  <2>2. \A r \in Runtimes : debt'[r] = {}
    BY <1>0, <1>9 DEF Calm, TypeOK, Harmless, Abort, RevokeFail, Owe
  <2> QED
    BY <1>0, <1>9, <2>1, <2>2 DEF Calm, TypeOK, Locals, Abort, RevokeFail, Rollback, Over
<1>10. ASSUME NEW r \in Runtimes, Gateway(r) PROVE Calm'
  <2>1. \A s \in Runtimes : debt'[s] = {}
    BY <1>0, <1>10 DEF Calm, TypeOK, Gateway, StartGateway, StopGateway, Delete, Boot,
        GatewayExit, Settle
  <2> QED
    BY <1>10, <2>1 DEF Calm, Gateway, StartGateway, StopGateway, Delete, Boot, GatewayExit
<1>11. CASE UNCHANGED vars
  BY <1>11 DEF Calm, vars
<1> QED
  BY <1>1, <1>2, <1>3, <1>4, <1>5, <1>6, <1>7, <1>8, <1>9, <1>10, <1>11 DEF CalmNext

\* While LiteLLM and Infisical answer, a runtime has one operation at a time, and
\* none breaks off between a call and what has to follow it, a runtime nobody is
\* at has one live key or none, it is the stored one, and its gateway has it: the
\* exceptions of LiveKeysAccounted, StoredKeyLive and GatewayCurrent all have an
\* accident for a cause.
THEOREM UndisturbedAgrees == Undisturbed => []AtRest
<1>1. Init => Calm
  BY DEF Init, Calm
<1>2. IInv /\ Calm => AtRest
  <2> SUFFICES ASSUME IInv, Calm, NEW r \in Runtimes, \A p \in Procs : rt[p] # r
               PROVE  /\ {k \in live : owner[k] = r} = {stored[r]} \ {NoKey}
                      /\ gateway[r] = "running" /\ stored[r] # NoKey => loaded[r] = stored[r]
    BY DEF AtRest
  <2>1. stored[r] # NoKey => stored[r] \in live /\ owner[stored[r]] = r
    BY DEF IInv, TypeOK, StoredKeyLive, Ownership, Calm
  <2>2. ASSUME NEW k \in live, owner[k] = r PROVE k = stored[r] /\ k # NoKey
    <3>1. k \in Keys /\ k \notin strays
      BY DEF IInv, TypeOK, Calm
    <3>2. ~ \E p \in Procs : pc[p] = "store" /\ new[p] = k
      BY <2>2, <3>1 DEF IInv, Ownership
    <3> QED
      BY <2>2, <3>1, <3>2, NullAssumption DEF IInv, LiveKeysAccounted
  <2>3. gateway[r] = "running" /\ stored[r] # NoKey => loaded[r] = stored[r]
    BY DEF IInv, GatewayCurrent, Calm
  <2> QED
    BY <2>1, <2>2, <2>3
<1>3. [CalmNext]_vars => [Next]_vars
  BY CalmIsNext
<1> QED
  BY InitIInv, NextIInv, CalmStep, <1>1, <1>2, <1>3, PTL DEF Undisturbed

-----------------------------------------------------------------------------
(***************************************************************************)
(* What the vault promises, and RuntimeKeys with it                        *)
(***************************************************************************)

VaultType ==
    /\ owner \in [Keys -> Runtimes \cup {NoRuntime}]
    /\ live \subseteq Keys
    /\ stored \in [Runtimes -> Keys \cup {NoKey}]
    /\ loaded \in [Runtimes -> Keys \cup {NoKey}]

\* A runtime stores and uses keys of its own only, and every key that LiteLLM
\* accepts is somebody's.
KeysPrivate ==
    /\ \A r \in Runtimes : stored[r] \in Keys => owner[stored[r]] = r
    /\ \A r \in Runtimes : loaded[r] \in Keys => owner[loaded[r]] = r
    /\ \A k \in live : owner[k] \in Runtimes

\* A key never changes hands; once LiteLLM rejects it, it is not accepted again,
\* no runtime stores it anew, and none takes it up that has not stored it.
KeysFinal ==
    \A k \in Keys : owner[k] # NoRuntime =>
        /\ owner'[k] = owner[k]
        /\ k \notin live =>
              /\ k \notin live'
              /\ \A r \in Runtimes :
                    /\ stored'[r] = k => stored[r] = k
                    /\ loaded'[r] = k => k \in {loaded[r], stored[r]}

\* The vault's steps keep types and privacy.
LEMMA VaultStep ==
    VaultType /\ KeysPrivate /\ [Vault!Next]_(Vault!vaultVars) => (VaultType /\ KeysPrivate)'
<1> SUFFICES ASSUME VaultType, KeysPrivate, [Vault!Next]_(Vault!vaultVars)
             PROVE  (VaultType /\ KeysPrivate)'
  OBVIOUS
<1> USE NullAssumption DEF VaultType, KeysPrivate
<1>1. ASSUME NEW k \in Keys, Vault!Kill(k) PROVE (VaultType /\ KeysPrivate)'
  BY <1>1 DEF Vault!Kill
<1>2. ASSUME NEW r \in Runtimes, NEW k \in Keys, Vault!Mint(r, k)
      PROVE  (VaultType /\ KeysPrivate)'
  <2>1. /\ \A s \in Runtimes : stored[s] # k /\ loaded[s] # k
        /\ owner' = [owner EXCEPT ![k] = r] /\ live' = live \cup {k}
        /\ stored' = stored /\ loaded' = loaded
    BY <1>2 DEF Vault!Mint
  <2> QED
    BY <2>1
<1>3. ASSUME NEW r \in Runtimes, NEW k \in Keys, Vault!Keep(r, k)
      PROVE  (VaultType /\ KeysPrivate)'
  BY <1>3 DEF Vault!Keep
<1>4. ASSUME NEW r \in Runtimes, Vault!Forget(r) \/ Vault!Use(r) \/ Vault!Quit(r)
      PROVE  (VaultType /\ KeysPrivate)'
  BY <1>4 DEF Vault!Forget, Vault!Use, Vault!Quit
<1>5. CASE UNCHANGED Vault!vaultVars
  BY <1>5 DEF Vault!vaultVars
<1> QED
  BY <1>1, <1>2, <1>3, <1>4, <1>5 DEF Vault!Next

\* They revive no key and hand none over.
LEMMA VaultFinal ==
    VaultType /\ [Vault!Next]_(Vault!vaultVars) => KeysFinal
<1> SUFFICES ASSUME VaultType, [Vault!Next]_(Vault!vaultVars),
                    NEW k \in Keys, owner[k] # NoRuntime
             PROVE  /\ owner'[k] = owner[k]
                    /\ k \notin live =>
                          /\ k \notin live'
                          /\ \A r \in Runtimes :
                                /\ stored'[r] = k => stored[r] = k
                                /\ loaded'[r] = k => k \in {loaded[r], stored[r]}
  BY DEF KeysFinal
<1> USE NullAssumption DEF VaultType
<1>1. ASSUME NEW c \in Keys, Vault!Kill(c) PROVE owner' = owner /\ live' \subseteq live
                                                 /\ stored' = stored /\ loaded' = loaded
  BY <1>1 DEF Vault!Kill
<1>2. ASSUME NEW r \in Runtimes, NEW c \in Keys, Vault!Mint(r, c)
      PROVE  /\ c # k /\ owner'[k] = owner[k] /\ (k \in live' => k \in live)
             /\ stored' = stored /\ loaded' = loaded
  BY <1>2 DEF Vault!Mint
<1>3. ASSUME NEW r \in Runtimes, NEW c \in Keys, Vault!Keep(r, c)
      PROVE  /\ owner' = owner /\ live' = live /\ loaded' = loaded
             /\ \A s \in Runtimes : stored'[s] = k => stored[s] = k \/ k \in live
  BY <1>3 DEF Vault!Keep
<1>4. ASSUME NEW r \in Runtimes, Vault!Forget(r) \/ Vault!Use(r) \/ Vault!Quit(r)
      PROVE  /\ owner' = owner /\ live' = live
             /\ \A s \in Runtimes : /\ stored'[s] = k => stored[s] = k
                                    /\ loaded'[s] = k => k \in {loaded[s], stored[s]}
  BY <1>4 DEF Vault!Forget, Vault!Use, Vault!Quit
<1>5. CASE UNCHANGED Vault!vaultVars
  BY <1>5 DEF Vault!vaultVars
<1> QED
  BY <1>1, <1>2, <1>3, <1>4, <1>5 DEF Vault!Next

\* Whatever happens to the calls of the key operations, a runtime stores and uses
\* keys of its own only: RuntimeKeys implements the vault, and the vault does
\* (provision, rotate, revoke and up of service_layer.py).
THEOREM VaultPrivate == Spec => []KeysPrivate
<1>1. Vault!Init => VaultType /\ KeysPrivate
  BY NullAssumption DEF Vault!Init, VaultType, KeysPrivate
<1>2. VaultSpec => [](VaultType /\ KeysPrivate)
  BY <1>1, VaultStep, PTL DEF VaultSpec, Vault!Spec
<1> QED
  BY <1>2, ImplementsVault, PTL

\* A key never changes hands, and one that LiteLLM has rejected is never accepted,
\* stored or taken up again (revoke, rotate and a failed provision of
\* service_layer.py).
THEOREM VaultLasting == Spec => [][KeysFinal]_vars
<1>1. Vault!Init => VaultType /\ KeysPrivate
  BY NullAssumption DEF Vault!Init, VaultType, KeysPrivate
<1>2. VaultSpec => [](VaultType /\ KeysPrivate)
  BY <1>1, VaultStep, PTL DEF VaultSpec, Vault!Spec
<1>3. VaultType /\ [Vault!Next]_(Vault!vaultVars) => [KeysFinal]_vars
  BY VaultFinal
<1>4. VaultSpec => [][Vault!Next]_(Vault!vaultVars)
  BY PTL DEF VaultSpec, Vault!Spec
<1> QED
  BY <1>2, <1>3, <1>4, ImplementsVault, PTL

=============================================================================

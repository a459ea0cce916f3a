------------------------- MODULE ReleaseHostProofs -------------------------
(***************************************************************************)
(* What createTrustedOracleReleaseHost adds to the executor, for every     *)
(* blueprint and every number of callers: a call enters on the run its     *)
(* policy saw, and reconciles nobody else's operation.  The executor's own *)
(* invariant holds through the host too, other writers included.  Then     *)
(* what holds of the blueprint of Beta80 with its capabilities.            *)
(***************************************************************************)
EXTENDS Beta80, ReleaseExecutorProofs

\* The call is in activeRuns.
Busy(c) == snapshot[c] # NoSnapshot \/ call[c].pc # "idle"

\* What a waiting call was admitted on is not from the future, and is current while last_seq
\* stands.
SnapshotHolds(c) ==
    snapshot[c] # NoSnapshot =>
        /\ snapshot[c].seq \in Nat /\ snapshot[c].seq <= lastSeq
        /\ snapshot[c].seq = lastSeq => snapshot[c].run = Visible

\* The operation a call is about is still the ambiguous one.
ReconcilesOwn(c) == call[c].pc \in Ambiguous => LatestIs(call[c].step, "outcome_unknown")

\* The inductive invariant: one call at a time.
HostInv ==
    /\ ExecInv
    /\ snapshot = [c \in Callers |-> snapshot[c]]
    /\ \A c \in Callers : SnapshotHolds(c)
    /\ \A c, d \in Callers : Busy(c) /\ Busy(d) => c = d
    /\ \A c \in Callers : ReconcilesOwn(c)

\* One step of a call in progress is its own, and it turns to an ambiguous operation only.
LEMMA ProceedIsOwn ==
    ASSUME ExecInv, NEW c \in Callers, Proceed(c),
           ReconcilesOwn(c)
    PROVE  /\ call[c].pc # "idle"
           /\ \A d \in Callers \ {c} : call'[d] = call[d]
           /\ ReconcilesOwn(c)'
  <1>1. call \in [Callers -> Calls]
    BY Zenon DEF ExecInv, ExecTypeOK
  <1>2. CASE \/ Stop(c) \/ Denied(c) \/ AlreadyCompleted(c) \/ BeginRefused(c) \/ ExecuteUnknown(c)
             \/ ExecuteFailed(c) \/ ReconcileUnknown(c) \/ ReconcileRefused(c) \/ NoGateToResolve(c)
             \/ GateBlocked(c) \/ PassGate(c)
    <2>1. Return(c) \/ NextPass(c)
      BY <1>2, Zenon DEF Stop, Denied, AlreadyCompleted, BeginRefused, ExecuteUnknown, ExecuteFailed,
         ReconcileUnknown, ReconcileRefused, NoGateToResolve, GateBlocked, PassGate
    <2>2. call[c].pc # "idle"
      BY <1>2, Zenon DEF Stop, Denied, AlreadyCompleted, BeginRefused, ExecuteUnknown, ExecuteFailed,
         ReconcileUnknown, ReconcileRefused, NoGateToResolve, GateBlocked, PassGate, Runs
    <2>3. PICK x \in Calls : x.pc \in {"idle", "loop"} /\ call' = [call EXCEPT ![c] = x]
      BY <2>1, RestingCalls, Zenon DEF ExecInv
    <2> QED BY <1>1, <2>2, <2>3, Zenon DEF Ambiguous, ReconcilesOwn
  <1>3. CASE Begin(c) \/ Dispatch(c) \/ Reconciled(c) \/ ReconcileReplayed(c)
    <2>1. call[c].pc # "idle"
      BY <1>3, Zenon DEF Begin, Dispatch, Reconciled, ReconcileReplayed, Runs
    <2>2. Goto(c, "executing") \/ Goto(c, "dispatched") \/ Goto(c, "gate") \/ Return(c)
      BY <1>3, Zenon DEF Begin, Dispatch, Reconciled, ReconcileReplayed
    <2>3. {"executing", "dispatched", "gate"} \subseteq Pcs
      BY Zenon DEF Pcs, Executing
    <2>4. PICK x \in Calls : /\ x.pc \in {"executing", "dispatched", "gate", "idle", "loop"}
                             /\ call' = [call EXCEPT ![c] = x]
      BY <2>2, <2>3, RestingCalls DEF ExecInv
    <2> QED BY <1>1, <2>1, <2>4, Zenon DEF Ambiguous, ReconcilesOwn
  <1>4. CASE StartAuthorize(c) \/ \E kinds \in ProvidedKinds : ExecuteSucceeded(c, kinds)
    <2>1. call[c].pc # "idle"
      BY <1>4, Zenon DEF StartAuthorize, ExecuteSucceeded, Runs
    <2>2. /\ call'[c].pc \in {"authorizing", "gate"}
          /\ \A d \in Callers \ {c} : call'[d] = call[d]
      BY <1>1, <1>4 DEF StartAuthorize, ExecuteSucceeded, Calls
    <2> QED BY <2>1, <2>2, Zenon DEF Ambiguous, ReconcilesOwn
  <1>5. CASE StartReconcile(c)
    <2>1. call[c].pc # "idle" /\ UNCHANGED attempts
      BY <1>5, Zenon DEF StartReconcile, Runs, vars
    <2>2. PICK s \in PendingOperations :
            /\ stepStatus[s] = "outcome_unknown"
            /\ call' = [call EXCEPT ![c].pc = "reconciling", ![c].step = s]
      BY <1>5, Zenon DEF StartReconcile, FirstOf
    <2>3. /\ call'[c].step = s
          /\ \A d \in Callers \ {c} : call'[d] = call[d]
      BY <1>1, <2>2, Zenon DEF Calls
    <2>4. attempts[s] # <<>> /\ "outcome_unknown" = StepStatusOf(Latest(s))
      BY <2>2, Zenon DEF ExecInv, IInv, StepMatchesAttempt, PendingOperations
    <2>5. Latest(s) = "outcome_unknown"
      BY <2>4, Zenon DEF StepStatusOf
    <2>6. LatestIs(s, "outcome_unknown")'
      BY <2>1, <2>4, <2>5 DEF LatestIs, Latest
    <2> QED BY <2>1, <2>3, <2>6, Zenon DEF ReconcilesOwn, LatestIs, Latest
  <1>6. CASE \E obs \in {"applied", "not_applied"}, kinds \in ProvidedKinds : Observe(c, obs, kinds)
    <2>1. call[c].pc = "reconciling" /\ UNCHANGED attempts
      BY <1>6, Zenon DEF Observe, Runs, vars
    <2>2. /\ call'[c].step = call[c].step
          /\ \A d \in Callers \ {c} : call'[d] = call[d]
      BY <1>1, <1>6 DEF Observe, Calls
    <2>3. LatestIs(call[c].step, "outcome_unknown")
      BY <2>1, Zenon DEF Ambiguous, ReconcilesOwn
    <2> QED BY <2>1, <2>2, <2>3, Zenon DEF LatestIs, Latest, ReconcilesOwn
  <1> QED BY <1>2, <1>3, <1>4, <1>5, <1>6 DEF Proceed

\* A step of the ledger keeps what a waiting call was admitted on.
LEMMA SnapshotKept ==
    ASSUME TypeOK, TypeOK', [Next]_vars, NEW c \in Callers, SnapshotHolds(c), snapshot'[c] = snapshot[c]
    PROVE  SnapshotHolds(c)'
  <1>1. lastSeq \in Nat /\ lastSeq' \in Nat
    BY Zenon DEF TypeOK
  <1>2. CASE Next
    <2>1. lastSeq' > lastSeq
      BY <1>2, SeqAdvances, Zenon
    <2> QED BY <1>1, <2>1 DEF SnapshotHolds
  <1>3. CASE UNCHANGED vars
    BY <1>3, Zenon DEF SnapshotHolds, vars, Visible
  <1> QED BY <1>2, <1>3, Zenon

\* Every step of the host, the other writer's included, is a step of the ledger, and keeps
\* the executor's invariant.
LEMMA HostKeepsExecInv ==
    ASSUME ExecInv, [HostNext]_hostVars
    PROVE  [Next]_vars /\ ExecInv'
  <1>1. CASE OtherWriter
    <2>1. Next /\ UNCHANGED <<stepStatus, reconciliations, call, effects, up>>
      BY <1>1, Zenon DEF OtherWriter, Next, StartRun, stepVars, execVars
    <2>2. IInv'
      BY <2>1, LedgerStep, Zenon DEF ExecInv
    <2>3. ExecPart'
      BY <2>1, NothingMoved, Zenon DEF ExecInv, ExecPart
    <2> QED BY <2>1, <2>2, <2>3, Zenon DEF ExecInv, ExecPart
  <1>2. CASE ~ OtherWriter
    <2>1. [ExecNext]_allVars
      BY <1>2, Zenon DEF HostNext, hostVars, HostAdvance, HostRefuses, HostAdmits, HostCrash, ExecNext
    <2> QED BY <2>1, StepOfLedger, ExecStepInv, Zenon DEF ExecInv
  <1> QED BY <1>1, <1>2, Zenon

\* Steps without a call of their own: each call is as it was, or gone.
LEMMA QuietStep ==
    ASSUME HostInv, [HostNext]_hostVars,
           /\ snapshot' = [c \in Callers |-> snapshot'[c]]
           /\ \A c \in Callers : \/ call'[c] = call[c] /\ snapshot'[c] = snapshot[c]
                                 \/ call'[c].pc = "idle" /\ snapshot'[c] = NoSnapshot,
           \A c \in Callers : call'[c].pc = "idle" \/ UNCHANGED attempts
    PROVE  HostInv'
  <1>1. [Next]_vars /\ ExecInv' /\ TypeOK /\ TypeOK'
    BY HostKeepsExecInv, Zenon DEF HostInv, ExecInv, IInv
  <1>2. \A c \in Callers : SnapshotHolds(c)'
    <2> SUFFICES ASSUME NEW c \in Callers
                 PROVE  SnapshotHolds(c)'
      BY Zenon
    <2>1. CASE snapshot'[c] = NoSnapshot
      BY <2>1, Zenon DEF SnapshotHolds
    <2>2. CASE snapshot'[c] = snapshot[c]
      BY <1>1, <2>2, SnapshotKept, Zenon DEF HostInv
    <2> QED BY <2>1, <2>2, Zenon
  <1>3. \A c, d \in Callers : (Busy(c) /\ Busy(d))' => c = d
    <2>1. \A c \in Callers : Busy(c)' => Busy(c)
      BY Zenon DEF Busy
    <2> QED BY <2>1, Zenon DEF HostInv
  <1>4. \A c \in Callers : ReconcilesOwn(c)'
    BY DEF HostInv, ReconcilesOwn, Ambiguous, LatestIs, Latest
  <1> QED BY <1>1, <1>2, <1>3, <1>4, Zenon DEF HostInv

\* A step of one call, when every call in progress is that one.
LEMMA LoneStep ==
    ASSUME HostInv, [HostNext]_hostVars, NEW c \in Callers,
           snapshot' = [d \in Callers |-> snapshot'[d]],
           \A d \in Callers \ {c} : ~ Busy(d) /\ call'[d] = call[d] /\ snapshot'[d] = snapshot[d],
           SnapshotHolds(c)', ReconcilesOwn(c)'
    PROVE  HostInv'
  <1>1. ExecInv'
    BY HostKeepsExecInv, Zenon DEF HostInv
  <1>2. \A d \in Callers \ {c} : snapshot'[d] = NoSnapshot /\ call'[d].pc = "idle"
    BY DEF Busy
  <1>3. \A d \in Callers : SnapshotHolds(d)' /\ ReconcilesOwn(d)'
    BY <1>2, Zenon DEF SnapshotHolds, ReconcilesOwn, Ambiguous
  <1>4. \A d \in Callers \ {c} : ~ Busy(d)'
    BY <1>2, Zenon DEF Busy
  <1>5. \A d, e \in Callers : (Busy(d) /\ Busy(e))' => d = e
    BY <1>4, Zenon
  <1> QED BY <1>1, <1>3, <1>5, Zenon DEF HostInv

\* What the entry of advance() does to the calls.
LEMMA AdvanceEnters ==
    ASSUME ExecInv, NEW c \in Callers, Advance(c)
    PROVE  call'[c].pc = "loop" /\ \A d \in Callers \ {c} : call'[d] = call[d]
  <1>1. "loop" \in Pcs /\ Goto(c, "loop") /\ call \in [Callers -> Calls]
    BY Zenon DEF Advance, Pcs, ExecInv, ExecTypeOK
  <1>2. PICK x \in Calls : x.pc = "loop" /\ x.step = call[c].step /\ call' = [call EXCEPT ![c] = x]
    BY <1>1, RestingCalls, Zenon DEF ExecInv
  <1> QED BY <1>1, <1>2, Zenon

\* Every step of the host keeps its invariant.
LEMMA HostStepInv == HostInv /\ [HostNext]_hostVars => HostInv'
  <1> SUFFICES ASSUME HostInv, [HostNext]_hostVars
               PROVE  HostInv'
    BY Zenon
  <1>1. \/ UNCHANGED hostVars
        \/ Create /\ UNCHANGED snapshot
        \/ OtherWriter
        \/ HostCrash
        \/ Restart /\ UNCHANGED snapshot
        \/ WorldStep /\ UNCHANGED snapshot
        \/ \E c \in Callers : \/ HostAdvance(c)
                              \/ HostRefuses(c)
                              \/ HostAdmits(c)
                              \/ Proceed(c) /\ UNCHANGED snapshot
    BY Zenon DEF HostNext
  <1>2. CASE \/ UNCHANGED hostVars
             \/ Create /\ UNCHANGED snapshot
             \/ OtherWriter
             \/ WorldStep /\ UNCHANGED snapshot
    <2>1. UNCHANGED <<call, snapshot, attempts>>
      BY <1>2, Zenon DEF hostVars, allVars, vars, execVars, Create, CreateRun, OtherWriter, StartRun, stepVars,
         WorldStep, Settle
    <2> QED BY <2>1, QuietStep, Zenon DEF HostInv
  <1>3. CASE HostCrash
    <2>1. \A c \in Callers : call'[c].pc = "idle" /\ snapshot'[c] = NoSnapshot
      BY <1>3, Zenon DEF HostCrash, Crash, NoCall
    <2>2. snapshot' = [c \in Callers |-> snapshot'[c]]
      BY <1>3, Zenon DEF HostCrash
    <2> QED BY <2>1, <2>2, QuietStep, Zenon
  <1>4. CASE Restart /\ UNCHANGED snapshot
    <2>1. UNCHANGED <<call, snapshot>> /\ \A c \in Callers : call[c].pc = "idle"
      BY <1>4, Zenon DEF Restart, HostInv, ExecInv, CallsAgree
    <2> QED BY <2>1, QuietStep, Zenon DEF HostInv
  <1>5. ASSUME NEW c \in Callers, HostAdvance(c)
        PROVE  HostInv'
    <2>1. /\ UNCHANGED allVars /\ call[c].pc = "idle"
          /\ \A d \in Callers : ~ Busy(d)
          /\ snapshot' = [snapshot EXCEPT ![c] = [seq |-> lastSeq, run |-> Visible]]
      BY <1>5, Zenon DEF HostAdvance, Runs, ActiveRun, Busy
    <2>2. UNCHANGED <<call, lastSeq, Visible>> /\ lastSeq \in Nat
      BY <2>1, Zenon DEF allVars, vars, execVars, Visible, HostInv, ExecInv, IInv, TypeOK
    <2>3. /\ snapshot'[c] = [seq |-> lastSeq, run |-> Visible]
          /\ \A d \in Callers \ {c} : snapshot'[d] = snapshot[d]
          /\ snapshot' = [d \in Callers |-> snapshot'[d]]
      BY <2>1, Zenon DEF HostInv
    <2>4. SnapshotHolds(c)'
      BY <2>2, <2>3 DEF SnapshotHolds
    <2>5. ReconcilesOwn(c)'
      BY <2>1, <2>2, Zenon DEF ReconcilesOwn, Ambiguous
    <2> QED BY <2>1, <2>2, <2>3, <2>4, <2>5, LoneStep, Zenon
  <1>6. ASSUME NEW c \in Callers, HostRefuses(c)
        PROVE  HostInv'
    <2>1. /\ UNCHANGED <<call, attempts>> /\ call[c].pc = "idle"
          /\ snapshot' = [snapshot EXCEPT ![c] = NoSnapshot]
      BY <1>6, Zenon DEF HostRefuses, Runs, allVars, vars, execVars
    <2>2. /\ snapshot'[c] = NoSnapshot
          /\ \A d \in Callers \ {c} : snapshot'[d] = snapshot[d]
          /\ snapshot' = [d \in Callers |-> snapshot'[d]]
      BY <2>1, Zenon DEF HostInv
    <2> QED BY <2>1, <2>2, QuietStep, Zenon
  <1>7. ASSUME NEW c \in Callers, HostAdmits(c)
        PROVE  HostInv'
    <2>1. \A d \in Callers \ {c} : ~ Busy(d)
      BY <1>7, Zenon DEF HostAdmits, HostInv, Busy
    <2>2. /\ snapshot'[c] = NoSnapshot
          /\ \A d \in Callers \ {c} : snapshot'[d] = snapshot[d]
          /\ snapshot' = [d \in Callers |-> snapshot'[d]]
      BY <1>7, Zenon DEF HostAdmits, HostInv
    <2>3. call'[c].pc = "loop" /\ \A d \in Callers \ {c} : call'[d] = call[d]
      BY <1>7, AdvanceEnters, Zenon DEF HostAdmits, HostInv
    <2>4. SnapshotHolds(c)' /\ ReconcilesOwn(c)'
      BY <2>2, <2>3, Zenon DEF SnapshotHolds, ReconcilesOwn, Ambiguous
    <2> QED BY <2>1, <2>2, <2>3, <2>4, LoneStep, Zenon
  <1>8. ASSUME NEW c \in Callers, Proceed(c), UNCHANGED snapshot
        PROVE  HostInv'
    <2>1. /\ call[c].pc # "idle" /\ ReconcilesOwn(c)'
          /\ \A d \in Callers \ {c} : call'[d] = call[d]
      BY <1>8, ProceedIsOwn, Zenon DEF HostInv
    <2>2. \A d \in Callers \ {c} : ~ Busy(d)
      BY <2>1, Zenon DEF HostInv, Busy
    <2>3. [Next]_vars /\ TypeOK /\ TypeOK'
      BY HostKeepsExecInv, Zenon DEF HostInv, ExecInv, IInv
    <2>4. SnapshotHolds(c)'
      BY <1>8, <2>3, SnapshotKept, Zenon DEF HostInv
    <2>5. snapshot' = [d \in Callers |-> snapshot'[d]]
      BY <1>8, Zenon DEF HostInv
    <2> QED BY <1>8, <2>1, <2>2, <2>4, <2>5, LoneStep
  <1> QED BY <1>1, <1>2, <1>3, <1>4, <1>5, <1>6, <1>7, <1>8
------------------------------------------------------------------------------
(* The theorems.                                                           *)

\* The inductive invariant holds of every state the host reaches.
THEOREM HostInvariance == HostSpec => []HostInv
  <1>1. HostInit => HostInv
    <2> SUFFICES ASSUME HostInit
                 PROVE  HostInv
      BY Zenon
    <2>1. ExecInv
      BY ExecInitInv, Zenon DEF HostInit
    <2>2. /\ snapshot = [c \in Callers |-> NoSnapshot]
          /\ \A c \in Callers : call[c].pc = "idle"
      BY Zenon DEF HostInit, ExecInit, NoCall
    <2> QED BY <2>1, <2>2, Zenon DEF HostInv, SnapshotHolds, Busy, ReconcilesOwn, Ambiguous
  <1> QED BY <1>1, HostStepInv, PTL DEF HostSpec

\* Behind the host, another writer starting the run included, the external effect of a step
\* still takes place at most once, and a step succeeds only when it did.
THEOREM HostEffects == HostSpec => [](EffectsHappenOnce /\ SucceededEffectsHappened)
  BY HostInvariance, OnceFromInv, RealFromInv, PTL DEF HostInv

\* createTrustedOracleReleaseHost, with another writer in the process, uses the ledger only
\* through the ledger's operations.
THEOREM HostUsesLedger == HostSpec => Spec
  <1>1. HostInit => Init
    BY Zenon DEF HostInit, ExecInit
  <1>2. HostInv /\ [HostNext]_hostVars => [Next]_vars
    BY HostKeepsExecInv, Zenon DEF HostInv
  <1> QED BY <1>1, <1>2, HostInvariance, PTL DEF HostSpec, Spec

\* So what the ledger promises is promised of a release through the host: no attempt without
\* proof that the one before was not applied, no step before its dependencies and gates, no
\* gate passed unmeasured, no conclusion revised.
THEOREM HostKeepsLedger ==
    HostSpec => /\ [](RetryOnlyAfterProof /\ StartedStepsAreJustified /\ UnknownBlocksRun)
                /\ [](SucceededIsComplete /\ PassedGateIsMeasured)
                /\ ConclusionsAreFinal
  BY HostUsesLedger, AtMostOnce, Justified, UnknownBlocks, SuccessIsComplete, PassedIsMeasured,
     FinalConclusions, PTL

\* A release that the host reports as succeeded was carried out, every effect of it once.
THEOREM HostReleasesOnce == HostSpec => []ReleasedOnce
  BY HostInvariance, ReleasedFromInv, PTL DEF HostInv

\* Through the host, a call reconciles only the operation that is still ambiguous.
THEOREM OwnReconciliation == HostSpec => []ReconcilesOwnOperation
  <1>1. HostInv => ReconcilesOwnOperation
    BY Zenon DEF HostInv, ReconcilesOwn, ReconcilesOwnOperation, Ambiguous
  <1> QED BY <1>1, HostInvariance, PTL

\* The second comparison of last_seq is enough: a call enters the executor on exactly the run
\* its policy saw.
THEOREM EntersOnCurrentRun == HostSpec => AdmittedOnCurrentRun
  <1>1. HostInv /\ [HostNext]_hostVars =>
            [\A c \in Callers : Entering(c) => snapshot[c].run = Visible]_hostVars
    <2> SUFFICES ASSUME HostInv, HostNext, NEW c \in Callers, Entering(c)
                 PROVE  snapshot[c].run = Visible
      BY Zenon
    <2>1. call[c].pc = "idle" /\ call'[c].pc = "loop" /\ call'[c] # call[c]
      BY Zenon DEF Entering
    <2>2. ~ (Create \/ OtherWriter \/ Restart \/ WorldStep)
      BY <2>1, Zenon DEF Create, OtherWriter, Restart, WorldStep, Settle, execVars
    <2>3. ~ HostCrash
      BY <2>1 DEF HostCrash, Crash, NoCall
    <2>4. \A d \in Callers : ~ (HostAdvance(d) \/ HostRefuses(d))
      BY <2>1, Zenon DEF HostAdvance, HostRefuses, allVars, execVars
    <2>5. \A d \in Callers : ~ Proceed(d)
      BY <2>1, ProceedIsOwn, Zenon DEF HostInv
    <2>6. PICK d \in Callers : HostAdmits(d)
      BY <2>2, <2>3, <2>4, <2>5, Zenon DEF HostNext
    <2>7. d = c
      BY <2>1, <2>6, AdvanceEnters, Zenon DEF HostAdmits, HostInv
    <2> QED BY <2>6, <2>7, Zenon DEF HostAdmits, HostInv, SnapshotHolds
  <1> QED BY <1>1, HostInvariance, PTL DEF HostSpec, AdmittedOnCurrentRun
------------------------------------------------------------------------------
(* The blueprint of beta 80.                                               *)

\* The workflow is the blueprint, with the capabilities bound to it.
IsBeta80 ==
    /\ Steps = Beta80Steps /\ Order = Beta80Order /\ Gates = Beta80Gates
    /\ DependsOn = Beta80DependsOn /\ RequiredGates = Beta80RequiredGates
    /\ HealthGate = Beta80HealthGate /\ RequiredKinds = Beta80RequiredKinds
    /\ CapabilityOf = Beta80CapabilityOf /\ Provided = Beta80Provided

\* A step of the blueprint is defined where its id stands.
LEMMA DefinitionOf ==
    ASSUME IsBeta80, NEW i \in 1..Len(Blueprint)
    PROVE  /\ Blueprint[i].id \in Steps
           /\ DependsOn[Blueprint[i].id] = Blueprint[i].dependsOn
           /\ RequiredGates[Blueprint[i].id] = Blueprint[i].requiredGates
           /\ HealthGate[Blueprint[i].id] = Blueprint[i].healthGate
  <1> DEFINE id(j) == Blueprint[j].id
             n == Len(Blueprint)
             s == Blueprint[i].id
  <1>1. Beta80Order = [j \in 1..n |-> id(j)] /\ n \in Nat
    BY Zenon DEF Beta80Order, Blueprint
  <1>2. Len(Order) = n /\ \A j \in 1..n : Order[j] = id(j)
    BY <1>1 DEF IsBeta80
  <1>3. \A j \in 1..n : id(j) = s => j = i
    BY <1>2, ExecutorConstants, Zenon
  <1>4. (CHOOSE j \in 1..n : id(j) = s) = i
    BY <1>3, Zenon
  <1>5. Definition(s) = Blueprint[i]
    BY <1>4, Zenon DEF Definition
  <1>6. s \in Beta80Steps
    BY Zenon DEF Beta80Steps
  <1> QED BY <1>5, <1>6, Zenon DEF IsBeta80, Beta80DependsOn, Beta80RequiredGates, Beta80HealthGate

\* The same, for the step at a given ordinal.
LEMMA StepAt ==
    ASSUME IsBeta80, NEW i \in 1..19, NEW s, NEW D, NEW R, NEW h, Blueprint[i] = Step(s, D, R, h)
    PROVE  s \in Steps /\ DependsOn[s] = D /\ RequiredGates[s] = R /\ HealthGate[s] = h
  <1>1. i \in 1..Len(Blueprint)
    BY Zenon DEF Blueprint
  <1>2. /\ Blueprint[i].id = s /\ Blueprint[i].dependsOn = D /\ Blueprint[i].requiredGates = R
        /\ Blueprint[i].healthGate = h
    BY DEF Step
  <1> QED BY <1>1, <1>2, DefinitionOf, Zenon

\* What the blueprint demands before the two promotions.
LEMMA PromotionOrder ==
    ASSUME IsBeta80
    PROVE  /\ {"deploy_edge", "verify_edge_health", "prepare_oracle", "prepare_windows",
               "validate_oracle_candidate", "validate_windows_candidate", "promote_oracle",
               "verify_oracle_health", "promote_windows"} \subseteq Steps
           /\ {"validate_oracle_candidate", "validate_windows_candidate"} \subseteq DependsOn["promote_oracle"]
           /\ "prepare_oracle" \in DependsOn["validate_oracle_candidate"]
           /\ "prepare_windows" \in DependsOn["validate_windows_candidate"]
           /\ "verify_edge_health" \in DependsOn["prepare_oracle"]
           /\ "deploy_edge" \in DependsOn["verify_edge_health"]
           /\ "verify_oracle_health" \in DependsOn["promote_windows"]
           /\ "promote_oracle" \in DependsOn["verify_oracle_health"]
           /\ "oracle_healthy" \in RequiredGates["promote_windows"]
  <1>1. "deploy_edge" \in Steps
    <2>1. Blueprint[7] = Step("deploy_edge", {"verify_release_assets"}, {"signed_release_validated"}, NoGate)
      BY Zenon DEF Blueprint
    <2> QED BY <2>1, StepAt
  <1>2. "verify_edge_health" \in Steps /\ DependsOn["verify_edge_health"] = {"deploy_edge"}
    <2>1. Blueprint[8] = Step("verify_edge_health", {"deploy_edge"}, {}, "edge_healthy")
      BY Zenon DEF Blueprint
    <2> QED BY <2>1, StepAt
  <1>3. "prepare_oracle" \in Steps /\ DependsOn["prepare_oracle"] = {"verify_edge_health"}
    <2>1. Blueprint[9] = Step("prepare_oracle", {"verify_edge_health"}, {"edge_healthy"}, NoGate)
      BY Zenon DEF Blueprint
    <2> QED BY <2>1, StepAt
  <1>4. "prepare_windows" \in Steps /\ DependsOn["prepare_windows"] = {"verify_edge_health"}
    <2>1. Blueprint[10] = Step("prepare_windows", {"verify_edge_health"}, {"edge_healthy"}, NoGate)
      BY Zenon DEF Blueprint
    <2> QED BY <2>1, StepAt
  <1>5. "validate_oracle_candidate" \in Steps /\ DependsOn["validate_oracle_candidate"] = {"prepare_oracle"}
    <2>1. Blueprint[11] = Step("validate_oracle_candidate", {"prepare_oracle"}, {}, NoGate)
      BY Zenon DEF Blueprint
    <2> QED BY <2>1, StepAt
  <1>6. "validate_windows_candidate" \in Steps /\ DependsOn["validate_windows_candidate"] = {"prepare_windows"}
    <2>1. Blueprint[12] = Step("validate_windows_candidate", {"prepare_windows"}, {}, NoGate)
      BY Zenon DEF Blueprint
    <2> QED BY <2>1, StepAt
  <1>7. /\ "promote_oracle" \in Steps
        /\ DependsOn["promote_oracle"] = {"validate_oracle_candidate", "validate_windows_candidate"}
    <2>1. Blueprint[13] = Step("promote_oracle", {"validate_oracle_candidate", "validate_windows_candidate"},
                               {"signed_release_validated", "edge_healthy"}, NoGate)
      BY Zenon DEF Blueprint
    <2> QED BY <2>1, StepAt
  <1>8. "verify_oracle_health" \in Steps /\ DependsOn["verify_oracle_health"] = {"promote_oracle"}
    <2>1. Blueprint[14] = Step("verify_oracle_health", {"promote_oracle"}, {}, "oracle_healthy")
      BY Zenon DEF Blueprint
    <2> QED BY <2>1, StepAt
  <1>9. /\ "promote_windows" \in Steps
        /\ DependsOn["promote_windows"] = {"validate_windows_candidate", "verify_oracle_health"}
        /\ RequiredGates["promote_windows"] = {"oracle_healthy"}
    <2>1. Blueprint[15] = Step("promote_windows", {"validate_windows_candidate", "verify_oracle_health"},
                               {"oracle_healthy"}, NoGate)
      BY Zenon DEF Blueprint
    <2> QED BY <2>1, StepAt
  <1> QED BY <1>1, <1>2, <1>3, <1>4, <1>5, <1>6, <1>7, <1>8, <1>9

\* The steps that promote and prepare are effects in the world.
LEMMA PromotionsAreEffects ==
    ASSUME IsBeta80
    PROVE  {"deploy_edge", "prepare_oracle", "prepare_windows", "promote_oracle"} \subseteq External
  <1> DEFINE S == {"deploy_edge", "prepare_oracle", "prepare_windows", "promote_oracle"}
  <1>1. S \subseteq Steps
    BY PromotionOrder, Zenon
  <1>2. S \subseteq DOMAIN EffectKinds /\ S \cap DOMAIN VerificationKinds = {}
    BY Zenon DEF EffectKinds, VerificationKinds
  <1>3. ASSUME NEW s \in S
        PROVE  Beta80CapabilityOf[s] = ReleaseEffect
    BY <1>1, <1>2, <1>3, Zenon DEF Beta80CapabilityOf, IsBeta80
  <1> QED BY <1>1, <1>3 DEF External, ReleaseEffect, IsBeta80

\* Every measurement of a gate returns the evidence the gate requires.
EvidenceCovers ==
    \A s \in Steps : HealthGate[s] # NoGate =>
        \A kinds \in Provided[s] : RequiredKinds[HealthGate[s]] \subseteq kinds

\* REQUIRED_KINDS of bindReleaseVerificationReads covers requiredEvidenceKinds of the gates.
LEMMA BlueprintEvidence == ASSUME IsBeta80 PROVE EvidenceCovers
  <1>1. SUFFICES ASSUME NEW s \in Steps, HealthGate[s] # NoGate, NEW kinds \in Provided[s]
                 PROVE  RequiredKinds[HealthGate[s]] \subseteq kinds
    BY Zenon DEF EvidenceCovers
  <1>2. PICK i \in 1..19 : Blueprint[i].id = s
    BY Zenon DEF IsBeta80, Beta80Steps, Blueprint
  <1>3. i \in 1..Len(Blueprint)
    BY Zenon DEF Blueprint
  <1>4. HealthGate[s] = Blueprint[i].healthGate
    BY <1>2, <1>3, DefinitionOf, Zenon
  <1>5. i \in {6, 8, 14, 16}
    <2>1. \A j \in {1, 2, 3, 4} : Blueprint[j].healthGate = NoGate
      BY DEF Blueprint, Step
    <2>2. \A j \in {5, 7, 9, 10} : Blueprint[j].healthGate = NoGate
      BY DEF Blueprint, Step
    <2>3. \A j \in {11, 12, 13, 15} : Blueprint[j].healthGate = NoGate
      BY DEF Blueprint, Step
    <2>4. \A j \in {17, 18, 19} : Blueprint[j].healthGate = NoGate
      BY DEF Blueprint, Step
    <2>5. i \notin {1, 2, 3, 4} \cup {5, 7, 9, 10} \cup {11, 12, 13, 15} \cup {17, 18, 19}
      BY <1>1, <1>4, <2>1, <2>2, <2>3, <2>4
    <2> QED BY <2>5
  <1>6. \/ s = "verify_release_assets" /\ HealthGate[s] = "signed_release_validated"
        \/ s = "verify_edge_health" /\ HealthGate[s] = "edge_healthy"
        \/ s = "verify_oracle_health" /\ HealthGate[s] = "oracle_healthy"
        \/ s = "verify_windows_health" /\ HealthGate[s] = "windows_healthy"
    <2>1. /\ Blueprint[6].id = "verify_release_assets" /\ Blueprint[6].healthGate = "signed_release_validated"
          /\ Blueprint[8].id = "verify_edge_health" /\ Blueprint[8].healthGate = "edge_healthy"
      BY Zenon DEF Blueprint, Step
    <2>2. /\ Blueprint[14].id = "verify_oracle_health" /\ Blueprint[14].healthGate = "oracle_healthy"
          /\ Blueprint[16].id = "verify_windows_health" /\ Blueprint[16].healthGate = "windows_healthy"
      BY Zenon DEF Blueprint, Step
    <2> QED BY <1>2, <1>4, <1>5, <2>1, <2>2, Zenon
  <1>7. kinds = VerificationKinds[s]
    BY <1>6, Zenon DEF IsBeta80, Beta80Provided, VerificationKinds
  <1> QED BY <1>6, <1>7 DEF IsBeta80, Beta80RequiredKinds, VerificationKinds
------------------------------------------------------------------------------
(* The order of the promotions.                                            *)

\* What was dispatched was begun.
EffectsAreBegun == \A s \in Steps : effects[s] # <<>> => stepKey[s] # NoKey

\* The key of a step that was begun stays.
LEMMA KeysStay ==
    ASSUME TypeOK, [Next]_vars, NEW s \in Steps, stepKey[s] # NoKey
    PROVE  stepKey'[s] # NoKey
  <1>1. CASE \E t \in Steps : \E k \in StepKeys[t] : BeginStepAttempt(t, k)
    <2>1. PICK t \in Steps : \E k \in StepKeys[t] : BeginStepAttempt(t, k)
      BY <1>1, Zenon
    <2>2. PICK k \in StepKeys[t] : BeginStepAttempt(t, k)
      BY <2>1, Zenon
    <2>3. k # NoKey
      BY ConstantTypes, Zenon DEF Keys
    <2>4. stepKey' = [stepKey EXCEPT ![t] = k]
      BY <2>2, Zenon DEF BeginStepAttempt
    <2> QED BY <2>3, <2>4, Zenon DEF TypeOK
  <1>2. CASE ~ \E t \in Steps : \E k \in StepKeys[t] : BeginStepAttempt(t, k)
    <2>1. UNCHANGED stepKey
      BY <1>2 DEF Next, vars, CreateRun, StartRun, RecordStepOutcome, MarkOutcomeUnknown, ReconcileOperation,
         RecoverInterruptedOperations, ResolveHealthGate, stepVars
    <2> QED BY <2>1, Zenon
  <1> QED BY <1>1, <1>2, Zenon

\* Only a step that is in progress is dispatched.
LEMMA BegunStep == EffectsAreBegun /\ HostInv /\ [HostNext]_hostVars => EffectsAreBegun'
  <1> SUFFICES ASSUME EffectsAreBegun, HostInv, [HostNext]_hostVars, NEW s \in Steps, effects'[s] # <<>>
               PROVE  stepKey'[s] # NoKey
    BY Zenon DEF EffectsAreBegun
  <1>1. [Next]_vars /\ TypeOK /\ StepMatchesAttempt /\ ExecTypeOK
    BY HostKeepsExecInv, Zenon DEF HostInv, ExecInv, IInv
  <1>2. SUFFICES stepKey[s] # NoKey
    BY <1>1, KeysStay, Zenon
  <1>3. CASE effects'[s] = effects[s]
    BY <1>3, Zenon DEF EffectsAreBegun
  <1>4. CASE WorldStep
    <2>1. PICK t \in Steps, fate \in {"done", "lost"} : \E i \in 1..Len(effects[t]) : Settle(t, i, fate)
      BY <1>4, Zenon DEF WorldStep, External
    <2>2. PICK i \in 1..Len(effects[t]) : Settle(t, i, fate)
      BY <2>1, Zenon
    <2>3. /\ effects[t] # <<>>
          /\ effects' = [effects EXCEPT ![t] = [effects[t] EXCEPT ![i] = fate]]
      BY <2>2 DEF Settle, InFlight
    <2> QED BY <1>1, <2>3, Zenon DEF EffectsAreBegun, ExecTypeOK
  <1>5. CASE \E c \in Callers : Dispatch(c)
    <2>1. PICK c \in Callers : Dispatch(c)
      BY <1>5, Zenon
    <2>2. PICK t \in Steps : t = call[c].step
      BY <2>1, Zenon DEF Dispatch, External
    <2>3. /\ effects' = [effects EXCEPT ![t] = Append(@, "inflight")]
          /\ call[c].pc = "executing"
      BY <2>1, <2>2, Zenon DEF Dispatch, Runs
    <2>4. stepStatus[t] = "in_progress"
      BY <2>2, <2>3, Zenon DEF HostInv, ExecInv, CallsAgree, CallKnows, Executing
    <2>5. stepKey[t] # NoKey
      BY <1>1, <2>4, Zenon DEF StepMatchesAttempt
    <2> QED BY <1>1, <2>3, <2>5, Zenon DEF EffectsAreBegun, ExecTypeOK
  <1>6. CASE ~ WorldStep /\ ~ \E c \in Callers : Dispatch(c)
    <2>1. ASSUME NEW c \in Callers, Proceed(c)
          PROVE  UNCHANGED effects
      <3>1. CASE \/ Stop(c) \/ StartReconcile(c) \/ StartAuthorize(c) \/ Denied(c) \/ Begin(c)
                 \/ AlreadyCompleted(c) \/ BeginRefused(c) \/ ExecuteUnknown(c) \/ ExecuteFailed(c)
        BY <3>1, Zenon DEF Stop, StartReconcile, StartAuthorize, Denied, Begin, AlreadyCompleted, BeginRefused,
           ExecuteUnknown, ExecuteFailed
      <3>2. CASE \/ ReconcileUnknown(c) \/ Reconciled(c) \/ ReconcileReplayed(c) \/ ReconcileRefused(c)
                 \/ NoGateToResolve(c) \/ GateBlocked(c) \/ PassGate(c)
        BY <3>2, Zenon DEF ReconcileUnknown, Reconciled, ReconcileReplayed, ReconcileRefused, NoGateToResolve,
           GateBlocked, PassGate
      <3>3. CASE \/ \E kinds \in ProvidedKinds : ExecuteSucceeded(c, kinds)
                 \/ \E obs \in {"applied", "not_applied"}, kinds \in ProvidedKinds : Observe(c, obs, kinds)
        BY <3>3, Zenon DEF ExecuteSucceeded, Observe
      <3> QED BY <1>6, <2>1, <3>1, <3>2, <3>3, Zenon DEF Proceed
    <2>2. ASSUME NEW c \in Callers, HostAdvance(c) \/ HostRefuses(c) \/ HostAdmits(c)
          PROVE  UNCHANGED effects
      BY <2>2, Zenon DEF HostAdvance, HostRefuses, HostAdmits, Advance, allVars, execVars
    <2>3. ASSUME UNCHANGED hostVars \/ Create \/ OtherWriter \/ HostCrash \/ Restart
          PROVE  UNCHANGED effects
      BY <2>3, Zenon DEF hostVars, allVars, execVars, Create, OtherWriter, HostCrash, Crash, Restart
    <2>4. UNCHANGED effects
      BY <1>6, <2>1, <2>2, <2>3, Zenon DEF HostNext
    <2> QED BY <2>4, Zenon DEF EffectsAreBegun
  <1> QED BY <1>4, <1>5, <1>6, Zenon

\* What a step that was begun stands on.
LEMMA BegunIsJustified ==
    ASSUME IInv, NEW s \in Steps, stepKey[s] # NoKey
    PROVE  /\ \A d \in DependsOn[s] : stepStatus[d] = "succeeded"
           /\ \A d \in DependsOn[s] : d \in Steps /\ stepKey[d] # NoKey
           /\ \A g \in RequiredGates[s] : gateStatus[g] = "passed"
  <1>1. /\ \A d \in DependsOn[s] : stepStatus[d] = "succeeded"
        /\ \A g \in RequiredGates[s] : gateStatus[g] = "passed"
    BY Zenon DEF IInv, StartedStepsAreJustified, StepMatchesAttempt
  <1>2. DependsOn[s] \subseteq Steps
    BY BlueprintValid, Zenon DEF ValidateWorkflowBlueprint
  <1>3. ASSUME NEW d \in DependsOn[s]
        PROVE  stepKey[d] # NoKey
    BY <1>1, <1>2, Zenon DEF IInv, StepMatchesAttempt
  <1> QED BY <1>1, <1>2, <1>3, Zenon

\* beta80ReleaseBlueprint behind the host, whatever the calls, the crashes and the late answers:
\* the Oracle is promoted only after the Edge was deployed and both candidates were prepared,
\* Windows only after the Oracle was promoted and found healthy.
THEOREM PromotionsInOrderHolds == ASSUME IsBeta80 PROVE HostSpec => []PromotionsInOrder
  <1>1. HostInit => EffectsAreBegun
    BY Zenon DEF HostInit, ExecInit, EffectsAreBegun
  <1>2. HostSpec => []EffectsAreBegun
    BY <1>1, BegunStep, HostInvariance, PTL DEF HostSpec
  <1>3. HostInv /\ EffectsAreBegun => PromotionsInOrder
    <2> SUFFICES ASSUME HostInv, EffectsAreBegun
                 PROVE  PromotionsInOrder
      BY Zenon
    <2>1. IInv /\ SucceededEffectsHappened
      BY RealFromInv, Zenon DEF HostInv, ExecInv
    <2> DEFINE Begun(s) == s \in Steps /\ stepKey[s] # NoKey
    <2>2. ASSUME NEW s, Begun(s), NEW d \in DependsOn[s]
          PROVE  Begun(d) /\ stepStatus[d] = "succeeded"
      BY <2>1, <2>2, BegunIsJustified, Zenon
    <2>3. ASSUME effects["promote_oracle"] # <<>>
          PROVE  \A s \in {"deploy_edge", "prepare_oracle", "prepare_windows"} : stepStatus[s] = "succeeded"
      <3> HIDE DEF Begun
      <3>1. Begun("promote_oracle")
        BY <2>3, PromotionOrder, Zenon DEF EffectsAreBegun, Begun
      <3>2. Begun("validate_oracle_candidate") /\ Begun("validate_windows_candidate")
        BY <2>2, <3>1, PromotionOrder, Zenon
      <3>3. Begun("prepare_oracle") /\ stepStatus["prepare_oracle"] = "succeeded"
        BY <2>2, <3>2, PromotionOrder, Zenon
      <3>4. stepStatus["prepare_windows"] = "succeeded"
        BY <2>2, <3>2, PromotionOrder, Zenon
      <3>5. Begun("verify_edge_health")
        BY <2>2, <3>3, PromotionOrder, Zenon
      <3>6. stepStatus["deploy_edge"] = "succeeded"
        BY <2>2, <3>5, PromotionOrder, Zenon
      <3> QED BY <3>3, <3>4, <3>6, Zenon
    <2>4. ASSUME effects["promote_windows"] # <<>>
          PROVE  stepStatus["promote_oracle"] = "succeeded" /\ gateStatus["oracle_healthy"] = "passed"
      <3>1. Begun("promote_windows")
        BY <2>4, PromotionOrder, Zenon DEF EffectsAreBegun
      <3>2. gateStatus["oracle_healthy"] = "passed"
        BY <2>1, <3>1, BegunIsJustified, PromotionOrder, Zenon
      <3> HIDE DEF Begun
      <3>3. Begun("verify_oracle_health")
        BY <2>2, <3>1, PromotionOrder, Zenon
      <3>4. stepStatus["promote_oracle"] = "succeeded"
        BY <2>2, <3>3, PromotionOrder, Zenon
      <3> QED BY <3>2, <3>4, Zenon
    <2> QED BY <2>1, <2>3, <2>4, PromotionsAreEffects, Zenon DEF PromotionsInOrder, SucceededEffectsHappened
  <1> QED BY <1>2, <1>3, HostInvariance, PTL
------------------------------------------------------------------------------
(* The gates.                                                              *)

\* The measurement of s is concluded and its gate is not decided yet.
Waits(s) == stepStatus[s] = "succeeded" /\ MeasuredGate(s) # {}

\* Call c is about to resolve the gate of s, and what it brings along.
AtGate(c, s) == call[c].pc = "gate" /\ call[c].step = s
Measured(c) == call[c].pc = "gate" \/ (call[c].pc = "observed" /\ call[c].obs = "applied")
BringsEvidence(c) == Measured(c) => call[c].kinds \in Provided[call[c].step]

\* Until the first crash, a gate that waits has its call.
GateInv ==
    /\ crashes \in Nat
    /\ \A c \in Callers : BringsEvidence(c)
    /\ crashes = 0 => \A s \in Steps : Waits(s) => \E c \in Callers : AtGate(c, s)

\* Which gates wait after each operation of the ledger.
LEMMA WaitingGates ==
    ASSUME TypeOK, NEW s \in Steps, Waits(s)'
    PROVE  /\ CreateRun \/ StartRun \/ UNCHANGED vars => Waits(s)
           /\ \A t \in Steps : \A k : BeginStepAttempt(t, k) => Waits(s)
           /\ \A t \in Steps : \A kinds : RecordStepOutcome(t, "succeeded", kinds) => s = t \/ Waits(s)
           /\ \A t \in Steps : \A kinds : RecordStepOutcome(t, "failed", kinds) => Waits(s)
           /\ \A t \in Steps : MarkOutcomeUnknown(t) => Waits(s)
           /\ \A t \in Steps : \A k, kinds : ReconcileOperation(t, k, "applied", kinds) => s = t \/ Waits(s)
           /\ \A t \in Steps : \A k, kinds : ReconcileOperation(t, k, "not_applied", kinds) => Waits(s)
           /\ RecoverInterruptedOperations => Waits(s)
           /\ \A g \in Gates : \A k, kinds : ResolveHealthGate(g, k, "passed", kinds) =>
                  Waits(s) /\ HealthGate[s] # g
  <1>1. PICK h \in Gates : h = HealthGate[s] /\ gateStatus'[h] = "pending"
    BY Zenon DEF Waits, MeasuredGate
  <1>2. stepStatus'[s] = "succeeded" /\ h # NoGate
    BY ConstantTypes, Zenon DEF Waits
  <1>3. stepStatus[s] = "succeeded" /\ gateStatus[h] = "pending" => Waits(s)
    BY <1>1, Zenon DEF Waits, MeasuredGate
  <1>4. CreateRun \/ StartRun \/ UNCHANGED vars => Waits(s)
    BY <1>1, <1>2, <1>3, Zenon DEF CreateRun, StartRun, stepVars, gateVars, vars
  <1>5. ASSUME NEW t \in Steps, NEW k, BeginStepAttempt(t, k)
        PROVE  Waits(s)
    BY <1>1, <1>2, <1>3, <1>5 DEF BeginStepAttempt, gateVars, TypeOK
  <1>6. ASSUME NEW t \in Steps, NEW kinds, NEW o \in {"succeeded", "failed"}, RecordStepOutcome(t, o, kinds)
        PROVE  Waits(s) \/ (o = "succeeded" /\ s = t)
    BY <1>1, <1>2, <1>3, <1>6 DEF RecordStepOutcome, gateVars, TypeOK
  <1>7. ASSUME NEW t \in Steps, MarkOutcomeUnknown(t)
        PROVE  Waits(s)
    BY <1>1, <1>2, <1>3, <1>7 DEF MarkOutcomeUnknown, SetMeasuredGate, TypeOK
  <1>8. ASSUME NEW t \in Steps, NEW k, NEW kinds, NEW o \in {"applied", "not_applied"},
               ReconcileOperation(t, k, o, kinds)
        PROVE  Waits(s) \/ (o = "applied" /\ s = t)
    <2>1. CASE s = t
      BY <1>2, <1>8, <2>1, Zenon DEF ReconcileOperation, TypeOK
    <2>2. CASE s # t
      <3>1. HealthGate[t] # h
        BY <1>1, <1>2, <2>2, GateMeasuredOnce, Zenon
      <3>2. stepStatus[s] = "succeeded" /\ gateStatus[h] = "pending"
        BY <1>1, <1>2, <1>8, <2>2, <3>1 DEF ReconcileOperation, SetMeasuredGate, TypeOK
      <3> QED BY <1>3, <3>2, Zenon
    <2> QED BY <2>1, <2>2, Zenon
  <1>9. RecoverInterruptedOperations => Waits(s)
    BY <1>1, <1>2, <1>3, Zenon DEF RecoverInterruptedOperations
  <1>10. ASSUME NEW g \in Gates, NEW k, NEW kinds, ResolveHealthGate(g, k, "passed", kinds)
         PROVE  Waits(s) /\ HealthGate[s] # g
    BY <1>1, <1>2, <1>3, <1>10 DEF ResolveHealthGate, stepVars, TypeOK
  <1> QED BY <1>4, <1>5, <1>6, <1>7, <1>8, <1>9, <1>10

\* One call moves: it brings evidence, and no gate that waits loses its call.
LEMMA GateKept ==
    ASSUME GateInv, NEW c \in Callers, \A d \in Callers \ {c} : call'[d] = call[d], UNCHANGED crashes,
           BringsEvidence(c)',
           \A s \in Steps : Waits(s)' => AtGate(c, s)' \/ (Waits(s) /\ ~ AtGate(c, s))
    PROVE  GateInv'
  <1>1. \A d \in Callers : BringsEvidence(d)'
    BY Zenon DEF GateInv, BringsEvidence, Measured
  <1>2. ASSUME crashes = 0, NEW s \in Steps, Waits(s)'
        PROVE  \E d \in Callers : AtGate(d, s)'
    <2>1. CASE AtGate(c, s)'
      BY <2>1, Zenon
    <2>2. CASE Waits(s) /\ ~ AtGate(c, s)
      <3>1. PICK d \in Callers : AtGate(d, s)
        BY <1>2, <2>2, Zenon DEF GateInv
      <3> QED BY <2>2, <3>1, Zenon DEF AtGate
    <2> QED BY <1>2, <2>1, <2>2, Zenon
  <1> QED BY <1>1, <1>2, Zenon DEF GateInv

\* A step of a call in progress.
LEMMA ProceedKeepsGates ==
    ASSUME EvidenceCovers, GateInv, HostInv, NEW c \in Callers, Proceed(c)
    PROVE  GateInv'
  <1>1. /\ TypeOK /\ call \in [Callers -> Calls]
        /\ call[c].pc \notin {"idle", "loop"} => call[c].step \in Steps
    BY Zenon DEF HostInv, ExecInv, IInv, ExecTypeOK
  <1>2. \A d \in Callers \ {c} : call'[d] = call[d]
    BY ProceedIsOwn, Zenon DEF HostInv
  <1>3. CASE \/ Stop(c) \/ Denied(c) \/ AlreadyCompleted(c) \/ BeginRefused(c) \/ ReconcileUnknown(c)
             \/ ReconcileRefused(c) \/ StartReconcile(c) \/ StartAuthorize(c) \/ Dispatch(c)
    <2>1. UNCHANGED <<vars, crashes>> /\ call[c].pc # "gate"
      BY <1>3, Zenon DEF Stop, Denied, AlreadyCompleted, BeginRefused, ReconcileUnknown, ReconcileRefused,
         StartReconcile, StartAuthorize, Dispatch, Runs
    <2>2. call'[c].pc \in {"idle", "loop", "reconciling", "authorizing", "dispatched"}
      <3>1. CASE StartReconcile(c) \/ StartAuthorize(c)
        BY <1>1, <3>1 DEF StartReconcile, StartAuthorize, Calls
      <3>2. CASE Dispatch(c)
        BY <1>1, <3>2, Zenon DEF Dispatch, Goto, Calls
      <3>3. CASE Return(c) \/ NextPass(c)
        BY <1>1, <3>3, RestingCalls DEF HostInv, ExecInv
      <3> QED BY <1>3, <3>1, <3>2, <3>3, Zenon
                 DEF Stop, Denied, AlreadyCompleted, BeginRefused, ReconcileUnknown,
                 ReconcileRefused
    <2>3. BringsEvidence(c)' /\ \A s : ~ AtGate(c, s)
      BY <2>1, <2>2, Zenon DEF BringsEvidence, Measured, AtGate
    <2>4. \A s \in Steps : Waits(s)' => Waits(s)
      BY <1>1, <2>1, WaitingGates, Zenon
    <2> QED BY <1>2, <2>1, <2>3, <2>4, GateKept
  <1>4. CASE Begin(c) \/ ExecuteUnknown(c) \/ ExecuteFailed(c)
    <2>1. UNCHANGED crashes /\ call[c].pc \notin {"idle", "loop", "gate"}
      BY <1>4, Zenon DEF Begin, ExecuteUnknown, ExecuteFailed, Runs
    <2>2. call'[c].pc \in {"idle", "executing"}
      <3>1. CASE Begin(c)
        BY <1>1, <3>1, Zenon DEF Begin, Goto, Calls
      <3>2. CASE Return(c)
        BY <1>1, <3>2, Zenon DEF Return, NoCall
      <3> QED BY <1>4, <3>1, <3>2, Zenon DEF ExecuteUnknown, ExecuteFailed
    <2>3. BringsEvidence(c)' /\ \A s : ~ AtGate(c, s)
      BY <2>1, <2>2, Zenon DEF BringsEvidence, Measured, AtGate
    <2>4. PICK t \in Steps : t = call[c].step
      BY <1>1, <2>1, Zenon
    <2>5. \/ BeginStepAttempt(t, t) \/ MarkOutcomeUnknown(t) \/ RecordStepOutcome(t, "failed", {})
      BY <1>4, <2>4, Zenon DEF Begin, ExecuteUnknown, ExecuteFailed
    <2>6. \A s \in Steps : Waits(s)' => Waits(s)
      BY <1>1, <2>5, WaitingGates, Zenon
    <2> QED BY <1>2, <2>1, <2>3, <2>6, GateKept
  <1>5. ASSUME NEW obs \in {"applied", "not_applied"}, NEW kinds \in ProvidedKinds, Observe(c, obs, kinds)
        PROVE  GateInv'
    <2>1. UNCHANGED <<vars, crashes>> /\ call[c].pc = "reconciling"
      BY <1>5, Zenon DEF Observe, Runs
    <2>2. /\ call'[c].pc = "observed" /\ call'[c].obs = obs /\ call'[c].kinds = kinds
          /\ call'[c].step = call[c].step
      BY <1>1, <1>5 DEF Observe, Calls
    <2>3. BringsEvidence(c)' /\ \A s : ~ AtGate(c, s)
      BY <1>5, <2>1, <2>2, Zenon DEF BringsEvidence, Measured, AtGate, Observe
    <2>4. \A s \in Steps : Waits(s)' => Waits(s)
      BY <1>1, <2>1, WaitingGates, Zenon
    <2> QED BY <1>2, <2>1, <2>3, <2>4, GateKept, Zenon
  <1>6. ASSUME NEW kinds \in ProvidedKinds, ExecuteSucceeded(c, kinds)
        PROVE  GateInv'
    <2>1. UNCHANGED crashes /\ call[c].pc \in Executing
      BY <1>6, Zenon DEF ExecuteSucceeded, Runs, Executing
    <2>2. PICK t \in Steps : t = call[c].step
      BY <1>1, <2>1, Zenon DEF Executing
    <2>3. call'[c].pc = "gate" /\ call'[c].kinds = kinds /\ call'[c].step = t
      BY <1>1, <1>6, <2>2, Zenon DEF ExecuteSucceeded, Calls
    <2>4. kinds \in Provided[t] /\ RecordStepOutcome(t, "succeeded", kinds)
      BY <1>6, <2>2, Zenon DEF ExecuteSucceeded
    <2>5. BringsEvidence(c)' /\ AtGate(c, t)' /\ \A s : ~ AtGate(c, s)
      BY <2>1, <2>3, <2>4, Zenon DEF BringsEvidence, AtGate, Executing
    <2>6. \A s \in Steps : Waits(s)' => s = t \/ Waits(s)
      BY <1>1, <2>4, WaitingGates, Zenon
    <2> QED BY <1>2, <2>1, <2>5, <2>6, GateKept, Zenon
  <1>7. CASE Reconciled(c) \/ ReconcileReplayed(c)
    <2>1. UNCHANGED crashes /\ call[c].pc = "observed"
      BY <1>7, Zenon DEF Reconciled, ReconcileReplayed, Runs
    <2>2. PICK t \in Steps, obs \in {"applied", "not_applied"} : t = call[c].step /\ obs = call[c].obs
      BY <1>1, <2>1, Zenon DEF HostInv, ExecInv, ExecTypeOK, Calls
    <2>3. \A s : ~ AtGate(c, s)
      BY <2>1, Zenon DEF AtGate
    <2>4. CASE obs = "applied"
      <3>1. Goto(c, "gate")
        BY <1>7, <2>2, <2>4, Zenon DEF Reconciled, ReconcileReplayed
      <3>2. call'[c].pc = "gate" /\ call'[c].step = t /\ call'[c].kinds = call[c].kinds
        BY <1>1, <2>2, <3>1, Zenon DEF Goto, Calls
      <3>3. call[c].kinds \in Provided[t]
        <4>1. BringsEvidence(c)
          BY Zenon DEF GateInv
        <4> QED BY <2>1, <2>2, <2>4, <4>1, Zenon DEF BringsEvidence, Measured
      <3>4. BringsEvidence(c)' /\ AtGate(c, t)'
        BY <3>2, <3>3, Zenon DEF BringsEvidence, AtGate
      <3>5. ReconcileOperation(t, t, "applied", call[c].kinds) \/ UNCHANGED vars
        BY <1>7, <2>2, <2>4, Zenon DEF Reconciled, ReconcileReplayed
      <3>6. \A s \in Steps : Waits(s)' => s = t \/ Waits(s)
        BY <1>1, <3>5, WaitingGates, Zenon
      <3> QED BY <1>2, <2>1, <2>3, <3>4, <3>6, GateKept
    <2>5. CASE obs = "not_applied"
      <3>1. Return(c) /\ ReconcileOperation(t, t, "not_applied", call[c].kinds)
        BY <1>7, <2>2, <2>5, Zenon DEF Reconciled, ReconcileReplayed
      <3>2. BringsEvidence(c)'
        BY <1>1, <3>1, Zenon DEF Return, NoCall, BringsEvidence, Measured
      <3>3. \A s \in Steps : Waits(s)' => Waits(s)
        BY <1>1, <3>1, WaitingGates, Zenon
      <3> QED BY <1>2, <2>1, <2>3, <3>2, <3>3, GateKept
    <2> QED BY <2>4, <2>5, Zenon
  <1>8. CASE NoGateToResolve(c) \/ GateBlocked(c) \/ PassGate(c)
    <2>1. UNCHANGED crashes /\ call[c].pc = "gate"
      BY <1>8, Zenon DEF NoGateToResolve, GateBlocked, PassGate, Runs
    <2>2. PICK t \in Steps : t = call[c].step
      BY <1>1, <2>1, Zenon
    <2>3. \A g \in MeasuredGate(t) : g \in Gates /\ g = HealthGate[t] /\ RequiredKinds[g] \subseteq call[c].kinds
      <3>1. call[c].kinds \in Provided[t]
        BY <2>1, <2>2, Zenon DEF GateInv, BringsEvidence, Measured
      <3> QED BY <3>1, ConstantTypes, Zenon DEF MeasuredGate, EvidenceCovers
    <2>4. NoGateToResolve(c) \/ PassGate(c)
      BY <1>8, <2>2, <2>3, Zenon DEF GateBlocked
    <2>5. BringsEvidence(c)'
      <3>1. NextPass(c)
        BY <2>4, Zenon DEF NoGateToResolve, PassGate
      <3>2. call'[c].pc \in {"idle", "loop"}
        BY <1>1, <3>1, RestingCalls, Zenon DEF HostInv, ExecInv
      <3> QED BY <3>2, Zenon DEF BringsEvidence, Measured
    <2>6. ASSUME NEW s \in Steps, Waits(s)'
          PROVE  Waits(s) /\ s # t
      <3>1. CASE NoGateToResolve(c)
        <4>1. UNCHANGED vars /\ MeasuredGate(t) = {}
          BY <2>2, <3>1, Zenon DEF NoGateToResolve
        <4>2. Waits(s)
          BY <1>1, <2>6, <4>1, WaitingGates, Zenon
        <4> QED BY <4>1, <4>2, Zenon DEF Waits
      <3>2. CASE PassGate(c)
        <4>1. PICK g \in MeasuredGate(t) : ResolveHealthGate(g, g, "passed", call[c].kinds)
          BY <2>2, <3>2, Zenon DEF PassGate
        <4>2. Waits(s) /\ HealthGate[s] # g
          BY <1>1, <2>3, <2>6, <4>1, WaitingGates
        <4> QED BY <2>3, <4>1, <4>2, Zenon
      <3> QED BY <2>4, <3>1, <3>2, Zenon
    <2>7. \A s \in Steps : Waits(s)' => Waits(s) /\ ~ AtGate(c, s)
      BY <2>2, <2>6, Zenon DEF AtGate
    <2> QED BY <1>2, <2>1, <2>5, <2>7, GateKept, Zenon
  <1> QED BY <1>3, <1>4, <1>5, <1>6, <1>7, <1>8 DEF Proceed

\* Every step of the host keeps the gates with their calls.
LEMMA GateStep ==
    ASSUME EvidenceCovers
    PROVE  GateInv /\ HostInv /\ [HostNext]_hostVars => GateInv'
  <1> SUFFICES ASSUME GateInv, HostInv, [HostNext]_hostVars
               PROVE  GateInv'
    BY Zenon
  <1>1. TypeOK
    BY Zenon DEF HostInv, ExecInv, IInv
  <1>2. ASSUME NEW c \in Callers, Proceed(c)
        PROVE  GateInv'
    BY <1>2, ProceedKeepsGates, Zenon
  <1>3. ASSUME NEW c \in Callers, HostAdmits(c)
        PROVE  GateInv'
    <2>1. call[c].pc = "idle" /\ UNCHANGED crashes /\ (StartRun \/ UNCHANGED vars) /\ Advance(c)
      BY <1>3, Zenon DEF HostAdmits, Advance, Runs
    <2>2. call'[c].pc = "loop" /\ \A d \in Callers \ {c} : call'[d] = call[d]
      BY <2>1, AdvanceEnters, Zenon DEF HostInv
    <2>3. BringsEvidence(c)' /\ \A s : ~ AtGate(c, s)
      BY <2>1, <2>2, Zenon DEF BringsEvidence, Measured, AtGate
    <2>4. \A s \in Steps : Waits(s)' => Waits(s)
      BY <1>1, <2>1, WaitingGates, Zenon
    <2> QED BY <2>1, <2>2, <2>3, <2>4, GateKept
  <1>4. CASE HostCrash
    <2>1. crashes' = crashes + 1 /\ \A c \in Callers : call'[c].pc = "idle"
      BY <1>4, Zenon DEF HostCrash, Crash, NoCall
    <2>2. crashes' \in Nat /\ crashes' # 0
      BY <2>1 DEF GateInv
    <2>3. \A c \in Callers : BringsEvidence(c)'
      BY <2>1, Zenon DEF BringsEvidence, Measured
    <2> QED BY <2>2, <2>3, Zenon DEF GateInv
  <1>5. CASE \/ UNCHANGED hostVars \/ Create \/ OtherWriter \/ Restart \/ WorldStep
             \/ \E c \in Callers : HostAdvance(c) \/ HostRefuses(c)
    <2>1. UNCHANGED <<call, crashes>>
      BY <1>5, Zenon
         DEF hostVars, allVars, execVars, Create, OtherWriter, Restart, WorldStep, Settle, HostAdvance,
         HostRefuses
    <2>2. CreateRun \/ StartRun \/ RecoverInterruptedOperations \/ UNCHANGED vars
      BY <1>5, Zenon
         DEF hostVars, allVars, Create, OtherWriter, Restart, WorldStep, Settle, HostAdvance, HostRefuses
    <2>3. \A s \in Steps : Waits(s)' => Waits(s)
      BY <1>1, <2>2, WaitingGates, Zenon
    <2> QED BY <2>1, <2>3, Zenon DEF GateInv, BringsEvidence, Measured, AtGate
  <1> QED BY <1>2, <1>3, <1>4, <1>5, Zenon DEF HostNext

\* resolveMeasuredGate behind the host, for every blueprint whose measurements bring what its
\* gates require: without a crash, no gate is left behind by a measurement that succeeded.
THEOREM MeasuredGatesAreDecided == ASSUME EvidenceCovers PROVE HostSpec => []NoGateStranded
  <1>1. HostInit => GateInv
    <2> SUFFICES ASSUME HostInit
                 PROVE  GateInv
      BY Zenon
    <2>1. /\ crashes = 0 /\ \A s \in Steps : stepStatus[s] = "pending"
          /\ \A c \in Callers : call[c].pc = "idle"
      BY Zenon DEF HostInit, ExecInit, Init, NoCall
    <2> QED BY <2>1, Zenon DEF GateInv, BringsEvidence, Measured, Waits
  <1>2. HostSpec => []GateInv
    BY <1>1, GateStep, HostInvariance, PTL DEF HostSpec
  <1>3. GateInv => NoGateStranded
    BY Zenon DEF GateInv, NoGateStranded, GateStranded, Waits, AtGate
  <1> QED BY <1>2, <1>3, PTL

\* The blueprint of beta 80 with its capabilities is such a blueprint: the evidence demanded in
\* one file is the evidence returned in the other.
THEOREM NoGateStrandedHolds == ASSUME IsBeta80 PROVE HostSpec => []NoGateStranded
  BY BlueprintEvidence, MeasuredGatesAreDecided, Zenon
=============================================================================

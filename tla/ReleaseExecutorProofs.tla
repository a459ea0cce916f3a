------------------------ MODULE ReleaseExecutorProofs ------------------------
(***************************************************************************)
(* Proofs, for every valid blueprint, order of its steps, number of calls  *)
(* and number of crashes, first of the safety properties of the ledger,    *)
(* then that ReleaseExecutor uses the ledger as it may be used, works on   *)
(* one operation at a time and lets no effect happen twice.                *)
(***************************************************************************)
EXTENDS ReleaseExecutor, TLAPS, FiniteSetTheorems

------------------------------------------------------------------------------
(* Facts about the attempt rows of a step.                                 *)

\* The rows of a step after the latest one took status x (the UPDATE ... WHERE
\* attempt_id = ? statements): same number of rows, earlier rows untouched.
RowsUpdated(q, r, x) ==
    /\ r \in Seq(AttemptStatus)
    /\ r # <<>>
    /\ Len(r) = Len(q)
    /\ r[Len(r)] = x
    /\ \A i \in 1..Len(q) : i < Len(q) => r[i] = q[i]

\* ... so an earlier row stays.
LEMMA EarlierRowKept ==
    ASSUME NEW q, NEW r, NEW x, RowsUpdated(q, r, x), Len(q) \in Nat,
           NEW i \in 1..Len(q), i # Len(q)
    PROVE  i <= Len(r) /\ r[i] = q[i]
  BY DEF RowsUpdated

\* An UPDATE of the latest attempt row has the effect RowsUpdated states.
LEMMA UpdateLatestRow ==
    ASSUME NEW q \in Seq(AttemptStatus), q # <<>>, NEW x \in AttemptStatus
    PROVE  RowsUpdated(q, [q EXCEPT ![Len(q)] = x], x)
  BY DEF RowsUpdated

\* beginStepAttempt's INSERT adds a row after the ones that were there.
LEMMA InsertRow ==
    ASSUME NEW q \in Seq(AttemptStatus), NEW x \in AttemptStatus
    PROVE  /\ Append(q, x) \in Seq(AttemptStatus)
           /\ Append(q, x) # <<>>
           /\ Len(Append(q, x)) = Len(q) + 1
           /\ Append(q, x)[Len(q) + 1] = x
           /\ \A i \in 1..Len(q) : Append(q, x)[i] = q[i]
  OBVIOUS

\* After an INSERT the new row is the latest.
LEMMA InsertedIsLatest ==
    ASSUME NEW q \in Seq(AttemptStatus), NEW x \in AttemptStatus
    PROVE  Append(q, x)[Len(Append(q, x))] = x
  BY InsertRow

\* SetLatest changes the latest row of one step and no other row.
LEMMA SetLatestEffect ==
    ASSUME attempts \in [Steps -> Seq(AttemptStatus)],
           NEW s \in Steps, NEW x \in AttemptStatus,
           attempts[s] # <<>>, attempts' = SetLatest(s, x)
    PROVE  /\ attempts' \in [Steps -> Seq(AttemptStatus)]
           /\ \A t \in Steps : t # s => attempts'[t] = attempts[t]
           /\ RowsUpdated(attempts[s], attempts'[s], x)
<1>1. attempts' = [attempts EXCEPT ![s] = [attempts[s] EXCEPT ![Len(attempts[s])] = x]]
  BY Zenon DEF SetLatest
<1>2. attempts'[s] = [attempts[s] EXCEPT ![Len(attempts[s])] = x]
  BY <1>1, Zenon
<1>3. RowsUpdated(attempts[s], attempts'[s], x)
  BY <1>2, UpdateLatestRow
<1>4. attempts'[s] \in Seq(AttemptStatus)
  BY <1>3, Zenon DEF RowsUpdated
<1> QED
  BY <1>1, <1>3, <1>4, Zenon

\* Startup recovery changes the latest row of the interrupted steps only.
LEMMA RecoverEffect ==
    ASSUME attempts \in [Steps -> Seq(AttemptStatus)], RecoverInterruptedOperations
    PROVE  /\ attempts' \in [Steps -> Seq(AttemptStatus)]
           /\ \A t \in Steps \ Interrupted : attempts'[t] = attempts[t]
           /\ \A t \in Interrupted : RowsUpdated(attempts[t], attempts'[t], "outcome_unknown")
<1>1. ASSUME NEW t \in Interrupted
      PROVE  RowsUpdated(attempts[t], attempts'[t], "outcome_unknown")
  <2>1. /\ attempts[t] \in Seq(AttemptStatus) /\ attempts[t] # <<>>
        /\ attempts'[t] = [attempts[t] EXCEPT ![Len(attempts[t])] = "outcome_unknown"]
    BY Zenon DEF Interrupted, LatestIs, RecoverInterruptedOperations
  <2>2. "outcome_unknown" \in AttemptStatus
    BY Zenon DEF AttemptStatus
  <2> QED
    BY <2>1, <2>2, UpdateLatestRow, Zenon
<1>2. ASSUME NEW t \in Steps \ Interrupted
      PROVE  attempts'[t] = attempts[t]
  BY Zenon DEF RecoverInterruptedOperations
<1>3. \A t \in Steps : attempts'[t] \in Seq(AttemptStatus)
  BY <1>1, <1>2, Zenon DEF RowsUpdated
<1>4. attempts' \in [Steps -> Seq(AttemptStatus)]
  BY <1>3, Zenon DEF RecoverInterruptedOperations
<1> QED
  BY <1>1, <1>2, <1>4, Zenon

------------------------------------------------------------------------------
(* Type correctness.                                                       *)

\* The status names the operations write are statuses of their tables.
LEMMA StatusNames ==
    /\ {"intent_recorded", "succeeded", "failed", "outcome_unknown",
        "resolved_not_applied"} \subseteq AttemptStatus
    /\ {"pending", "in_progress", "succeeded", "failed", "outcome_unknown"} \subseteq StepStatus
    /\ {"pending", "passed", "failed", "outcome_unknown"} \subseteq GateStatus
    /\ {"planned", "running", "paused_outcome_unknown", "failed", "succeeded"} \subseteq RunStatus
  BY Zenon DEF AttemptStatus, StepStatus, GateStatus, RunStatus

\* Every operation of the engine leaves every table well formed.
LEMMA TypeStep == TypeOK /\ [Next]_vars => TypeOK'
<1> SUFFICES ASSUME TypeOK, [Next]_vars
             PROVE  TypeOK'
  BY Zenon
<1> USE StatusNames
<1>1. CASE CreateRun
  BY <1>1 DEF CreateRun, AppendEvent, TypeOK, stepVars, gateVars
<1>2. CASE StartRun
  BY <1>2 DEF StartRun, AppendEvent, TypeOK, stepVars, gateVars
<1>3. ASSUME NEW s \in Steps, NEW k \in StepKeys[s], BeginStepAttempt(s, k)
      PROVE  TypeOK'
  <2>1. k \in Keys
    BY Zenon DEF Keys
  <2>2. Append(attempts[s], "intent_recorded") \in Seq(AttemptStatus)
    BY InsertRow, Zenon DEF TypeOK
  <2>3. attempts' \in [Steps -> Seq(AttemptStatus)]
    BY <1>3, <2>2, Zenon DEF BeginStepAttempt, TypeOK
  <2> QED
    BY <1>3, <2>1, <2>3 DEF BeginStepAttempt, AppendEvent, TypeOK, gateVars
<1>4. ASSUME NEW s \in Steps, NEW outcome \in {"succeeded", "failed"}, NEW kinds \in SUBSET Kinds,
             RecordStepOutcome(s, outcome, kinds)
      PROVE  TypeOK'
  <2>1. attempts' \in [Steps -> Seq(AttemptStatus)]
    BY <1>4, SetLatestEffect, Zenon DEF RecordStepOutcome, LatestIs, TypeOK
  <2>2. runStatus' \in RunStatus /\ lastSeq' \in Nat
    BY <1>4 DEF RecordStepOutcome, AppendEventAndComplete, AppendEvent, TypeOK
  <2> QED
    BY <1>4, <2>1, <2>2, Zenon DEF RecordStepOutcome, TypeOK, gateVars
<1>5. ASSUME NEW s \in Steps, MarkOutcomeUnknown(s)
      PROVE  TypeOK'
  <2>1. attempts' \in [Steps -> Seq(AttemptStatus)]
    BY <1>5, SetLatestEffect, Zenon DEF MarkOutcomeUnknown, LatestIs, TypeOK
  <2> QED
    BY <1>5, <2>1 DEF MarkOutcomeUnknown, SetMeasuredGate, AppendEvent, TypeOK
<1>6. ASSUME NEW s \in Steps, NEW k \in ReconcileKeys, NEW outcome \in ReconcileOutcome,
             NEW kinds \in SUBSET Kinds, ReconcileOperation(s, k, outcome, kinds)
      PROVE  TypeOK'
  <2>1. attempts' \in [Steps -> Seq(AttemptStatus)]
    <3>1. /\ attempts \in [Steps -> Seq(AttemptStatus)]
          /\ {"succeeded", "resolved_not_applied"} \subseteq AttemptStatus
      BY StatusNames, Zenon DEF TypeOK
    <3>2. attempts[s] # <<>>
      BY <1>6, Zenon DEF ReconcileOperation, CanReconcile, LatestIs
    <3>3. attempts' = attempts \/ \E x \in AttemptStatus : attempts' = SetLatest(s, x)
      BY <1>6, <3>1, Zenon DEF ReconcileOperation
    <3> QED
      BY <3>1, <3>2, <3>3, SetLatestEffect, Zenon
  <2>2. stepStatus' \in [Steps -> StepStatus] /\ gateStatus' \in [Gates -> GateStatus]
    <3>1. stepStatus \in [Steps -> StepStatus] /\ gateStatus \in [Gates -> GateStatus]
      BY Zenon DEF TypeOK
    <3>2. UNCHANGED gateStatus \/ SetMeasuredGate(s, "pending")
      BY <1>6, Zenon DEF ReconcileOperation
    <3>3. \/ UNCHANGED stepStatus
          \/ \E x \in {"succeeded", "pending"} : stepStatus' = [stepStatus EXCEPT ![s] = x]
      BY <1>6, Zenon DEF ReconcileOperation
    <3>4. gateStatus' \in [Gates -> GateStatus]
      BY <3>1, <3>2, StatusNames, Zenon DEF SetMeasuredGate
    <3>5. stepStatus' \in [Steps -> StepStatus]
      BY <3>1, <3>3, StatusNames, Zenon
    <3> QED
      BY <3>4, <3>5, Zenon
  <2>3. Resume(attempts', stepStatus') \in RunStatus
    BY Zenon DEF Resume, TypeOK
  <2>4. runStatus' \in RunStatus /\ lastSeq' \in Nat
    BY <1>6, <2>3 DEF ReconcileOperation, AppendEventAndComplete, TypeOK
  <2>5. [key |-> k, step |-> s, outcome |-> outcome, kinds |-> kinds] \in Reconciliation
    BY Zenon DEF Reconciliation
  <2> QED
    BY <1>6, <2>1, <2>2, <2>4, <2>5, Zenon DEF ReconcileOperation, TypeOK
<1>7. CASE RecoverInterruptedOperations
  <2>1. attempts' \in [Steps -> Seq(AttemptStatus)]
    BY <1>7, RecoverEffect, Zenon DEF TypeOK
  <2>2. Cardinality(Interrupted) \in Nat
    BY ConstantTypes, FS_CardinalityType, FS_Subset, Zenon DEF Interrupted
  <2> QED
    BY <1>7, <2>1, <2>2 DEF RecoverInterruptedOperations, TypeOK
<1>8. ASSUME NEW g \in Gates, NEW k \in GateKeys, NEW outcome \in GateOutcome,
             NEW kinds \in SUBSET Kinds, ResolveHealthGate(g, k, outcome, kinds)
      PROVE  TypeOK'
  <2>1. outcome \in GateStatus
    BY Zenon DEF GateOutcome
  <2>2. runStatus' \in RunStatus /\ lastSeq' \in Nat
    BY <1>8 DEF ResolveHealthGate, AppendEventAndComplete, AppendEvent, TypeOK
  <2>3. [gate |-> g, key |-> k, outcome |-> outcome] \in Decision
    BY Zenon DEF Decision
  <2> QED
    BY <1>8, <2>1, <2>2, <2>3, Zenon DEF ResolveHealthGate, TypeOK, stepVars
<1>9. CASE UNCHANGED vars
  BY <1>9, Zenon DEF TypeOK, vars
<1> QED
  BY <1>1, <1>2, <1>3, <1>4, <1>5, <1>6, <1>7, <1>8, <1>9, Zenon DEF Next

\* The tables of the ledger stay well formed under every sequence of calls.
THEOREM TypeCorrect == Spec => []TypeOK
<1>1. Init => TypeOK
  BY StatusNames DEF Init, TypeOK, RunStatus
<1> QED
  BY <1>1, TypeStep, PTL DEF Spec

------------------------------------------------------------------------------
(* The inductive invariant.                                                *)

NotAppliedProofs(s) == {r \in reconciliations : r.step = s /\ r.outcome = "not_applied"}

\* RetryOnlyAfterProof, strengthened: the proof of the latest attempt is already
\* counted when that attempt is resolved as not applied.
RetryInv ==
    /\ IsFiniteSet(reconciliations)
    /\ \A s \in Steps :
        /\ \A i \in 1..Len(attempts[s]) :
              i < Len(attempts[s]) => attempts[s][i] = "resolved_not_applied"
        /\ Len(attempts[s]) <= Cardinality(NotAppliedProofs(s))
                                 + (IF LatestIs(s, "resolved_not_applied") THEN 0 ELSE 1)

\* PassedGateIsMeasured, strengthened to failed gates: a decided gate has its
\* measurement succeeded, so nothing can reopen it.
DecidedGateIsMeasured ==
    \A g \in Gates : gateStatus[g] \in GateOutcome =>
        \E s \in Steps : HealthGate[s] = g /\ stepStatus[s] = "succeeded"

IInv ==
    /\ TypeOK
    /\ StepMatchesAttempt
    /\ RetryInv
    /\ StartedStepsAreJustified
    /\ UnknownBlocksRun
    /\ SucceededIsComplete
    /\ DecidedGateIsMeasured
    /\ PassedGateIsMeasured
    /\ KeysIdentifySteps

\* The step status that goes with each attempt status.
LEMMA StepStatusNames ==
    /\ StepStatusOf("intent_recorded") = "in_progress"
    /\ StepStatusOf("succeeded") = "succeeded"
    /\ StepStatusOf("failed") = "failed"
    /\ StepStatusOf("outcome_unknown") = "outcome_unknown"
    /\ StepStatusOf("resolved_not_applied") = "pending"
  BY Zenon DEF StepStatusOf

\* What the operations other than beginStepAttempt do to the step tables: the
\* latest attempt of the steps in M goes from status a to status b, the steps
\* in M to the status that goes with b, and everything else stays.
StepsMove(M, a, b) ==
    /\ \A s \in M : /\ LatestIs(s, a)
                    /\ RowsUpdated(attempts[s], attempts'[s], b)
                    /\ stepStatus'[s] = StepStatusOf(b)
    /\ \A s \in Steps \ M : attempts'[s] = attempts[s] /\ stepStatus'[s] = stepStatus[s]
    /\ stepKey' = stepKey

\* ... and to the gates: only a gate measured by a step in M is set back.
GatesFollow(M) ==
    /\ \A g \in Gates : \/ gateStatus'[g] = gateStatus[g]
                        \/ /\ gateStatus'[g] \in {"pending", "outcome_unknown"}
                           /\ \E s \in M : HealthGate[s] = g
    /\ decisions' = decisions
    /\ \A s \in Steps : evidence[s] \subseteq evidence'[s]

Move(M, a, b) == StepsMove(M, a, b) /\ GatesFollow(M)

\* An operation that leaves the step and gate tables alone moves no step.
LEMMA NoMove ==
    ASSUME UNCHANGED <<attempts, stepStatus, stepKey, gateStatus, decisions>>,
           \A s \in Steps : evidence[s] \subseteq evidence'[s]
    PROVE  Move({}, "intent_recorded", "succeeded")
  BY Zenon DEF Move, StepsMove, GatesFollow

\* recordStepOutcome moves a step from its intent to its outcome.
LEMMA RecordMoves ==
    ASSUME TypeOK, NEW s \in Steps, NEW outcome \in {"succeeded", "failed"}, NEW kinds,
           RecordStepOutcome(s, outcome, kinds)
    PROVE  Move({s}, "intent_recorded", outcome)
<1>1. outcome \in AttemptStatus /\ StepStatusOf(outcome) = outcome
  BY StatusNames, StepStatusNames, Zenon
<1>2. /\ LatestIs(s, "intent_recorded") /\ attempts[s] # <<>>
      /\ attempts' = SetLatest(s, outcome) /\ stepKey' = stepKey
      /\ stepStatus' = [stepStatus EXCEPT ![s] = outcome]
  BY Zenon DEF RecordStepOutcome, LatestIs
<1>3. /\ \A t \in Steps : t # s => attempts'[t] = attempts[t]
      /\ RowsUpdated(attempts[s], attempts'[s], outcome)
  BY <1>1, <1>2, SetLatestEffect, Zenon DEF TypeOK
<1>4. GatesFollow({s})
  BY Zenon DEF RecordStepOutcome, gateVars, GatesFollow, TypeOK
<1> QED
  BY <1>1, <1>2, <1>3, <1>4, Zenon DEF Move, StepsMove, TypeOK

\* markOutcomeUnknown moves a step from its intent to outcome_unknown.
LEMMA MarkMoves ==
    ASSUME TypeOK, NEW s \in Steps, MarkOutcomeUnknown(s)
    PROVE  Move({s}, "intent_recorded", "outcome_unknown")
<1>1. /\ LatestIs(s, "intent_recorded") /\ attempts[s] # <<>>
      /\ attempts' = SetLatest(s, "outcome_unknown") /\ stepKey' = stepKey
      /\ stepStatus' = [stepStatus EXCEPT ![s] = "outcome_unknown"]
  BY Zenon DEF MarkOutcomeUnknown, LatestIs
<1>2. /\ \A t \in Steps : t # s => attempts'[t] = attempts[t]
      /\ RowsUpdated(attempts[s], attempts'[s], "outcome_unknown")
  BY <1>1, StatusNames, SetLatestEffect, Zenon DEF TypeOK
<1>3. GatesFollow({s})
  BY Zenon DEF MarkOutcomeUnknown, SetMeasuredGate, GatesFollow, TypeOK
<1> QED
  BY <1>1, <1>2, <1>3, StepStatusNames, Zenon DEF Move, StepsMove, TypeOK

\* A conclusive reconcileOperation moves a step from outcome_unknown to
\* succeeded or back to pending; an inconclusive one moves nothing.
LEMMA ReconcileMoves ==
    ASSUME TypeOK, NEW s \in Steps, NEW k, NEW outcome \in ReconcileOutcome, NEW kinds,
           ReconcileOperation(s, k, outcome, kinds)
    PROVE  /\ outcome = "applied" => Move({s}, "outcome_unknown", "succeeded")
           /\ outcome = "not_applied" => Move({s}, "outcome_unknown", "resolved_not_applied")
           /\ outcome = "still_unknown" =>
                /\ UNCHANGED <<attempts, stepStatus, stepKey, gateStatus, decisions>>
                /\ Move({}, "intent_recorded", "succeeded")
<1>1. /\ LatestIs(s, "outcome_unknown") /\ attempts[s] # <<>>
      /\ stepKey' = stepKey /\ decisions' = decisions
      /\ \A t \in Steps : evidence[t] \subseteq evidence'[t]
  BY Zenon DEF ReconcileOperation, CanReconcile, LatestIs, TypeOK
<1>2. CASE outcome = "applied"
  <2>1. /\ attempts' = SetLatest(s, "succeeded")
        /\ stepStatus' = [stepStatus EXCEPT ![s] = "succeeded"]
        /\ SetMeasuredGate(s, "pending")
    BY <1>2, Zenon DEF ReconcileOperation
  <2>2. /\ \A t \in Steps : t # s => attempts'[t] = attempts[t]
        /\ RowsUpdated(attempts[s], attempts'[s], "succeeded")
    BY <1>1, <2>1, StatusNames, SetLatestEffect, Zenon DEF TypeOK
  <2>3. GatesFollow({s})
    BY <1>1, <2>1, Zenon DEF SetMeasuredGate, GatesFollow, TypeOK
  <2> QED
    BY <1>1, <1>2, <2>1, <2>2, <2>3, StepStatusNames, Zenon DEF Move, StepsMove, TypeOK
<1>3. CASE outcome = "not_applied"
  <2>1. /\ attempts' = SetLatest(s, "resolved_not_applied")
        /\ stepStatus' = [stepStatus EXCEPT ![s] = "pending"]
        /\ SetMeasuredGate(s, "pending")
    BY <1>3, Zenon DEF ReconcileOperation
  <2>2. /\ \A t \in Steps : t # s => attempts'[t] = attempts[t]
        /\ RowsUpdated(attempts[s], attempts'[s], "resolved_not_applied")
    BY <1>1, <2>1, StatusNames, SetLatestEffect, Zenon DEF TypeOK
  <2>3. GatesFollow({s})
    BY <1>1, <2>1, Zenon DEF SetMeasuredGate, GatesFollow, TypeOK
  <2> QED
    BY <1>1, <1>3, <2>1, <2>2, <2>3, StepStatusNames, Zenon DEF Move, StepsMove, TypeOK
<1>4. CASE outcome = "still_unknown"
  BY <1>1, <1>4, NoMove, Zenon DEF ReconcileOperation
<1> QED
  BY <1>2, <1>3, <1>4, Zenon DEF ReconcileOutcome

\* Startup recovery moves every persisted intent to outcome_unknown.
LEMMA RecoverMoves ==
    ASSUME TypeOK, RecoverInterruptedOperations
    PROVE  Move(Interrupted, "intent_recorded", "outcome_unknown")
<1>1. GatesFollow(Interrupted)
  BY Zenon DEF RecoverInterruptedOperations, GatesFollow, TypeOK
<1>2. /\ \A t \in Steps \ Interrupted : attempts'[t] = attempts[t]
      /\ \A t \in Interrupted : RowsUpdated(attempts[t], attempts'[t], "outcome_unknown")
  BY RecoverEffect, Zenon DEF TypeOK
<1>3. \A t \in Interrupted : LatestIs(t, "intent_recorded") /\ t \in Steps
  BY Zenon DEF Interrupted
<1>4. /\ \A t \in Interrupted : stepStatus'[t] = "outcome_unknown"
      /\ \A t \in Steps \ Interrupted : stepStatus'[t] = stepStatus[t]
      /\ stepKey' = stepKey
  BY <1>3, Zenon DEF RecoverInterruptedOperations
<1> QED
  BY <1>1, <1>2, <1>3, <1>4, StepStatusNames, Zenon DEF Move, StepsMove

LegalMove(a, b) ==
    \/ a = "intent_recorded" /\ b \in {"succeeded", "failed", "outcome_unknown"}
    \/ a = "outcome_unknown" /\ b \in {"succeeded", "resolved_not_applied"}

SomeBegin == \E s \in Steps : \E k \in StepKeys[s] : BeginStepAttempt(s, k)
SomeResolve == \E g \in Gates, k \in GateKeys, outcome \in GateOutcome, kinds \in SUBSET Kinds :
                  ResolveHealthGate(g, k, outcome, kinds)
SomeMove == \E M \in SUBSET Steps, a, b \in AttemptStatus : LegalMove(a, b) /\ Move(M, a, b)

\* Every step of the ledger is a begun attempt, a gate decision, or a move.
LEMMA StepShape ==
    ASSUME TypeOK, [Next]_vars
    PROVE  SomeBegin \/ SomeResolve \/ SomeMove
<1> USE StatusNames DEF LegalMove
<1>1. LegalMove("intent_recorded", "succeeded")
  BY Zenon
<1>2. CASE \/ CreateRun \/ StartRun \/ UNCHANGED vars
  <2>1. Move({}, "intent_recorded", "succeeded")
    BY <1>2, NoMove, Zenon DEF CreateRun, StartRun, vars, stepVars, gateVars
  <2> QED
    BY <1>1, <2>1, Zenon DEF SomeMove
<1>3. ASSUME NEW s \in Steps, NEW outcome \in {"succeeded", "failed"}, NEW kinds \in SUBSET Kinds,
             RecordStepOutcome(s, outcome, kinds)
      PROVE  SomeMove
  <2>1. Move({s}, "intent_recorded", outcome) /\ {s} \in SUBSET Steps
    BY <1>3, RecordMoves, Zenon
  <2> QED
    BY <2>1, Zenon DEF SomeMove
<1>4. ASSUME NEW s \in Steps, MarkOutcomeUnknown(s)
      PROVE  SomeMove
  <2>1. Move({s}, "intent_recorded", "outcome_unknown") /\ {s} \in SUBSET Steps
    BY <1>4, MarkMoves, Zenon
  <2> QED
    BY <2>1, Zenon DEF SomeMove
<1>5. ASSUME NEW s \in Steps, NEW k \in ReconcileKeys, NEW outcome \in ReconcileOutcome,
             NEW kinds \in SUBSET Kinds, ReconcileOperation(s, k, outcome, kinds)
      PROVE  SomeMove
  <2>1. {s} \in SUBSET Steps /\ {} \in SUBSET Steps
    BY Zenon
  <2>2. \/ Move({s}, "outcome_unknown", "succeeded")
        \/ Move({s}, "outcome_unknown", "resolved_not_applied")
        \/ Move({}, "intent_recorded", "succeeded")
    BY <1>5, ReconcileMoves, Zenon DEF ReconcileOutcome
  <2> QED
    BY <2>1, <2>2, Zenon DEF SomeMove
<1>6. CASE RecoverInterruptedOperations
  <2>1. Move(Interrupted, "intent_recorded", "outcome_unknown") /\ Interrupted \in SUBSET Steps
    BY <1>6, RecoverMoves, Zenon DEF Interrupted
  <2> QED
    BY <2>1, Zenon DEF SomeMove
<1> QED
  BY <1>2, <1>3, <1>4, <1>5, <1>6, Zenon DEF Next, SomeBegin, SomeResolve

\* run_steps and step_attempts keep telling the same story about a step.
LEMMA MatchStep ==
    ASSUME TypeOK, StepMatchesAttempt, [Next]_vars
    PROVE  StepMatchesAttempt'
<1>1. ASSUME NEW s \in Steps, NEW k \in StepKeys[s], BeginStepAttempt(s, k)
      PROVE  StepMatchesAttempt'
  <2>1. k # NoKey
    BY ConstantTypes, Zenon DEF Keys
  <2>2. /\ attempts'[s] = Append(attempts[s], "intent_recorded")
        /\ stepStatus'[s] = "in_progress" /\ stepKey'[s] = k
        /\ \A t \in Steps : t # s => /\ attempts'[t] = attempts[t]
                                     /\ stepStatus'[t] = stepStatus[t]
                                     /\ stepKey'[t] = stepKey[t]
    BY <1>1, Zenon DEF BeginStepAttempt, TypeOK
  <2>3. attempts'[s] # <<>> /\ Latest(s)' = "intent_recorded"
    BY <2>2, InsertRow, StatusNames DEF Latest, TypeOK
  <2>4. \A t \in Steps : t # s => Latest(t)' = Latest(t)
    BY <2>2, Zenon DEF Latest
  <2> QED
    BY <2>1, <2>2, <2>3, <2>4, StepStatusNames, Zenon DEF StepMatchesAttempt
<1>2. CASE SomeResolve
  BY <1>2, Zenon DEF SomeResolve, ResolveHealthGate, stepVars, StepMatchesAttempt, Latest
<1>3. ASSUME NEW M \in SUBSET Steps, NEW a \in AttemptStatus, NEW b \in AttemptStatus, Move(M, a, b)
      PROVE  StepMatchesAttempt'
  <2>1. \A s \in M : /\ attempts[s] # <<>> /\ attempts'[s] # <<>> /\ Latest(s)' = b
                     /\ stepStatus'[s] = StepStatusOf(b) /\ stepKey'[s] = stepKey[s]
    BY <1>3, Zenon DEF Move, StepsMove, LatestIs, RowsUpdated, Latest
  <2>2. \A s \in Steps \ M : /\ attempts'[s] = attempts[s] /\ Latest(s)' = Latest(s)
                             /\ stepStatus'[s] = stepStatus[s] /\ stepKey'[s] = stepKey[s]
    BY <1>3, Zenon DEF Move, StepsMove, Latest
  <2> QED
    BY <2>1, <2>2, Zenon DEF StepMatchesAttempt
<1> QED
  BY <1>1, <1>2, <1>3, StepShape, Zenon DEF SomeBegin, SomeMove

\* A step whose latest attempt an operation can still move has not succeeded.
LEMMA MovableNotSucceeded ==
    ASSUME StepMatchesAttempt, NEW s \in Steps, NEW a, NEW b, LegalMove(a, b), LatestIs(s, a)
    PROVE  stepStatus[s] \in {"in_progress", "outcome_unknown"}
  BY StepStatusNames, Zenon DEF StepMatchesAttempt, LegalMove, LatestIs

\* No operation takes back a succeeded step or a decided gate.
LEMMA NothingReopened ==
    ASSUME TypeOK, StepMatchesAttempt, DecidedGateIsMeasured, [Next]_vars
    PROVE  /\ \A s \in Steps : stepStatus[s] = "succeeded" => stepStatus'[s] = "succeeded"
           /\ \A g \in Gates : gateStatus[g] \in GateOutcome => gateStatus'[g] = gateStatus[g]
<1>1. CASE SomeBegin
  BY <1>1, Zenon DEF SomeBegin, BeginStepAttempt, CanBegin, TypeOK, gateVars
<1>2. CASE SomeResolve
  BY <1>2, Zenon DEF SomeResolve, ResolveHealthGate, CanResolve, stepVars, TypeOK, GateOutcome
<1>3. ASSUME NEW M \in SUBSET Steps, NEW a \in AttemptStatus, NEW b \in AttemptStatus,
             LegalMove(a, b), Move(M, a, b)
      PROVE  /\ \A s \in Steps : stepStatus[s] = "succeeded" => stepStatus'[s] = "succeeded"
             /\ \A g \in Gates : gateStatus[g] \in GateOutcome => gateStatus'[g] = gateStatus[g]
  <2>1. \A s \in M : stepStatus[s] # "succeeded"
    BY <1>3, MovableNotSucceeded, Zenon DEF Move, StepsMove
  <2>2. \A s \in Steps : stepStatus[s] = "succeeded" => stepStatus'[s] = "succeeded"
    BY <1>3, <2>1, Zenon DEF Move, StepsMove
  <2>3. ASSUME NEW g \in Gates, gateStatus[g] \in GateOutcome
        PROVE  gateStatus'[g] = gateStatus[g]
    <3>1. PICK s \in Steps : HealthGate[s] = g /\ stepStatus[s] = "succeeded"
      BY <2>3, Zenon DEF DecidedGateIsMeasured
    <3>2. g # NoGate
      BY ConstantTypes, Zenon
    <3>3. \A u \in M : HealthGate[u] # g
      BY <2>1, <3>1, <3>2, GateMeasuredOnce, Zenon
    <3> QED
      BY <1>3, <3>3, Zenon DEF Move, GatesFollow
  <2> QED
    BY <2>2, <2>3, Zenon
<1> QED
  BY <1>1, <1>2, <1>3, StepShape, Zenon DEF SomeMove

\* A step starts only when justified, and its justification is never reopened.
LEMMA JustifiedStep ==
    ASSUME TypeOK, StepMatchesAttempt, DecidedGateIsMeasured, StartedStepsAreJustified, [Next]_vars
    PROVE  StartedStepsAreJustified'
<1>1. /\ DependsOn \in [Steps -> SUBSET Steps]
      /\ RequiredGates \in [Steps -> SUBSET Gates]
  BY BlueprintValid, Zenon DEF ValidateWorkflowBlueprint
<1>2. ASSUME NEW s \in Steps, /\ \A d \in DependsOn[s] : stepStatus[d] = "succeeded"
                              /\ \A g \in RequiredGates[s] : gateStatus[g] = "passed"
      PROVE  /\ \A d \in DependsOn[s] : stepStatus'[d] = "succeeded"
             /\ \A g \in RequiredGates[s] : gateStatus'[g] = "passed"
  BY <1>1, <1>2, NothingReopened, Zenon DEF GateOutcome
<1>3. ASSUME NEW s \in Steps, attempts'[s] # <<>>
      PROVE  /\ \A d \in DependsOn[s] : stepStatus[d] = "succeeded"
             /\ \A g \in RequiredGates[s] : gateStatus[g] = "passed"
  <2>1. CASE attempts[s] # <<>>
    BY <2>1, Zenon DEF StartedStepsAreJustified
  <2>2. CASE attempts[s] = <<>>
    <3>1. ~ SomeResolve
      BY <1>3, <2>2, Zenon DEF SomeResolve, ResolveHealthGate, stepVars
    <3>2. ~ SomeMove
      BY <1>3, <2>2, Zenon DEF SomeMove, Move, StepsMove, LatestIs
    <3>3. PICK u \in Steps, k \in Keys : BeginStepAttempt(u, k)
      BY <3>1, <3>2, StepShape, Zenon DEF SomeBegin, Keys
    <3>4. u = s
      BY <1>3, <2>2, <3>3, Zenon DEF BeginStepAttempt, TypeOK
    <3> QED
      BY <3>3, <3>4, Zenon DEF BeginStepAttempt, CanBegin
  <2> QED
    BY <2>1, <2>2, Zenon
<1> QED
  BY <1>2, <1>3, Zenon DEF StartedStepsAreJustified

\* A gate is decided only after its measurement, whose success is final.
LEMMA DecidedStep ==
    ASSUME TypeOK, StepMatchesAttempt, DecidedGateIsMeasured, [Next]_vars
    PROVE  DecidedGateIsMeasured'
<1> SUFFICES ASSUME NEW g \in Gates, gateStatus'[g] \in GateOutcome
             PROVE  \E s \in Steps : HealthGate[s] = g /\ stepStatus[s] = "succeeded"
  BY NothingReopened, Zenon DEF DecidedGateIsMeasured
<1>1. CASE SomeBegin
  BY <1>1, Zenon DEF SomeBegin, BeginStepAttempt, gateVars, DecidedGateIsMeasured
<1>2. CASE SomeResolve
  <2>1. PICK h \in Gates, k \in GateKeys, outcome \in GateOutcome, kinds \in SUBSET Kinds :
            ResolveHealthGate(h, k, outcome, kinds)
    BY <1>2, Zenon DEF SomeResolve
  <2>2. CASE g = h
    BY <2>1, <2>2, Zenon DEF ResolveHealthGate, CanResolve
  <2>3. CASE g # h
    BY <2>1, <2>3, Zenon DEF ResolveHealthGate, TypeOK, DecidedGateIsMeasured
  <2> QED
    BY <2>2, <2>3, Zenon
<1>3. CASE SomeMove
  BY <1>3, Zenon DEF SomeMove, Move, GatesFollow, GateOutcome, DecidedGateIsMeasured
<1> QED
  BY <1>1, <1>2, <1>3, StepShape, Zenon

\* A gate passes only with a decision and evidence, and both are kept.
LEMMA PassedStep ==
    ASSUME TypeOK, StepMatchesAttempt, DecidedGateIsMeasured, PassedGateIsMeasured, [Next]_vars
    PROVE  PassedGateIsMeasured'
<1> SUFFICES ASSUME NEW g \in Gates, gateStatus'[g] = "passed"
             PROVE  /\ \E d \in decisions' : d.gate = g /\ d.outcome = "passed"
                    /\ \E s \in Steps : /\ HealthGate[s] = g
                                        /\ stepStatus'[s] = "succeeded"
                                        /\ RequiredKinds[g] \subseteq evidence'[s]
  BY Zenon DEF PassedGateIsMeasured
<1>1. CASE gateStatus[g] = "passed" /\ decisions \subseteq decisions'
                                    /\ \A s \in Steps : evidence[s] \subseteq evidence'[s]
  <2>1. PICK s \in Steps : /\ HealthGate[s] = g /\ stepStatus[s] = "succeeded"
                           /\ RequiredKinds[g] \subseteq evidence[s]
    BY <1>1, Zenon DEF PassedGateIsMeasured
  <2>2. stepStatus'[s] = "succeeded"
    BY <2>1, NothingReopened, Zenon
  <2>3. RequiredKinds[g] \subseteq evidence'[s]
    BY <1>1, <2>1, Zenon
  <2>4. \E d \in decisions' : d.gate = g /\ d.outcome = "passed"
    BY <1>1 DEF PassedGateIsMeasured
  <2> QED
    BY <2>1, <2>2, <2>3, <2>4, Zenon
<1>2. CASE SomeBegin
  BY <1>1, <1>2, Zenon DEF SomeBegin, BeginStepAttempt, gateVars
<1>3. CASE SomeMove
  BY <1>1, <1>3, Zenon DEF SomeMove, Move, GatesFollow
<1>4. CASE SomeResolve
  <2>1. PICK h \in Gates, k \in GateKeys, outcome \in GateOutcome, kinds \in SUBSET Kinds :
            ResolveHealthGate(h, k, outcome, kinds)
    BY <1>4, Zenon DEF SomeResolve
  <2>2. decisions \subseteq decisions' /\ \A s \in Steps : evidence[s] \subseteq evidence'[s]
    BY <2>1, Zenon DEF ResolveHealthGate, TypeOK
  <2>3. CASE g # h
    BY <1>1, <2>1, <2>2, <2>3, Zenon DEF ResolveHealthGate, TypeOK
  <2>4. CASE g = h
    <3>1. outcome = "passed"
      BY <2>1, <2>4, Zenon DEF ResolveHealthGate, TypeOK
    <3>2. [gate |-> g, key |-> k, outcome |-> "passed"] \in decisions'
      BY <2>1, <2>4, <3>1, Zenon DEF ResolveHealthGate
    <3>3. PICK s \in Steps : HealthGate[s] = g /\ stepStatus[s] = "succeeded"
      BY <2>1, <2>4, Zenon DEF ResolveHealthGate, CanResolve
    <3>4. RequiredKinds[g] \subseteq kinds /\ evidence'[s] = evidence[s] \cup kinds
      BY <2>1, <2>4, <3>1, <3>3, Zenon DEF ResolveHealthGate, CanResolve
    <3>5. stepStatus'[s] = "succeeded"
      BY <3>3, NothingReopened, Zenon
    <3>6. \E d \in decisions' : d.gate = g /\ d.outcome = "passed"
      BY <3>2, Zenon
    <3> QED
      BY <3>3, <3>4, <3>5, <3>6, Zenon
  <2> QED
    BY <2>3, <2>4, Zenon
<1> QED
  BY <1>2, <1>3, <1>4, StepShape, Zenon

\* Only beginStepAttempt assigns a key, and it checks the key's owner.
LEMMA KeysStep ==
    ASSUME TypeOK, KeysIdentifySteps, [Next]_vars
    PROVE  KeysIdentifySteps'
<1>1. CASE SomeBegin
  <2>1. PICK s \in Steps, k \in Keys : BeginStepAttempt(s, k)
    BY <1>1, Zenon DEF SomeBegin, Keys
  <2>2. \A t \in Steps : stepKey'[t] = IF t = s THEN k ELSE stepKey[t]
    BY <2>1, Zenon DEF BeginStepAttempt, TypeOK
  <2>3. \A t \in Steps : stepKey[t] = k => t = s
    BY <2>1, Zenon DEF BeginStepAttempt, CanBegin
  <2> QED
    BY <2>2, <2>3, Zenon DEF KeysIdentifySteps
<1>2. CASE SomeResolve
  BY <1>2, Zenon DEF SomeResolve, ResolveHealthGate, stepVars, KeysIdentifySteps
<1>3. CASE SomeMove
  BY <1>3 DEF SomeMove, Move, StepsMove, KeysIdentifySteps
<1> QED
  BY <1>1, <1>2, <1>3, StepShape, Zenon

------------------------------------------------------------------------------
(* Retries are counted by the proofs that allow them.                      *)

\* The rows of operation_reconciliations only grow, by one new key at a time.
LEMMA ProofsGrow ==
    ASSUME TypeOK, IsFiniteSet(reconciliations), [Next]_vars
    PROVE  /\ IsFiniteSet(reconciliations')
           /\ \A s \in Steps : /\ Cardinality(NotAppliedProofs(s)) \in Nat
                               /\ Cardinality(NotAppliedProofs(s)') \in Nat
                               /\ Cardinality(NotAppliedProofs(s)) <= Cardinality(NotAppliedProofs(s)')
<1>1. /\ reconciliations \subseteq reconciliations'
      /\ reconciliations' = reconciliations \/ \E r : reconciliations' = reconciliations \cup {r}
  BY Zenon DEF Next, vars, CreateRun, StartRun, BeginStepAttempt, RecordStepOutcome, MarkOutcomeUnknown,
         ReconcileOperation, RecoverInterruptedOperations, ResolveHealthGate
<1>2. IsFiniteSet(reconciliations')
  BY <1>1, FS_AddElement, Zenon
<1>3. ASSUME NEW s \in Steps
      PROVE  /\ NotAppliedProofs(s) \subseteq NotAppliedProofs(s)'
             /\ IsFiniteSet(NotAppliedProofs(s)) /\ IsFiniteSet(NotAppliedProofs(s)')
  BY <1>1, <1>2, FS_Subset, Zenon DEF NotAppliedProofs
<1> QED
  BY <1>2, <1>3, FS_CardinalityType, FS_Subset, Zenon

\* The step a move leaves alone keeps its part of RetryInv.
LEMMA RetryKept ==
    ASSUME TypeOK, RetryInv, [Next]_vars, NEW s \in Steps, attempts'[s] = attempts[s]
    PROVE  /\ \A i \in 1..Len(attempts'[s]) :
                 i < Len(attempts'[s]) => attempts'[s][i] = "resolved_not_applied"
           /\ Len(attempts'[s]) <= Cardinality(NotAppliedProofs(s)')
                                     + (IF LatestIs(s, "resolved_not_applied")' THEN 0 ELSE 1)
<1>1. LatestIs(s, "resolved_not_applied")' <=> LatestIs(s, "resolved_not_applied")
  BY Zenon DEF LatestIs, Latest
<1>2. Len(attempts[s]) \in Nat
  BY DEF TypeOK
<1> QED
  BY <1>1, <1>2, ProofsGrow DEF RetryInv

\* A step a move changes keeps its part of RetryInv, provided a proof of
\* non-application is stored whenever the attempt is resolved as such.
LEMMA RetryMoved ==
    ASSUME TypeOK, RetryInv, [Next]_vars, NEW s \in Steps,
           NEW a, NEW b, LegalMove(a, b), LatestIs(s, a), RowsUpdated(attempts[s], attempts'[s], b),
           b = "resolved_not_applied" =>
               Cardinality(NotAppliedProofs(s)') = Cardinality(NotAppliedProofs(s)) + 1
    PROVE  /\ \A i \in 1..Len(attempts'[s]) :
                 i < Len(attempts'[s]) => attempts'[s][i] = "resolved_not_applied"
           /\ Len(attempts'[s]) <= Cardinality(NotAppliedProofs(s)')
                                     + (IF LatestIs(s, "resolved_not_applied")' THEN 0 ELSE 1)
<1>0. Len(attempts[s]) \in Nat
  BY DEF TypeOK
<1>1. /\ Len(attempts'[s]) = Len(attempts[s]) /\ Len(attempts[s]) \in Nat
      /\ LatestIs(s, "resolved_not_applied")' <=> b = "resolved_not_applied"
      /\ \A i \in 1..Len(attempts[s]) : i < Len(attempts[s]) => attempts'[s][i] = attempts[s][i]
  BY <1>0, Zenon DEF RowsUpdated, LatestIs, Latest
<1>2. ~ LatestIs(s, "resolved_not_applied")
  BY Zenon DEF LegalMove, LatestIs
<1>3. Len(attempts[s]) <= Cardinality(NotAppliedProofs(s)) + 1
  BY <1>2, Zenon DEF RetryInv
<1>4. Len(attempts'[s]) <= Cardinality(NotAppliedProofs(s)')
                             + (IF LatestIs(s, "resolved_not_applied")' THEN 0 ELSE 1)
  <2>1. /\ Cardinality(NotAppliedProofs(s)) \in Nat /\ Cardinality(NotAppliedProofs(s)') \in Nat
        /\ Cardinality(NotAppliedProofs(s)) <= Cardinality(NotAppliedProofs(s)')
    BY ProofsGrow, Zenon DEF RetryInv
  <2>2. PICK m \in Nat, n \in Nat, k \in Nat :
            /\ m = Cardinality(NotAppliedProofs(s)) /\ n = Cardinality(NotAppliedProofs(s)')
            /\ k = Len(attempts[s])
    BY <1>0, <2>1, Zenon
  <2>3. m <= n /\ k <= m + 1 /\ (b = "resolved_not_applied" => n = m + 1)
    BY <1>3, <2>1, <2>2, Zenon
  <2>4. k <= n + (IF b = "resolved_not_applied" THEN 0 ELSE 1)
    BY <2>3
  <2>5. Len(attempts'[s]) = k /\ (LatestIs(s, "resolved_not_applied")' <=> b = "resolved_not_applied")
    BY <1>1, <2>2, Zenon
  <2> QED BY <2>2, <2>4, <2>5, Zenon
<1> QED
  BY <1>1, <1>4, Zenon DEF RetryInv

\* An operation that opens no attempt and resolves none as not applied.
LEMMA RetryMove ==
    ASSUME TypeOK, RetryInv, [Next]_vars, NEW M \in SUBSET Steps, NEW a, NEW b,
           LegalMove(a, b), b # "resolved_not_applied", Move(M, a, b)
    PROVE  RetryInv'
<1>1. \A s \in M : LatestIs(s, a) /\ RowsUpdated(attempts[s], attempts'[s], b)
  BY Zenon DEF Move, StepsMove
<1>2. \A s \in Steps \ M : attempts'[s] = attempts[s]
  BY Zenon DEF Move, StepsMove
<1>3. IsFiniteSet(reconciliations')
  BY ProofsGrow, Zenon DEF RetryInv
<1> QED
  BY <1>1, <1>2, <1>3, RetryKept, RetryMoved, Zenon DEF RetryInv

\* A new attempt is opened only after the previous one is resolved, and a
\* resolution as not applied stores a row under a key not used before.
LEMMA RetryStep ==
    ASSUME TypeOK, StepMatchesAttempt, RetryInv, [Next]_vars
    PROVE  RetryInv'
<1> USE StatusNames
<1>1. CASE CreateRun \/ StartRun \/ UNCHANGED vars \/ SomeResolve
  <2>1. \A s \in Steps : attempts'[s] = attempts[s]
    BY <1>1, Zenon DEF CreateRun, StartRun, vars, stepVars, SomeResolve, ResolveHealthGate
  <2> QED
    BY <2>1, RetryKept, ProofsGrow, Zenon DEF RetryInv
<1>2. ASSUME NEW s \in Steps, NEW k \in StepKeys[s], BeginStepAttempt(s, k)
      PROVE  RetryInv'
  <2>1. /\ attempts'[s] = Append(attempts[s], "intent_recorded")
        /\ \A t \in Steps : t # s => attempts'[t] = attempts[t]
    BY <1>2, Zenon DEF BeginStepAttempt, TypeOK
  <2>2. /\ Len(attempts[s]) \in Nat
        /\ Len(attempts'[s]) = Len(attempts[s]) + 1
        /\ \A i \in 1..Len(attempts[s]) : attempts'[s][i] = attempts[s][i]
        /\ ~ LatestIs(s, "resolved_not_applied")'
    BY <2>1, InsertRow DEF TypeOK, LatestIs, Latest
  <2>3. attempts[s] # <<>> => LatestIs(s, "resolved_not_applied")
    BY <1>2, Zenon DEF BeginStepAttempt, CanBegin, StepMatchesAttempt
  <2>4. /\ Len(attempts[s]) <= Cardinality(NotAppliedProofs(s))
        /\ \A i \in 1..Len(attempts[s]) : attempts[s][i] = "resolved_not_applied"
    <3>1. CASE attempts[s] = <<>>
      <4>1. Len(attempts[s]) = 0
        BY <3>1
      <4>2. Cardinality(NotAppliedProofs(s)) \in Nat
        BY ProofsGrow, Zenon DEF RetryInv
      <4> QED
        BY <4>1, <4>2
    <3>2. CASE attempts[s] # <<>>
      <4>1. LatestIs(s, "resolved_not_applied")
        BY <2>3, <3>2, Zenon
      <4>2. Cardinality(NotAppliedProofs(s)) \in Nat
        BY ProofsGrow, Zenon DEF RetryInv
      <4>3. Len(attempts[s]) <= Cardinality(NotAppliedProofs(s))
        BY <2>2, <4>1, <4>2 DEF RetryInv
      <4>4. attempts[s][Len(attempts[s])] = "resolved_not_applied"
        BY <4>1, Zenon DEF LatestIs, Latest
      <4>5. \A i \in 1..Len(attempts[s]) :
                i < Len(attempts[s]) => attempts[s][i] = "resolved_not_applied"
        BY Zenon DEF RetryInv
      <4>6. ASSUME NEW i \in 1..Len(attempts[s])
            PROVE  attempts[s][i] = "resolved_not_applied"
        BY <2>2, <4>4, <4>5
      <4> QED
        BY <4>3, <4>6, Zenon
    <3> QED
      BY <3>1, <3>2, Zenon
  <2>5. Len(attempts'[s]) <= Cardinality(NotAppliedProofs(s)')
                               + (IF LatestIs(s, "resolved_not_applied")' THEN 0 ELSE 1)
    <3>1. PICK m \in Nat, n \in Nat, len \in Nat :
              /\ m = Cardinality(NotAppliedProofs(s)) /\ n = Cardinality(NotAppliedProofs(s)')
              /\ len = Len(attempts[s])
      BY <2>2, ProofsGrow, Zenon DEF RetryInv
    <3>2. m <= n
      BY <3>1, ProofsGrow, Zenon DEF RetryInv
    <3>3. len + 1 <= n + 1
      BY <2>4, <3>1, <3>2
    <3>4. Len(attempts'[s]) = len + 1 /\ ~ LatestIs(s, "resolved_not_applied")'
      BY <2>2, <3>1, Zenon
    <3> QED BY <3>1, <3>3, <3>4, Zenon
  <2>6. ASSUME NEW i \in 1..Len(attempts'[s]), i < Len(attempts'[s])
        PROVE  attempts'[s][i] = "resolved_not_applied"
    <3>1. i \in 1..Len(attempts[s])
      BY <2>2, <2>6
    <3> QED BY <2>2, <2>4, <3>1, Zenon
  <2> QED
    BY <2>1, <2>5, <2>6, RetryKept, ProofsGrow, Zenon DEF RetryInv
<1>3. ASSUME NEW s \in Steps, NEW outcome \in {"succeeded", "failed"}, NEW kinds \in SUBSET Kinds,
             RecordStepOutcome(s, outcome, kinds)
      PROVE  RetryInv'
  <2>1. /\ Move({s}, "intent_recorded", outcome) /\ LegalMove("intent_recorded", outcome)
        /\ outcome # "resolved_not_applied" /\ {s} \in SUBSET Steps
    BY <1>3, RecordMoves, Zenon DEF LegalMove
  <2> QED
    BY <2>1, RetryMove, Zenon
<1>4. ASSUME NEW s \in Steps, MarkOutcomeUnknown(s)
      PROVE  RetryInv'
  <2>1. /\ Move({s}, "intent_recorded", "outcome_unknown")
        /\ LegalMove("intent_recorded", "outcome_unknown") /\ {s} \in SUBSET Steps
    BY <1>4, MarkMoves, Zenon DEF LegalMove
  <2> QED
    BY <2>1, RetryMove, Zenon
<1>5. CASE RecoverInterruptedOperations
  <2>1. /\ Move(Interrupted, "intent_recorded", "outcome_unknown")
        /\ LegalMove("intent_recorded", "outcome_unknown") /\ Interrupted \in SUBSET Steps
    BY <1>5, RecoverMoves, Zenon DEF LegalMove, Interrupted
  <2> QED
    BY <2>1, RetryMove, Zenon
<1>6. ASSUME NEW s \in Steps, NEW k \in ReconcileKeys, NEW outcome \in ReconcileOutcome,
             NEW kinds \in SUBSET Kinds, ReconcileOperation(s, k, outcome, kinds)
      PROVE  RetryInv'
  <2>1. CASE outcome = "applied"
    <3>1. /\ Move({s}, "outcome_unknown", "succeeded")
          /\ LegalMove("outcome_unknown", "succeeded") /\ {s} \in SUBSET Steps
      BY <1>6, <2>1, ReconcileMoves, Zenon DEF LegalMove
    <3> QED
      BY <3>1, RetryMove, Zenon
  <2>2. CASE outcome = "still_unknown"
    <3>1. \A t \in Steps : attempts'[t] = attempts[t]
      BY <1>6, <2>2, ReconcileMoves, Zenon
    <3> QED
      BY <3>1, RetryKept, ProofsGrow, Zenon DEF RetryInv
  <2>3. CASE outcome = "not_applied"
    <3> DEFINE row == [key |-> k, step |-> s, outcome |-> outcome, kinds |-> kinds]
    <3>1. Move({s}, "outcome_unknown", "resolved_not_applied")
      BY <1>6, <2>3, ReconcileMoves, Zenon
    <3>2. row \notin reconciliations /\ reconciliations' = reconciliations \cup {row}
      BY <1>6, Zenon DEF ReconcileOperation, CanReconcile
    <3>3. NotAppliedProofs(s)' = NotAppliedProofs(s) \cup {row} /\ row \notin NotAppliedProofs(s)
      BY <2>3, <3>2 DEF NotAppliedProofs
    <3>4. IsFiniteSet(NotAppliedProofs(s))
      BY FS_Subset, Zenon DEF NotAppliedProofs, RetryInv
    <3>5. Cardinality(NotAppliedProofs(s)') = Cardinality(NotAppliedProofs(s)) + 1
      BY <3>3, <3>4, FS_AddElement, Zenon
    <3>6. /\ LatestIs(s, "outcome_unknown")
          /\ RowsUpdated(attempts[s], attempts'[s], "resolved_not_applied")
          /\ \A t \in Steps : t # s => attempts'[t] = attempts[t]
      BY <3>1, Zenon DEF Move, StepsMove
    <3>7. LegalMove("outcome_unknown", "resolved_not_applied")
      BY Zenon DEF LegalMove
    <3>8. /\ \A i \in 1..Len(attempts'[s]) :
                 i < Len(attempts'[s]) => attempts'[s][i] = "resolved_not_applied"
          /\ Len(attempts'[s]) <= Cardinality(NotAppliedProofs(s)')
                                    + (IF LatestIs(s, "resolved_not_applied")' THEN 0 ELSE 1)
      BY <3>5, <3>6, <3>7, RetryMoved, Zenon
    <3> QED
      BY <3>6, <3>8, RetryKept, ProofsGrow, Zenon DEF RetryInv
  <2> QED
    BY <2>1, <2>2, <2>3, Zenon DEF ReconcileOutcome
<1> QED
  BY <1>1, <1>2, <1>3, <1>4, <1>5, <1>6, Zenon DEF Next, SomeResolve

------------------------------------------------------------------------------
(* The status of the run.                                                  *)

AllDone == (\A s \in Steps : stepStatus[s] = "succeeded") /\ (\A g \in Gates : gateStatus[g] = "passed")

\* An ambiguous operation keeps its step from counting as done.
LEMMA UnknownNotDone ==
    ASSUME StepMatchesAttempt, NEW s \in Steps, LatestIs(s, "outcome_unknown")
    PROVE  ~ AllDone
  BY StepStatusNames, Zenon DEF StepMatchesAttempt, LatestIs, AllDone

\* The two ways an operation ends: with or without maybeCompleteRun.
LEMMA CompleteEffect ==
    ASSUME NEW rs, AppendEventAndComplete(rs)
    PROVE  \/ /\ runStatus' = "succeeded" /\ AllDone'
              /\ rs \notin {"failed", "paused_outcome_unknown"}
           \/ runStatus' = rs
  BY Zenon DEF AppendEventAndComplete, Completes, AllDone

\* A run with an ambiguous operation stays paused or failed until the
\* operation is reconciled.
LEMMA UnknownStep ==
    ASSUME TypeOK, StepMatchesAttempt, UnknownBlocksRun, [Next]_vars
    PROVE  UnknownBlocksRun'
<1> SUFFICES ASSUME NEW u \in Steps, LatestIs(u, "outcome_unknown")'
             PROVE  runStatus' \in {"paused_outcome_unknown", "failed"}
  BY Zenon DEF UnknownBlocksRun
<1>1. ~ AllDone'
  BY MatchStep, UnknownNotDone, Zenon DEF StepMatchesAttempt, LatestIs, Latest, AllDone, StepStatusOf
<1>2. CASE UNCHANGED <<attempts, runStatus>>
  BY <1>2, Zenon DEF UnknownBlocksRun, LatestIs, Latest
<1>3. CASE CreateRun \/ StartRun
  BY <1>3, Zenon DEF CreateRun, StartRun, stepVars, UnknownBlocksRun, LatestIs, Latest
<1>4. ASSUME NEW s \in Steps, NEW k \in StepKeys[s], BeginStepAttempt(s, k)
      PROVE  FALSE
  <2>1. /\ runStatus = "running" /\ attempts'[s] = Append(attempts[s], "intent_recorded")
        /\ \A t \in Steps : t # s => attempts'[t] = attempts[t]
    BY <1>4, Zenon DEF BeginStepAttempt, CanBegin, TypeOK
  <2>2. ~ LatestIs(s, "outcome_unknown")'
    <3>1. attempts[s] \in Seq(AttemptStatus) /\ "intent_recorded" \in AttemptStatus
      BY StatusNames, Zenon DEF TypeOK
    <3>2. Append(attempts[s], "intent_recorded")[Len(Append(attempts[s], "intent_recorded"))]
              = "intent_recorded"
      BY <3>1, InsertedIsLatest, Zenon
    <3>3. attempts'[s][Len(attempts'[s])] = "intent_recorded"
      BY <2>1, <3>2, Zenon
    <3> QED
      BY <3>3, Zenon DEF LatestIs, Latest
  <2> QED
    BY <2>1, <2>2, Zenon DEF UnknownBlocksRun, LatestIs, Latest
<1>5. ASSUME NEW s \in Steps, NEW outcome \in {"succeeded", "failed"}, NEW kinds \in SUBSET Kinds,
             RecordStepOutcome(s, outcome, kinds)
      PROVE  runStatus' \in {"paused_outcome_unknown", "failed"}
  <2>1. StepsMove({s}, "intent_recorded", outcome)
    BY <1>5, RecordMoves, Zenon DEF Move
  <2>2. u # s /\ attempts'[u] = attempts[u]
    BY <2>1, Zenon DEF StepsMove, RowsUpdated, LatestIs, Latest
  <2>3. runStatus \in {"paused_outcome_unknown", "failed"}
    BY <2>2, Zenon DEF UnknownBlocksRun, LatestIs, Latest
  <2>4. runStatus' = "failed" \/ AppendEventAndComplete(runStatus)
    BY <1>5, Zenon DEF RecordStepOutcome, AppendEvent
  <2> QED
    BY <1>1, <2>3, <2>4, CompleteEffect, Zenon
<1>6. CASE RecoverInterruptedOperations \/ \E s \in Steps : MarkOutcomeUnknown(s)
  BY <1>6, Zenon DEF RecoverInterruptedOperations, MarkOutcomeUnknown, AppendEvent
<1>7. ASSUME NEW s \in Steps, NEW k \in ReconcileKeys, NEW outcome \in ReconcileOutcome,
             NEW kinds \in SUBSET Kinds, ReconcileOperation(s, k, outcome, kinds)
      PROVE  runStatus' \in {"paused_outcome_unknown", "failed"}
  <2>1. runStatus \in {"paused_outcome_unknown", "failed"}
    BY <1>7, Zenon DEF ReconcileOperation, CanReconcile, UnknownBlocksRun
  <2>2. Active(attempts', u)
    BY Zenon DEF Active, LatestIs, Latest
  <2>3. Resume(attempts', stepStatus') = runStatus
    BY <2>2, Zenon DEF Resume
  <2>4. AppendEventAndComplete(runStatus)
    BY <1>7, <2>3, Zenon DEF ReconcileOperation
  <2> QED
    BY <1>1, <2>1, <2>4, CompleteEffect, Zenon
<1>8. CASE SomeResolve
  BY <1>8 DEF SomeResolve, ResolveHealthGate, CanResolve, stepVars, UnknownBlocksRun, LatestIs, Latest
<1> QED
  BY <1>2, <1>3, <1>4, <1>5, <1>6, <1>7, <1>8, Zenon DEF Next, SomeResolve, vars

\* A run becomes succeeded only by maybeCompleteRun, and then nothing moves.
LEMMA SucceededStep ==
    ASSUME TypeOK, StepMatchesAttempt, DecidedGateIsMeasured, SucceededIsComplete, [Next]_vars
    PROVE  SucceededIsComplete'
<1> SUFFICES ASSUME runStatus' = "succeeded"
             PROVE  AllDone'
  BY Zenon DEF SucceededIsComplete, AllDone
<1>1. CASE runStatus = "succeeded"
  BY <1>1, NothingReopened, Zenon DEF SucceededIsComplete, AllDone, GateOutcome
<1>2. CASE runStatus # "succeeded"
  <2>1. ASSUME NEW rs, rs # "succeeded", AppendEventAndComplete(rs)
        PROVE  AllDone'
    BY <2>1, CompleteEffect, Zenon
  <2>2. Resume(attempts', stepStatus') # "succeeded"
    BY <1>2, Zenon DEF Resume
  <2> QED
    BY <1>2, <2>1, <2>2, Zenon
       DEF Next, vars, CreateRun, StartRun, BeginStepAttempt, RecordStepOutcome, MarkOutcomeUnknown,
           ReconcileOperation, RecoverInterruptedOperations, ResolveHealthGate, AppendEvent
<1> QED
  BY <1>1, <1>2, Zenon
------------------------------------------------------------------------------
(* The theorems.                                                           *)

\* It holds of the empty ledger ...
LEMMA LedgerInit == Init => IInv
<1> SUFFICES ASSUME Init
             PROVE  IInv
  BY Zenon
<1>1. TypeOK
  BY StatusNames DEF Init, TypeOK, RunStatus
<1>2. RetryInv
  <2>1. \A s \in Steps : Cardinality(NotAppliedProofs(s)) = 0
    BY FS_EmptySet, Zenon DEF Init, NotAppliedProofs
  <2> QED
    BY <2>1, FS_EmptySet DEF Init, RetryInv
<1> QED
  BY <1>1, <1>2, Zenon DEF Init, IInv, StepMatchesAttempt, StartedStepsAreJustified, UnknownBlocksRun,
     LatestIs, SucceededIsComplete, DecidedGateIsMeasured, PassedGateIsMeasured, KeysIdentifySteps,
     GateOutcome

\* ... and every operation of the ledger keeps it.
LEMMA LedgerStep == IInv /\ [Next]_vars => IInv'
  BY TypeStep, MatchStep, RetryStep, JustifiedStep, UnknownStep, SucceededStep, DecidedStep,
     PassedStep, KeysStep, Zenon DEF IInv

\* The inductive invariant holds of every state the ledger reaches.
THEOREM Invariance == Spec => []IInv
  BY LedgerInit, LedgerStep, PTL DEF Spec

\* run_steps and step_attempts agree, whatever the blueprint and the clients.
THEOREM TablesAgree == Spec => []StepMatchesAttempt
  BY Invariance, PTL DEF IInv

\* At-most-once dispatch: an attempt is followed by another only after a stored
\* proof, of its own, that it was not applied.
THEOREM AtMostOnce == Spec => []RetryOnlyAfterProof
<1>1. IInv => RetryOnlyAfterProof
  <2> SUFFICES ASSUME IInv, NEW s \in Steps
               PROVE  Len(attempts[s]) <= 1 + Cardinality(NotAppliedProofs(s))
    BY Zenon DEF IInv, RetryInv, RetryOnlyAfterProof, NotAppliedProofs
  <2>1. IsFiniteSet(NotAppliedProofs(s))
    BY FS_Subset, Zenon DEF IInv, RetryInv, NotAppliedProofs
  <2>2. Cardinality(NotAppliedProofs(s)) \in Nat /\ Len(attempts[s]) \in Nat
    BY <2>1, FS_CardinalityType DEF IInv, TypeOK
  <2> QED
    BY <2>2 DEF IInv, RetryInv
<1> QED
  BY <1>1, Invariance, PTL

\* What a dispatched step was justified by is never taken back.
THEOREM Justified == Spec => []StartedStepsAreJustified
  BY Invariance, PTL DEF IInv

\* An ambiguous operation blocks the run.
THEOREM UnknownBlocks == Spec => []UnknownBlocksRun
  BY Invariance, PTL DEF IInv

\* A succeeded run is complete.
THEOREM SuccessIsComplete == Spec => []SucceededIsComplete
  BY Invariance, PTL DEF IInv

\* A passed gate was measured, decided and evidenced.
THEOREM PassedIsMeasured == Spec => []PassedGateIsMeasured
  BY Invariance, PTL DEF IInv

\* No two steps share an idempotency key.
THEOREM KeysAreUnique == Spec => []KeysIdentifySteps
  BY Invariance, PTL DEF IInv

\* Conclusions are final: decided gates, concluded attempts, succeeded runs.
THEOREM FinalConclusions == Spec => ConclusionsAreFinal
<1>1. IInv /\ [Next]_vars => [ConclusionsKept]_vars
  <2> SUFFICES ASSUME IInv, [Next]_vars
               PROVE  ConclusionsKept
    BY Zenon
  <2> USE DEF IInv
  <2>1. \A g \in Gates : gateStatus[g] \in GateOutcome => gateStatus'[g] = gateStatus[g]
    BY NothingReopened, Zenon
  <2>2. ASSUME NEW s \in Steps, NEW i \in 1..Len(attempts[s]),
               attempts[s][i] \in {"succeeded", "failed", "resolved_not_applied"}
        PROVE  i <= Len(attempts'[s]) /\ attempts'[s][i] = attempts[s][i]
    <3>0. Len(attempts[s]) \in Nat /\ i <= Len(attempts[s])
      <4>1. Len(attempts[s]) \in Nat
        BY DEF TypeOK
      <4> QED
        BY <4>1
    <3>1. CASE SomeResolve
      <4>1. attempts' = attempts
        BY <3>1, Zenon DEF SomeResolve, ResolveHealthGate, stepVars
      <4> QED
        BY <3>0, <4>1, Zenon
    <3>2. CASE SomeBegin
      <4>1. attempts'[s] = attempts[s] \/ attempts'[s] = Append(attempts[s], "intent_recorded")
        BY <3>2, Zenon DEF SomeBegin, BeginStepAttempt, TypeOK
      <4>2. Len(attempts[s]) \in Nat /\ attempts[s] \in Seq(AttemptStatus)
        BY DEF TypeOK
      <4>3. CASE attempts'[s] = attempts[s]
        BY <3>0, <4>3, Zenon
      <4>4. CASE attempts'[s] = Append(attempts[s], "intent_recorded")
        <5>1. /\ Len(Append(attempts[s], "intent_recorded")) = Len(attempts[s]) + 1
              /\ Append(attempts[s], "intent_recorded")[i] = attempts[s][i]
          BY <4>2, InsertRow, StatusNames, Zenon
        <5>2. Len(attempts'[s]) = Len(attempts[s]) + 1 /\ attempts'[s][i] = attempts[s][i]
          BY <4>4, <5>1, Zenon
        <5>3. i <= Len(attempts[s]) + 1
          BY <3>0
        <5> QED
          BY <5>2, <5>3, Zenon
      <4> QED
        BY <4>1, <4>3, <4>4, Zenon
    <3>3. ASSUME NEW M \in SUBSET Steps, NEW a \in AttemptStatus, NEW b \in AttemptStatus,
                 LegalMove(a, b), Move(M, a, b)
          PROVE  i <= Len(attempts'[s]) /\ attempts'[s][i] = attempts[s][i]
      <4>1. CASE s \notin M
        <5>1. attempts'[s] = attempts[s]
          BY <3>3, <4>1, Zenon DEF Move, StepsMove
        <5> QED
          BY <3>0, <5>1, Zenon
      <4>2. CASE s \in M
        <5>1. LatestIs(s, a) /\ RowsUpdated(attempts[s], attempts'[s], b)
          BY <3>3, <4>2, Zenon DEF Move, StepsMove
        <5>2. i # Len(attempts[s])
          BY <2>2, <3>3, <5>1, Zenon DEF LegalMove, LatestIs, Latest
        <5>3. Len(attempts[s]) \in Nat
          BY DEF TypeOK
        <5> QED
          BY <5>1, <5>2, <5>3, EarlierRowKept, Zenon
      <4> QED
        BY <4>1, <4>2, Zenon
    <3> QED
      BY <3>1, <3>2, <3>3, StepShape, Zenon DEF SomeMove
  <2>3. ASSUME runStatus = "succeeded"
        PROVE  runStatus' = "succeeded"
    <3>1. \A s \in Steps : stepStatus[s] = "succeeded"
      BY <2>3, Zenon DEF SucceededIsComplete
    <3>2. \A s \in Steps : ~ LatestIs(s, "intent_recorded") /\ ~ LatestIs(s, "outcome_unknown")
      BY <3>1, StepStatusNames, Zenon DEF StepMatchesAttempt, LatestIs
    <3>3. Interrupted = {}
      BY <3>2, Zenon DEF Interrupted
    <3> QED
      BY <2>3, <3>2, <3>3, Zenon
         DEF Next, vars, CreateRun, StartRun, BeginStepAttempt, CanBegin, RecordStepOutcome,
             MarkOutcomeUnknown, ReconcileOperation, CanReconcile, RecoverInterruptedOperations,
             ResolveHealthGate, CanResolve
  <2> QED
    BY <2>1, <2>2, <2>3, Zenon DEF ConclusionsKept
<1> QED
  BY <1>1, Invariance, PTL DEF Spec, ConclusionsAreFinal

\* Every operation of the ledger appends at least one event.
LEMMA SeqAdvances ==
    ASSUME TypeOK, Next
    PROVE  lastSeq' > lastSeq
<1>1. lastSeq \in Nat
  BY Zenon DEF TypeOK
<1>2. ASSUME NEW rs, AppendEventAndComplete(rs) \/ AppendEvent(rs)
      PROVE  lastSeq' > lastSeq
  BY <1>1, <1>2 DEF AppendEventAndComplete, AppendEvent
<1>3. CASE RecoverInterruptedOperations
  <2>1. IsFiniteSet(Interrupted) /\ Interrupted # {}
    BY <1>3, ConstantTypes, FS_Subset, Zenon DEF Interrupted, RecoverInterruptedOperations
  <2>2. Cardinality(Interrupted) \in Nat /\ Cardinality(Interrupted) # 0
    BY <2>1, FS_CardinalityType, FS_EmptySet, Zenon
  <2>3. lastSeq' = lastSeq + Cardinality(Interrupted)
    BY <1>3, Zenon DEF RecoverInterruptedOperations
  <2> QED
    BY <1>1, <2>2, <2>3
<1> QED
  BY <1>2, <1>3, Zenon DEF Next, CreateRun, StartRun, BeginStepAttempt, RecordStepOutcome,
     MarkOutcomeUnknown, ReconcileOperation, ResolveHealthGate

\* last_seq is a version of the run: what it shows cannot change without it.
THEOREM SeqIsVersion == Spec => ChangesAdvanceSeq
<1>1. TypeOK /\ [Next]_vars => [Visible' # Visible => lastSeq' > lastSeq]_vars
  BY SeqAdvances, Zenon
<1> QED
  BY <1>1, TypeCorrect, PTL DEF Spec, ChangesAdvanceSeq
------------------------------------------------------------------------------
(* What the executor adds to the ledger.                                   *)

Concluded == {"succeeded", "failed"}
Ambiguous == {"reconciling", "observed"}
Executing == {"executing", "dispatched"}
Pcs == {"idle", "loop", "authorizing", "gate"} \cup Executing \cup Ambiguous

Calls == [pc : Pcs, step : Steps \cup {NoStep}, obs : {"none", "applied", "not_applied"},
          kinds : SUBSET Kinds, pass : Nat]

ExecTypeOK ==
    /\ up \in BOOLEAN
    /\ call \in [Callers -> Calls]
    /\ \A c \in Callers : call[c].pc \notin {"idle", "loop"} => call[c].step \in Steps
    /\ \A c \in Callers : call[c].pc = "observed" => call[c].obs # "none"
    /\ effects \in [Steps -> Seq({"inflight", "done", "lost"})]

\* What is still standing of the dispatches of a step.
Standing(s) == Done(s) \cup InFlight(s)

\* Steps are begun in order, each after the earlier ones were concluded.
StepsInOrder ==
    \A i, j \in 1..Len(Order) :
        i < j /\ stepStatus[Order[j]] # "pending" => stepStatus[Order[i]] \in Concluded

\* What a call may rely on when its await resumes.
CallKnows(c) ==
    LET s == call[c].step
    IN  /\ call[c].pc = "authorizing" =>
              \A i, j \in 1..Len(Order) : i < j /\ Order[j] = s => stepStatus[Order[i]] \in Concluded
        /\ call[c].pc \in Executing => stepStatus[s] = "in_progress"
        /\ call[c].pc = "executing" => Standing(s) = {}
        /\ call[c].pc \in Ambiguous => stepStatus[s] = "outcome_unknown" \/ Prior(s) # {}
        /\ call[c].pc = "observed" /\ s \in External =>
              IF call[c].obs = "applied" THEN Done(s) # {} ELSE Prior(s) # {} \/ Standing(s) = {}

\* The calls of a process that is down are gone, and an operation has one call executing it.
CallsAgree ==
    /\ ~ up => \A c \in Callers : call[c].pc = "idle"
    /\ \A c, d \in Callers :
          call[c].pc \in Executing /\ call[d].pc \in Executing /\ call[c].step = call[d].step => c = d
    /\ \A c \in Callers : CallKnows(c)

\* The world and the ledger: of the dispatches of a step one at most still stands, none
\* while it is pending, and one took place when it succeeded; a reading step has none.
EffectsAgree ==
    \A s \in Steps :
        /\ \A i, j \in Standing(s) : i = j
        /\ stepStatus[s] = "pending" => Standing(s) = {}
        /\ s \in External /\ stepStatus[s] = "succeeded" => Done(s) # {}
        /\ s \notin External => Standing(s) = {}

\* The inductive invariant.
ExecInv == IInv /\ ExecTypeOK /\ StepsInOrder /\ CallsAgree /\ EffectsAgree
------------------------------------------------------------------------------
(* The executor and its ledger.                                            *)

\* What the evidence and the key of a step are, whatever the capability.
LEMMA EvidenceIsTyped ==
    /\ ProvidedKinds \subseteq SUBSET Kinds
    /\ \A s \in Steps : s \in StepKeys[s] /\ s \in ReconcileKeys
    /\ \A g \in Gates : g \in GateKeys
  BY ExecutorKeys, ExecutorConstants DEF ProvidedKinds

\* Every step of the executor, of a crash and of the world is a step of the ledger or leaves
\* it alone.
LEMMA StepOfLedger ==
    ASSUME ExecTypeOK, [ExecNext]_allVars
    PROVE  [Next]_vars
  <1> USE DEF ExecTypeOK
  <1>1. CASE Create \/ Crash \/ Restart
    BY <1>1, Zenon DEF Create, Crash, Restart, Next
  <1>2. CASE WorldStep \/ UNCHANGED allVars
    BY <1>2, Zenon DEF WorldStep, Settle, allVars
  <1>3. ASSUME NEW c \in Callers, Advance(c)
        PROVE  [Next]_vars
    BY <1>3, Zenon DEF Advance, Next
  <1>4. ASSUME NEW c \in Callers,
               \/ Stop(c) \/ StartReconcile(c) \/ StartAuthorize(c) \/ Denied(c)
               \/ AlreadyCompleted(c) \/ BeginRefused(c) \/ Dispatch(c) \/ ReconcileUnknown(c)
               \/ ReconcileReplayed(c) \/ ReconcileRefused(c) \/ NoGateToResolve(c) \/ GateBlocked(c)
               \/ \E obs \in {"applied", "not_applied"}, kinds \in ProvidedKinds : Observe(c, obs, kinds)
        PROVE  UNCHANGED vars
    BY <1>4, Zenon DEF Stop, StartReconcile, StartAuthorize, Denied, AlreadyCompleted, BeginRefused, Dispatch,
                ReconcileUnknown, ReconcileReplayed, ReconcileRefused, NoGateToResolve, GateBlocked, Observe
  <1>5. ASSUME NEW c \in Callers, Begin(c)
        PROVE  Next
    <2>1. call[c].step \in Steps /\ BeginStepAttempt(call[c].step, call[c].step)
      BY <1>5, Zenon DEF Begin, Runs
    <2> QED BY <2>1, EvidenceIsTyped, Zenon DEF Next
  <1>6. ASSUME NEW c \in Callers, ExecuteUnknown(c) \/ ExecuteFailed(c)
        PROVE  Next
    <2>1. /\ call[c].step \in Steps
          /\ MarkOutcomeUnknown(call[c].step) \/ RecordStepOutcome(call[c].step, "failed", {})
      BY <1>6, Zenon DEF ExecuteUnknown, ExecuteFailed, Runs
    <2>2. {} \in SUBSET Kinds
      BY Zenon
    <2> QED BY <2>1, <2>2, Zenon DEF Next
  <1>7. ASSUME NEW c \in Callers, NEW kinds \in ProvidedKinds, ExecuteSucceeded(c, kinds)
        PROVE  Next
    <2>1. call[c].step \in Steps /\ RecordStepOutcome(call[c].step, "succeeded", kinds)
      BY <1>7, Zenon DEF ExecuteSucceeded, Runs
    <2> QED BY <2>1, EvidenceIsTyped, Zenon DEF Next
  <1>8. ASSUME NEW c \in Callers, Reconciled(c)
        PROVE  Next
    <2>1. /\ call[c].step \in Steps /\ call[c].obs \in ReconcileOutcome /\ call[c].kinds \in SUBSET Kinds
          /\ ReconcileOperation(call[c].step, call[c].step, call[c].obs, call[c].kinds)
      BY <1>8, Zenon DEF Reconciled, Runs, Calls, ReconcileOutcome
    <2> QED BY <2>1, EvidenceIsTyped, Zenon DEF Next
  <1>9. ASSUME NEW c \in Callers, PassGate(c)
        PROVE  Next
    <2>1. PICK g \in Gates : ResolveHealthGate(g, g, "passed", call[c].kinds)
      BY <1>9, Zenon DEF PassGate, MeasuredGate
    <2>2. call[c].kinds \in SUBSET Kinds /\ "passed" \in GateOutcome
      BY Zenon DEF Calls, GateOutcome
    <2> QED BY <2>1, <2>2, EvidenceIsTyped, Zenon DEF Next
  <1> QED BY <1>1, <1>2, <1>3, <1>4, <1>5, <1>6, <1>7, <1>8, <1>9, Zenon DEF ExecNext, Proceed

\* A step's status goes from one value to another.
Turns(s, from, to) == stepStatus[s] = from /\ stepStatus' = [stepStatus EXCEPT ![s] = to]

\* beginStepAttempt, markOutcomeUnknown, recordStepOutcome and resolveHealthGate as the
\* executor sees them.
LEMMA LedgerOperations ==
    ASSUME TypeOK, StepMatchesAttempt, NEW s \in Steps
    PROVE  /\ \A k : BeginStepAttempt(s, k) =>
                  Turns(s, "pending", "in_progress") /\ UNCHANGED reconciliations
           /\ MarkOutcomeUnknown(s) =>
                  Turns(s, "in_progress", "outcome_unknown") /\ UNCHANGED reconciliations
           /\ \A outcome, kinds : RecordStepOutcome(s, outcome, kinds) =>
                  Turns(s, "in_progress", outcome) /\ UNCHANGED reconciliations
           /\ \A g, k, outcome, kinds : ResolveHealthGate(g, k, outcome, kinds) =>
                  UNCHANGED <<stepStatus, reconciliations>>
  BY StepStatusNames, Zenon DEF BeginStepAttempt, CanBegin, MarkOutcomeUnknown, RecordStepOutcome,
     ResolveHealthGate, Turns, StepMatchesAttempt, LatestIs, stepVars

\* A reconciliation under the step's own key is the first of the step, and there is no other.
LEMMA LedgerReconciles ==
    ASSUME TypeOK, StepMatchesAttempt, NEW s \in Steps, NEW obs \in {"applied", "not_applied"}, NEW kinds,
           ReconcileOperation(s, s, obs, kinds)
    PROVE  /\ Turns(s, "outcome_unknown", IF obs = "applied" THEN "succeeded" ELSE "pending")
           /\ Prior(s) = {} /\ Prior(s)' # {}
           /\ \A t \in Steps \ {s} : Prior(t)' = Prior(t)
  <1>1. Turns(s, "outcome_unknown", IF obs = "applied" THEN "succeeded" ELSE "pending")
    BY StepStatusNames, Zenon DEF ReconcileOperation, CanReconcile, Turns, StepMatchesAttempt, LatestIs
  <1>2. Prior(s) = {}
    BY Zenon DEF ReconcileOperation, CanReconcile, Prior
  <1> DEFINE row == [key |-> s, step |-> s, outcome |-> obs, kinds |-> kinds]
  <1>3. reconciliations' = reconciliations \cup {row} /\ row.key = s
    BY Zenon DEF ReconcileOperation
  <1> HIDE DEF row
  <1>4. Prior(s)' # {}
    BY <1>3, Zenon DEF Prior
  <1>5. ASSUME NEW t \in Steps \ {s}
        PROVE  Prior(t)' = Prior(t)
    BY <1>3, Zenon DEF Prior
  <1> QED BY <1>1, <1>2, <1>4, <1>5, Zenon

\* Startup recovery makes every operation in progress ambiguous.
LEMMA LedgerRecovers ==
    ASSUME TypeOK, StepMatchesAttempt, RecoverInterruptedOperations
    PROVE  /\ UNCHANGED reconciliations
           /\ stepStatus' \in [Steps -> StepStatus]
           /\ \A s \in Steps : \/ stepStatus'[s] = stepStatus[s]
                               \/ stepStatus[s] = "in_progress" /\ stepStatus'[s] = "outcome_unknown"
  BY StepStatusNames, Zenon DEF RecoverInterruptedOperations, Interrupted, StepMatchesAttempt, LatestIs, TypeOK,
     StepStatus
------------------------------------------------------------------------------
(* What a step of one call leaves to the others.                           *)

\* Everything of the invariant but the ledger's own part.
ExecPart == ExecTypeOK /\ StepsInOrder /\ CallsAgree /\ EffectsAgree

\* Only caller c's call changes.
OnlyCall(c) == call' \in [Callers -> Calls] /\ \A d \in Callers \ {c} : call'[d] = call[d]

\* The state of caller c's call is well formed.
CallIsTyped(c) ==
    /\ call[c].pc \notin {"idle", "loop"} => call[c].step \in Steps
    /\ call[c].pc = "observed" => call[c].obs # "none"

\* A call goes on while no step, reconciliation or effect changes.
LEMMA CallGoesOn ==
    ASSUME ExecInv, NEW c \in Callers, OnlyCall(c), up,
           UNCHANGED <<stepStatus, reconciliations, effects, up>>,
           CallIsTyped(c)', CallKnows(c)', call'[c].pc \notin Executing
    PROVE  ExecPart'
  <1>1. \A s \in Steps : Standing(s)' = Standing(s) /\ Done(s)' = Done(s) /\ Prior(s)' = Prior(s)
    BY Zenon DEF Standing, Done, InFlight, Prior
  <1>2. ExecTypeOK'
    BY Zenon DEF ExecInv, ExecTypeOK, OnlyCall, CallIsTyped
  <1>3. ASSUME NEW d \in Callers \ {c}
        PROVE  CallKnows(d)'
    <2>1. /\ call'[d] = call[d] /\ CallKnows(d) /\ stepStatus' = stepStatus
          /\ call[d].pc \notin {"idle", "loop"} => call[d].step \in Steps
      BY Zenon DEF OnlyCall, ExecInv, CallsAgree, ExecTypeOK
    <2>2. CASE call[d].pc \in {"idle", "loop", "gate", "authorizing"}
      BY <2>1, <2>2, Zenon DEF CallKnows, Executing, Ambiguous
    <2>3. CASE call[d].step \in Steps
      BY <1>1, <2>1, <2>3, Zenon DEF CallKnows
    <2> QED BY <2>1, <2>2, <2>3, Zenon
  <1>4. CallsAgree'
    BY <1>3, Zenon DEF ExecInv, CallsAgree, OnlyCall
  <1>5. StepsInOrder' /\ EffectsAgree'
    BY <1>1 DEF ExecInv, StepsInOrder, EffectsAgree
  <1> QED BY <1>2, <1>4, <1>5, Zenon DEF ExecPart

\* A step takes another status: what the other calls know stays true of them.
LEMMA OthersKnow ==
    ASSUME ExecInv, NEW s \in Steps, NEW from, NEW to, Turns(s, from, to), from \notin Concluded,
           UNCHANGED effects,
           \A t \in Steps : Prior(t) # {} => Prior(t)' # {},
           from = "outcome_unknown" => Prior(s)' # {},
           NEW d \in Callers, call'[d] = call[d],
           ~ (call[d].pc \in Executing /\ call[d].step = s)
    PROVE  CallKnows(d)'
  <1>1. \A t \in Steps : Standing(t)' = Standing(t) /\ Done(t)' = Done(t)
    BY Zenon DEF Standing, Done, InFlight
  <1>2. \A t \in Steps : stepStatus'[t] = IF t = s THEN to ELSE stepStatus[t]
    BY Zenon DEF Turns, ExecInv, IInv, TypeOK
  <1>3. CallKnows(d) /\ (call[d].pc \notin {"idle", "loop"} => call[d].step \in Steps)
    BY Zenon DEF ExecInv, CallsAgree, ExecTypeOK
  <1>4. \A i \in 1..Len(Order) : Order[i] \in Steps
    BY ExecutorConstants, Zenon
  <1>5. stepStatus[s] = from
    BY Zenon DEF Turns
  <1>6. CASE call[d].pc = "authorizing"
    BY <1>2, <1>3, <1>4, <1>5, <1>6, Zenon DEF CallKnows, Executing, Ambiguous
  <1>7. CASE call[d].pc \in Executing
    BY <1>1, <1>2, <1>3, <1>7, Zenon DEF CallKnows, Executing, Ambiguous
  <1>8. CASE call[d].pc \in Ambiguous
    BY <1>1, <1>2, <1>3, <1>5, <1>8, Zenon DEF CallKnows, Executing, Ambiguous
  <1> QED BY <1>6, <1>7, <1>8, Zenon DEF CallKnows, Executing, Ambiguous

\* ... the order of the steps is kept ...
LEMMA OrderKept ==
    ASSUME ExecInv, NEW s \in Steps, NEW from, NEW to, Turns(s, from, to), from \notin Concluded,
           from = "pending" => \A i, j \in 1..Len(Order) :
                                  i < j /\ Order[j] = s => stepStatus[Order[i]] \in Concluded
    PROVE  StepsInOrder'
  <1>1. \A t \in Steps : stepStatus'[t] = IF t = s THEN to ELSE stepStatus[t]
    BY Zenon DEF Turns, ExecInv, IInv, TypeOK
  <1>2. \A i \in 1..Len(Order) : Order[i] \in Steps
    BY ExecutorConstants, Zenon
  <1>3. SUFFICES ASSUME NEW i \in 1..Len(Order), NEW j \in 1..Len(Order), i < j,
                        stepStatus'[Order[j]] # "pending"
                 PROVE  stepStatus'[Order[i]] \in Concluded
    BY Zenon DEF StepsInOrder
  <1>4. Order[i] # Order[j]
    <2>1. i # j
      BY <1>3
    <2> QED BY <2>1, ExecutorConstants, Zenon
  <1>5. stepStatus[Order[i]] \in Concluded
    BY <1>1, <1>2, <1>3, <1>4, Zenon DEF ExecInv, StepsInOrder, Turns
  <1> QED BY <1>1, <1>2, <1>5, Zenon DEF Turns

\* ... and so is the agreement with the world.
LEMMA EffectsKept ==
    ASSUME ExecInv, NEW s \in Steps, NEW from, NEW to, Turns(s, from, to), UNCHANGED effects,
           to = "pending" => Standing(s) = {},
           to = "succeeded" /\ s \in External => Done(s) # {}
    PROVE  EffectsAgree'
  <1>1. \A t \in Steps : Standing(t)' = Standing(t) /\ Done(t)' = Done(t)
    BY Zenon DEF Standing, Done, InFlight
  <1>2. \A t \in Steps : stepStatus'[t] = IF t = s THEN to ELSE stepStatus[t]
    BY Zenon DEF Turns, ExecInv, IInv, TypeOK
  <1> QED BY <1>1, <1>2 DEF ExecInv, EffectsAgree
------------------------------------------------------------------------------
(* The steps of a call.                                                    *)

\* A call that returns, starts another pass or comes to the gate relies on nothing.
LEMMA CallRests ==
    ASSUME ExecInv, NEW c \in Callers, up, UNCHANGED <<stepStatus, reconciliations, effects, up>>,
           NEW x \in Calls, call' = [call EXCEPT ![c] = x],
           x.pc \in {"idle", "loop"} \/ (x.pc = "gate" /\ x.step \in Steps)
    PROVE  ExecPart'
  <1>1. OnlyCall(c) /\ call'[c] = x
    BY Zenon DEF ExecInv, ExecTypeOK, OnlyCall
  <1>2. CallIsTyped(c)' /\ CallKnows(c)' /\ call'[c].pc \notin Executing
    BY <1>1, Zenon DEF CallIsTyped, CallKnows, Executing, Ambiguous
  <1> QED BY <1>1, <1>2, CallGoesOn, Zenon

\* The states a call rests in.
LEMMA RestingCalls ==
    ASSUME ExecTypeOK, NEW c \in Callers
    PROVE  /\ Return(c) \/ NextPass(c) =>
                  \E x \in Calls : x.pc \in {"idle", "loop"} /\ call' = [call EXCEPT ![c] = x]
           /\ \A pc \in Pcs : Goto(c, pc) =>
                  \E x \in Calls : x.pc = pc /\ x.step = call[c].step /\ call' = [call EXCEPT ![c] = x]
  <1>1. {"idle", "loop"} \subseteq Pcs
    BY Zenon DEF Pcs
  <1>2. call[c] \in Calls /\ call[c].pass + 1 \in Nat
    BY DEF ExecTypeOK, Calls
  <1>3. ASSUME Return(c)
        PROVE  \E x \in Calls : x.pc \in {"idle", "loop"} /\ call' = [call EXCEPT ![c] = x]
    <2>1. NoCall \in Calls /\ NoCall.pc = "idle"
      BY <1>1, Zenon DEF NoCall, Calls
    <2> QED BY <1>3, <2>1, Zenon DEF Return
  <1>4. ASSUME NextPass(c)
        PROVE  \E x \in Calls : x.pc \in {"idle", "loop"} /\ call' = [call EXCEPT ![c] = x]
    <2> DEFINE y == [NoCall EXCEPT !.pc = "loop", !.pass = call[c].pass + 1]
    <2>1. y \in Calls /\ y.pc = "loop"
      BY <1>1, <1>2, Zenon DEF NoCall, Calls
    <2> QED BY <1>4, <2>1, Zenon DEF NextPass
  <1>5. ASSUME NEW pc \in Pcs, Goto(c, pc)
        PROVE  \E x \in Calls : x.pc = pc /\ x.step = call[c].step /\ call' = [call EXCEPT ![c] = x]
    <2> DEFINE y == [call[c] EXCEPT !.pc = pc]
    <2>1. y \in Calls /\ y.pc = pc /\ y.step = call[c].step
      BY <1>2, Zenon DEF Calls
    <2>2. call' = [call EXCEPT ![c] = y]
      BY <1>5, Zenon DEF Goto, ExecTypeOK
    <2> QED BY <2>1, <2>2, Zenon
  <1> QED BY <1>3, <1>4, <1>5, Zenon

\* The steps after which a call relies on nothing, and which change no step.
LEMMA RestStep ==
    ASSUME ExecInv, NEW c \in Callers,
           \/ Advance(c) \/ Stop(c) \/ Denied(c) \/ AlreadyCompleted(c) \/ BeginRefused(c)
           \/ ReconcileUnknown(c) \/ ReconcileReplayed(c) \/ ReconcileRefused(c)
           \/ NoGateToResolve(c) \/ GateBlocked(c) \/ PassGate(c)
    PROVE  ExecPart'
  <1> USE DEF ExecInv
  <1>1. up /\ UNCHANGED <<up, effects>>
    BY Zenon DEF Advance, Stop, Denied, AlreadyCompleted, BeginRefused, ReconcileUnknown, ReconcileReplayed,
           ReconcileRefused, NoGateToResolve, GateBlocked, PassGate, Runs
  <1>2. UNCHANGED <<stepStatus, reconciliations>>
    <2>1. CASE PassGate(c)
      BY <2>1, Zenon DEF PassGate, ResolveHealthGate, stepVars
    <2>2. CASE Advance(c)
      BY <2>2, Zenon DEF Advance, StartRun, stepVars, vars
    <2>3. CASE Stop(c) \/ Denied(c) \/ AlreadyCompleted(c) \/ BeginRefused(c) \/ NoGateToResolve(c)
      BY <2>3, Zenon DEF Stop, Denied, AlreadyCompleted, BeginRefused, NoGateToResolve, vars
    <2>4. CASE ReconcileUnknown(c) \/ ReconcileReplayed(c) \/ ReconcileRefused(c) \/ GateBlocked(c)
      BY <2>4, Zenon DEF ReconcileUnknown, ReconcileReplayed, ReconcileRefused, GateBlocked, vars
    <2> QED BY <2>1, <2>2, <2>3, <2>4, Zenon
  <1>3. CASE Return(c) \/ NextPass(c)
    <2>1. PICK x \in Calls : x.pc \in {"idle", "loop"} /\ call' = [call EXCEPT ![c] = x]
      BY <1>3, RestingCalls, Zenon
    <2> QED BY <1>1, <1>2, <2>1, CallRests, Zenon
  <1>4. CASE Goto(c, "loop")
    <2>1. "loop" \in Pcs
      BY Zenon DEF Pcs
    <2>2. PICK x \in Calls : x.pc = "loop" /\ x.step = call[c].step /\ call' = [call EXCEPT ![c] = x]
      BY <1>4, <2>1, RestingCalls, Zenon
    <2> QED BY <1>1, <1>2, <2>2, CallRests, Zenon
  <1>5. CASE ReconcileReplayed(c)
    <2>1. Goto(c, "gate") /\ call[c].step \in Steps
      BY <1>5, Zenon DEF ReconcileReplayed, Runs, ExecTypeOK
    <2>2. "gate" \in Pcs
      BY Zenon DEF Pcs
    <2>3. PICK x \in Calls : x.pc = "gate" /\ x.step = call[c].step /\ call' = [call EXCEPT ![c] = x]
      BY <2>1, <2>2, RestingCalls, Zenon
    <2> QED BY <1>1, <1>2, <2>1, <2>3, CallRests, Zenon
  <1> QED BY <1>3, <1>4, <1>5, Zenon DEF Advance, Stop, Denied, AlreadyCompleted, BeginRefused,
             ReconcileUnknown, ReconcileRefused, NoGateToResolve, GateBlocked, PassGate

\* The first pending step comes after concluded ones only, when no operation is pending.
LEMMA StartAuthorizeStep ==
    ASSUME ExecInv, NEW c \in Callers, StartAuthorize(c)
    PROVE  ExecPart'
  <1>1. PICK s \in FirstOf(PendingSteps) :
            call' = [call EXCEPT ![c].pc = "authorizing", ![c].step = s]
    BY Zenon DEF StartAuthorize
  <1>2. s \in Steps
    BY Zenon DEF FirstOf, PendingSteps
  <1>3. OnlyCall(c) /\ call'[c].pc = "authorizing" /\ call'[c].step = s
    <2> DEFINE x == [call[c] EXCEPT !.pc = "authorizing", !.step = s]
    <2>1. call \in [Callers -> Calls] /\ call[c] \in Calls
      BY Zenon DEF ExecInv, ExecTypeOK
    <2>2. x \in Calls /\ x.pc = "authorizing" /\ x.step = s
      BY <1>2, <2>1, Zenon DEF Calls, Pcs
    <2>3. call' = [call EXCEPT ![c] = x]
      BY <1>1, <2>1, Zenon
    <2> HIDE DEF x
    <2> QED BY <2>1, <2>2, <2>3, Zenon DEF OnlyCall
  <1>4. up /\ UNCHANGED <<stepStatus, reconciliations, effects, up>>
    BY Zenon DEF StartAuthorize, Runs, vars
  <1>5. ASSUME NEW i \in 1..Len(Order), NEW j \in 1..Len(Order), i < j, Order[j] = s
        PROVE  stepStatus[Order[i]] \in Concluded
    <2>1. PICK k \in 1..Len(Order) : Order[k] = s /\ \A l \in 1..(k-1) : Order[l] \notin PendingSteps
      BY Zenon DEF FirstOf
    <2>2. k = j
      BY <1>5, <2>1, ExecutorConstants, Zenon
    <2>3. Order[i] \in Steps
      BY ExecutorConstants, Zenon
    <2>4. i \in 1..(k-1)
      BY <1>5, <2>2, ExecutorConstants
    <2>5. Order[i] \notin PendingSteps /\ Order[i] \notin PendingOperations
      BY <2>1, <2>4, Zenon DEF StartAuthorize
    <2> QED BY <2>3, <2>5, Zenon
               DEF PendingSteps, PendingOperations, ExecInv, IInv, TypeOK, StepStatus, Concluded
  <1>6. CallIsTyped(c)' /\ CallKnows(c)' /\ call'[c].pc \notin Executing
    BY <1>2, <1>3, <1>4, <1>5, Zenon DEF CallIsTyped, CallKnows, Executing, Ambiguous
  <1> QED BY <1>3, <1>4, <1>6, CallGoesOn, Zenon

\* What is reconciled is ambiguous at first.
LEMMA StartReconcileStep ==
    ASSUME ExecInv, NEW c \in Callers, StartReconcile(c)
    PROVE  ExecPart'
  <1>1. PICK s \in FirstOf(PendingOperations) :
            /\ stepStatus[s] = "outcome_unknown"
            /\ call' = [call EXCEPT ![c].pc = "reconciling", ![c].step = s]
    BY Zenon DEF StartReconcile
  <1>2. s \in Steps
    BY Zenon DEF FirstOf, PendingOperations
  <1>3. OnlyCall(c) /\ call'[c].pc = "reconciling" /\ call'[c].step = s
    <2> DEFINE x == [call[c] EXCEPT !.pc = "reconciling", !.step = s]
    <2>1. call \in [Callers -> Calls] /\ call[c] \in Calls
      BY Zenon DEF ExecInv, ExecTypeOK
    <2>2. x \in Calls /\ x.pc = "reconciling" /\ x.step = s
      BY <1>2, <2>1, Zenon DEF Calls, Pcs, Ambiguous
    <2>3. call' = [call EXCEPT ![c] = x]
      BY <1>1, <2>1, Zenon
    <2> HIDE DEF x
    <2> QED BY <2>1, <2>2, <2>3, Zenon DEF OnlyCall
  <1>4. up /\ UNCHANGED <<stepStatus, reconciliations, effects, up>>
    BY Zenon DEF StartReconcile, Runs, vars
  <1>5. CallIsTyped(c)' /\ CallKnows(c)' /\ call'[c].pc \notin Executing
    BY <1>1, <1>2, <1>3, <1>4, Zenon DEF CallIsTyped, CallKnows, Executing, Ambiguous
  <1> QED BY <1>3, <1>4, <1>5, CallGoesOn, Zenon

\* An observation is true of the world when it is made.
LEMMA ObserveStep ==
    ASSUME ExecInv, NEW c \in Callers, NEW obs \in {"applied", "not_applied"}, NEW kinds \in ProvidedKinds,
           Observe(c, obs, kinds)
    PROVE  ExecPart'
  <1>1. PICK s \in Steps : s = call[c].step
    BY Zenon DEF Observe, Runs, ExecInv, ExecTypeOK
  <1>2. stepStatus[s] = "outcome_unknown" \/ Prior(s) # {}
    BY <1>1, Zenon DEF Observe, Runs, ExecInv, CallsAgree, CallKnows, Ambiguous
  <1>8. OnlyCall(c) /\ call'[c].pc = "observed" /\ call'[c].step = s /\ call'[c].obs = obs
    <2>1. kinds \in SUBSET Kinds /\ "observed" \in Pcs
      BY EvidenceIsTyped, Zenon DEF Pcs, Ambiguous
    <2>2. call' = [call EXCEPT ![c] = [call[c] EXCEPT !.pc = "observed", !.obs = obs, !.kinds = kinds]]
      BY Zenon DEF Observe, ExecInv, ExecTypeOK
    <2>3. call[c] \in Calls /\ call \in [Callers -> Calls]
      BY Zenon DEF ExecInv, ExecTypeOK
    <2> QED BY <1>1, <2>1, <2>2, <2>3, Zenon DEF OnlyCall, Calls
  <1>3. up /\ UNCHANGED <<stepStatus, reconciliations, effects, up>>
    BY Zenon DEF Observe, Runs, vars
  <1>4. s \in External => IF obs = "applied" THEN Done(s) # {} ELSE Standing(s) = {}
    BY <1>1, Zenon DEF Observe, Standing
  <1>5. Standing(s)' = Standing(s) /\ Done(s)' = Done(s) /\ Prior(s)' = Prior(s)
    BY <1>3, Zenon DEF Standing, Done, InFlight, Prior
  <1>6. call'[c].pc \notin Executing /\ CallIsTyped(c)'
    BY <1>1, <1>8, Zenon DEF CallIsTyped, Executing
  <1>7. CallKnows(c)'
    BY <1>1, <1>2, <1>3, <1>4, <1>5, <1>8, Zenon DEF CallKnows, Executing, Ambiguous
  <1> QED BY <1>3, <1>6, <1>7, <1>8, CallGoesOn, Zenon

\* A call turns the status of its step, which no other call is executing.
LEMMA CallTurns ==
    ASSUME ExecInv, NEW c \in Callers, up, UNCHANGED <<effects, up>>, OnlyCall(c), CallIsTyped(c)',
           NEW s \in Steps, NEW from, NEW to, Turns(s, from, to), from \notin Concluded,
           \A t \in Steps : Prior(t) # {} => Prior(t)' # {},
           from = "outcome_unknown" => Prior(s)' # {},
           \A d \in Callers \ {c} : ~ (call[d].pc \in Executing /\ call[d].step = s),
           CallKnows(c)', call'[c].pc \in Executing => call'[c].step = s,
           from = "pending" => \A i, j \in 1..Len(Order) :
                                  i < j /\ Order[j] = s => stepStatus[Order[i]] \in Concluded,
           to = "pending" => Standing(s) = {},
           to = "succeeded" /\ s \in External => Done(s) # {}
    PROVE  ExecPart'
  <1>1. StepsInOrder'
    BY OrderKept, Zenon
  <1>2. EffectsAgree'
    BY EffectsKept, Zenon
  <1>3. \A d \in Callers \ {c} : call'[d] = call[d]
    BY Zenon DEF OnlyCall
  <1>4. ASSUME NEW d \in Callers \ {c}
        PROVE  CallKnows(d)'
    BY <1>3, OthersKnow, Zenon
  <1>5. CallsAgree'
    <2>1. \A d \in Callers : CallKnows(d)'
      BY <1>4, Zenon
    <2>2. ASSUME NEW d \in Callers, NEW e \in Callers, call'[d].pc \in Executing, call'[e].pc \in Executing,
                 call'[d].step = call'[e].step
          PROVE  d = e
      <3>1. CASE d # c /\ e # c
        BY <1>3, <2>2, <3>1, Zenon DEF ExecInv, CallsAgree
      <3>2. CASE d = c \/ e = c
        BY <1>3, <2>2, <3>2, Zenon
      <3> QED BY <3>1, <3>2, Zenon
    <2> QED BY <2>1, <2>2, Zenon DEF CallsAgree
  <1>6. ExecTypeOK'
    BY <1>3, Zenon DEF ExecInv, ExecTypeOK, OnlyCall, CallIsTyped
  <1> QED BY <1>1, <1>2, <1>5, <1>6, Zenon DEF ExecPart

\* beginStepAttempt admits one call, and nothing of the step stands.
LEMMA BeginStep ==
    ASSUME ExecInv, NEW c \in Callers, Begin(c)
    PROVE  ExecPart'
  <1> USE DEF ExecInv
  <1>1. PICK s \in Steps : s = call[c].step
    BY Zenon DEF Begin, Runs, ExecTypeOK
  <1>2. up /\ UNCHANGED <<effects, up>> /\ call[c].pc = "authorizing"
    BY Zenon DEF Begin, Runs
  <1>3. Turns(s, "pending", "in_progress") /\ UNCHANGED reconciliations
    BY <1>1, LedgerOperations, Zenon DEF Begin, IInv
  <1>4. stepStatus[s] = "pending" /\ stepStatus'[s] = "in_progress"
    BY <1>3, Zenon DEF Turns, IInv, TypeOK
  <1>5. \A t \in Steps : Prior(t)' = Prior(t)
    BY <1>3, Zenon DEF Prior
  <1>6. OnlyCall(c) /\ call'[c].pc = "executing" /\ call'[c].step = s
    <2>1. "executing" \in Pcs /\ Goto(c, "executing")
      BY Zenon DEF Begin, Pcs, Executing
    <2>2. PICK x \in Calls : x.pc = "executing" /\ x.step = call[c].step /\ call' = [call EXCEPT ![c] = x]
      BY <2>1, RestingCalls, Zenon
    <2> QED BY <1>1, <2>2, Zenon DEF OnlyCall, ExecTypeOK
  <1>7. Standing(s) = {} /\ Standing(s)' = Standing(s)
    BY <1>2, <1>4, Zenon DEF EffectsAgree, Standing, Done, InFlight
  <1>8. CallIsTyped(c)' /\ CallKnows(c)'
    BY <1>4, <1>6, <1>7, Zenon DEF CallIsTyped, CallKnows, Executing, Ambiguous
  <1>9. \A d \in Callers \ {c} : ~ (call[d].pc \in Executing /\ call[d].step = s)
    BY <1>4, Zenon DEF CallsAgree, CallKnows
  <1>10. \A i, j \in 1..Len(Order) : i < j /\ Order[j] = s => stepStatus[Order[i]] \in Concluded
    BY <1>1, <1>2, Zenon DEF CallsAgree, CallKnows
  <1> HIDE DEF ExecInv
  <1> QED BY <1>2, <1>3, <1>5, <1>6, <1>8, <1>9, <1>10, CallTurns DEF Concluded

\* execute() ends, and its call concludes the operation or leaves it ambiguous.
LEMMA ExecuteStep ==
    ASSUME ExecInv, NEW c \in Callers,
           \/ ExecuteUnknown(c) \/ ExecuteFailed(c)
           \/ \E kinds \in ProvidedKinds : ExecuteSucceeded(c, kinds)
    PROVE  ExecPart'
  <1> USE DEF ExecInv
  <1>1. up /\ UNCHANGED <<effects, up>> /\ call[c].pc \in Executing
    BY Zenon DEF ExecuteUnknown, ExecuteFailed, ExecuteSucceeded, Runs, Executing
  <1>2. PICK s \in Steps : s = call[c].step
    BY <1>1, Zenon DEF ExecTypeOK, Executing
  <1>3. PICK to \in {"outcome_unknown", "failed", "succeeded"} :
            /\ Turns(s, "in_progress", to) /\ UNCHANGED reconciliations
            /\ to = "succeeded" => \E kinds \in ProvidedKinds : ExecuteSucceeded(c, kinds)
    BY <1>2, LedgerOperations, Zenon DEF ExecuteUnknown, ExecuteFailed, ExecuteSucceeded, IInv
  <1>4. \A t \in Steps : Prior(t)' = Prior(t)
    BY <1>3, Zenon DEF Prior
  <1>5. to = "succeeded" /\ s \in External => Done(s) # {}
    BY <1>2, <1>3, Zenon DEF ExecuteSucceeded
  <1>6. PICK x \in Calls : /\ call' = [call EXCEPT ![c] = x]
                           /\ x.pc = "idle" \/ (x.pc = "gate" /\ x.step = s)
    <2>1. CASE ExecuteUnknown(c) \/ ExecuteFailed(c)
      <3>1. NoCall \in Calls /\ NoCall.pc = "idle"
        BY Zenon DEF NoCall, Calls, Pcs
      <3> QED BY <2>1, <3>1, Zenon DEF ExecuteUnknown, ExecuteFailed, Return
    <2>2. ASSUME NEW kinds \in ProvidedKinds, ExecuteSucceeded(c, kinds)
          PROVE  \E x \in Calls : /\ call' = [call EXCEPT ![c] = x]
                                  /\ x.pc = "idle" \/ (x.pc = "gate" /\ x.step = s)
      <3> DEFINE y == [call[c] EXCEPT !.pc = "gate", !.kinds = kinds]
      <3>1. call[c] \in Calls /\ kinds \in SUBSET Kinds /\ "gate" \in Pcs
        BY EvidenceIsTyped, Zenon DEF ExecTypeOK, Pcs
      <3>2. y \in Calls /\ y.pc = "gate" /\ y.step = s
        BY <1>2, <3>1, Zenon DEF Calls
      <3>3. call' = [call EXCEPT ![c] = y]
        BY <2>2, Zenon DEF ExecuteSucceeded, ExecTypeOK
      <3> QED BY <3>2, <3>3, Zenon
    <2> QED BY <2>1, <2>2, Zenon
  <1>7. OnlyCall(c) /\ (call'[c].pc = "idle" \/ (call'[c].pc = "gate" /\ call'[c].step = s))
    <2>1. call \in [Callers -> Calls]
      BY Zenon DEF ExecTypeOK
    <2>2. call'[c] = x /\ OnlyCall(c)
      BY <1>6, <2>1, Zenon DEF OnlyCall
    <2> QED BY <1>6, <2>2, Zenon
  <1>8. CallIsTyped(c)' /\ CallKnows(c)' /\ call'[c].pc \notin Executing
    BY <1>7, Zenon DEF CallIsTyped, CallKnows, Executing, Ambiguous
  <1>9. \A d \in Callers \ {c} : ~ (call[d].pc \in Executing /\ call[d].step = s)
    BY <1>1, <1>2, Zenon DEF CallsAgree
  <1> HIDE DEF ExecInv
  <1> QED BY <1>1, <1>3, <1>4, <1>5, <1>7, <1>8, <1>9, CallTurns DEF Concluded

\* A reconciliation is stored only while its observation is still true: the first one of the
\* step, which has been ambiguous since it was observed.
LEMMA ReconciledStep ==
    ASSUME ExecInv, NEW c \in Callers, Reconciled(c)
    PROVE  ExecPart'
  <1> USE DEF ExecInv
  <1>1. up /\ UNCHANGED <<effects, up>> /\ call[c].pc = "observed"
    BY Zenon DEF Reconciled, Runs
  <1>2. PICK s \in Steps, obs \in {"applied", "not_applied"}, kinds \in SUBSET Kinds :
            s = call[c].step /\ obs = call[c].obs /\ kinds = call[c].kinds
    BY <1>1, Zenon DEF ExecTypeOK, Calls
  <1> DEFINE to == IF obs = "applied" THEN "succeeded" ELSE "pending"
  <1>3. /\ Turns(s, "outcome_unknown", to)
        /\ Prior(s) = {} /\ Prior(s)' # {}
        /\ \A t \in Steps \ {s} : Prior(t)' = Prior(t)
    BY <1>2, LedgerReconciles, Zenon DEF Reconciled, IInv
  <1>4. stepStatus[s] = "outcome_unknown"
    BY <1>3, Zenon DEF Turns
  <1>5. s \in External => IF obs = "applied" THEN Done(s) # {} ELSE Standing(s) = {}
    BY <1>1, <1>2, <1>3, Zenon DEF CallsAgree, CallKnows
  <1>6. s \notin External => Standing(s) = {}
    BY Zenon DEF EffectsAgree
  <1>7. PICK x \in Calls : /\ call' = [call EXCEPT ![c] = x]
                           /\ x.pc \in {"idle", "loop"} \/ (x.pc = "gate" /\ x.step = s)
    <2>1. "gate" \in Pcs /\ ExecTypeOK
      BY Zenon DEF Pcs
    <2>2. Goto(c, "gate") \/ Return(c)
      BY Zenon DEF Reconciled
    <2> HIDE DEF ExecInv
    <2>3. CASE Goto(c, "gate")
      <3>1. PICK x \in Calls : x.pc = "gate" /\ x.step = call[c].step /\ call' = [call EXCEPT ![c] = x]
        BY <2>1, <2>3, RestingCalls, Zenon
      <3> QED BY <1>2, <3>1, Zenon
    <2>4. CASE Return(c)
      <3>1. PICK x \in Calls : x.pc \in {"idle", "loop"} /\ call' = [call EXCEPT ![c] = x]
        BY <2>1, <2>4, RestingCalls, Zenon
      <3> QED BY <3>1, Zenon
    <2> QED BY <2>2, <2>3, <2>4, Zenon
  <1>8. OnlyCall(c) /\ call'[c] = x
    <2>1. call \in [Callers -> Calls]
      BY Zenon DEF ExecTypeOK
    <2> QED BY <1>7, <2>1, Zenon DEF OnlyCall
  <1>9. CallIsTyped(c)' /\ CallKnows(c)' /\ call'[c].pc \notin Executing
    BY <1>7, <1>8, Zenon DEF CallIsTyped, CallKnows, Executing, Ambiguous
  <1>10. \A d \in Callers \ {c} : ~ (call[d].pc \in Executing /\ call[d].step = s)
    BY <1>4, Zenon DEF CallsAgree, CallKnows
  <1>11. \A t \in Steps : Prior(t) # {} => Prior(t)' # {}
    BY <1>3, Zenon
  <1>12. (to = "pending" => Standing(s) = {}) /\ (to = "succeeded" /\ s \in External => Done(s) # {})
    BY <1>5, <1>6, Zenon
  <1> HIDE DEF ExecInv, to
  <1> QED BY <1>1, <1>3, <1>8, <1>9, <1>10, <1>11, <1>12, CallTurns DEF Concluded
------------------------------------------------------------------------------
(* Effects, crashes and restarts.                                          *)

\* A dispatch that is lost or done does not stand less truly than before: what stood may
\* vanish, what took place stays.
LEMMA EffectsSettle ==
    ASSUME ExecInv, NEW s \in Steps, NEW i \in 1..Len(effects[s]), NEW fate \in {"done", "lost"},
           Settle(s, i, fate)
    PROVE  /\ effects' \in [Steps -> Seq({"inflight", "done", "lost"})]
           /\ \A t \in Steps : Standing(t)' \subseteq Standing(t) /\ Done(t) \subseteq Done(t)'
  <1>1. effects \in [Steps -> Seq({"inflight", "done", "lost"})]
    BY Zenon DEF ExecInv, ExecTypeOK
  <1>2. effects' = [effects EXCEPT ![s] = [effects[s] EXCEPT ![i] = fate]] /\ effects[s][i] = "inflight"
    BY <1>1, Zenon DEF Settle, InFlight
  <1>3. /\ [effects[s] EXCEPT ![i] = fate] \in Seq({"inflight", "done", "lost"})
        /\ Len([effects[s] EXCEPT ![i] = fate]) = Len(effects[s])
        /\ \A j \in 1..Len(effects[s]) :
              [effects[s] EXCEPT ![i] = fate][j] = IF j = i THEN fate ELSE effects[s][j]
    BY <1>1
  <1>4. ASSUME NEW t \in Steps
        PROVE  Standing(t)' \subseteq Standing(t) /\ Done(t) \subseteq Done(t)'
    <2>1. CASE t = s
      BY <1>1, <1>2, <1>3, <2>1 DEF Standing, Done, InFlight
    <2>2. CASE t # s
      BY <1>1, <1>2, <2>2, Zenon DEF Standing, Done, InFlight
    <2> QED BY <2>1, <2>2, Zenon
  <1> QED BY <1>1, <1>2, <1>3, <1>4, Zenon

\* The world moves on.
LEMMA WorldStepKeeps ==
    ASSUME ExecInv, WorldStep
    PROVE  ExecPart'
  <1>1. PICK s \in External, fate \in {"done", "lost"} : \E i \in 1..Len(effects[s]) : Settle(s, i, fate)
    BY Zenon DEF WorldStep
  <1>2. PICK i \in 1..Len(effects[s]) : Settle(s, i, fate)
    BY <1>1, Zenon
  <1>3. s \in Steps /\ UNCHANGED <<stepStatus, reconciliations, call, up>>
    BY <1>2, Zenon DEF External, Settle, vars
  <1>4. /\ effects' \in [Steps -> Seq({"inflight", "done", "lost"})]
        /\ \A t \in Steps : Standing(t)' \subseteq Standing(t) /\ Done(t) \subseteq Done(t)'
    BY <1>2, <1>3, EffectsSettle, Zenon
  <1>5. \A t \in Steps : Prior(t)' = Prior(t)
    BY <1>3, Zenon DEF Prior
  <1>6. ASSUME NEW c \in Callers
        PROVE  CallKnows(c)'
    <2>1. CallKnows(c) /\ (call[c].pc \notin {"idle", "loop"} => call[c].step \in Steps)
      BY Zenon DEF ExecInv, CallsAgree, ExecTypeOK
    <2>2. CASE call[c].pc \in {"idle", "loop", "gate", "authorizing"}
      BY <1>3, <2>1, <2>2, Zenon DEF CallKnows, Executing, Ambiguous
    <2>3. CASE call[c].step \in Steps
      BY <1>3, <1>4, <1>5, <2>1, <2>3, Zenon DEF CallKnows
    <2> QED BY <2>1, <2>2, <2>3, Zenon
  <1>7. CallsAgree'
    BY <1>3, <1>6, Zenon DEF ExecInv, CallsAgree
  <1>8. ExecTypeOK' /\ StepsInOrder'
    BY <1>3, <1>4, Zenon DEF ExecInv, ExecTypeOK, StepsInOrder
  <1>9. EffectsAgree'
    BY <1>3, <1>4 DEF ExecInv, EffectsAgree
  <1> QED BY <1>7, <1>8, <1>9, Zenon DEF ExecPart

\* A dispatch is the only one that stands.
LEMMA DispatchStep ==
    ASSUME ExecInv, NEW c \in Callers, Dispatch(c)
    PROVE  ExecPart'
  <1> USE DEF ExecInv
  <1>1. PICK s \in External : s = call[c].step
    BY Zenon DEF Dispatch
  <1>2. /\ up /\ UNCHANGED <<stepStatus, reconciliations, up>> /\ s \in Steps
        /\ call[c].pc = "executing"
    BY <1>1, Zenon DEF Dispatch, Runs, vars, External
  <1>3. stepStatus[s] = "in_progress" /\ Standing(s) = {}
    BY <1>1, <1>2, Zenon DEF CallsAgree, CallKnows, Executing
  <1>4. effects \in [Steps -> Seq({"inflight", "done", "lost"})] /\ call \in [Callers -> Calls]
    BY Zenon DEF ExecTypeOK
  <1>5. effects' = [effects EXCEPT ![s] = Append(effects[s], "inflight")]
    BY <1>1, <1>4, Zenon DEF Dispatch
  <1>6. /\ effects' \in [Steps -> Seq({"inflight", "done", "lost"})]
        /\ \A t \in Steps \ {s} : effects'[t] = effects[t]
        /\ effects'[s] = Append(effects[s], "inflight")
    BY <1>2, <1>4, <1>5
  <1>7. \A t \in Steps \ {s} : Standing(t)' = Standing(t) /\ Done(t)' = Done(t)
    BY <1>6, Zenon DEF Standing, Done, InFlight
  <1>8. (\A i, j \in Standing(s)' : i = j) /\ Done(s)' = {}
    <2>1. /\ effects[s] \in Seq({"inflight", "done", "lost"})
          /\ Len(effects'[s]) = Len(effects[s]) + 1
          /\ \A i \in 1..Len(effects[s]) : effects'[s][i] = effects[s][i]
          /\ effects'[s][Len(effects[s]) + 1] = "inflight"
      BY <1>2, <1>4, <1>6
    <2>2. \A i \in 1..Len(effects[s]) : effects[s][i] \notin {"done", "inflight"}
      BY <1>3, Zenon DEF Standing, Done, InFlight
    <2>3. Len(effects[s]) \in Nat
      BY <2>1
    <2>4. ASSUME NEW i \in 1..Len(effects'[s]), effects'[s][i] \in {"done", "inflight"}
          PROVE  i = Len(effects[s]) + 1 /\ effects'[s][i] # "done"
      BY <2>1, <2>2, <2>3, <2>4
    <2>5. \A i \in Standing(s)' : i = Len(effects[s]) + 1 /\ i \notin Done(s)'
      BY <2>4, Zenon DEF Standing, Done, InFlight
    <2> QED BY <2>5, Zenon DEF Standing
  <1>9. OnlyCall(c) /\ call'[c].pc = "dispatched" /\ call'[c].step = s
    <2>1. "dispatched" \in Pcs /\ Goto(c, "dispatched")
      BY Zenon DEF Dispatch, Pcs, Executing
    <2>2. PICK x \in Calls : x.pc = "dispatched" /\ x.step = call[c].step /\ call' = [call EXCEPT ![c] = x]
      BY <2>1, RestingCalls, Zenon
    <2> QED BY <1>1, <1>4, <2>2, Zenon DEF OnlyCall
  <1>10. \A t \in Steps : Prior(t)' = Prior(t)
    BY <1>2, Zenon DEF Prior
  <1>11. CallKnows(c)' /\ CallIsTyped(c)'
    BY <1>2, <1>3, <1>9, Zenon DEF CallKnows, CallIsTyped, Executing, Ambiguous
  <1>12. ASSUME NEW d \in Callers \ {c}
         PROVE  CallKnows(d)'
    <2>1. /\ CallKnows(d) /\ call'[d] = call[d]
          /\ call[d].pc \notin {"idle", "loop"} => call[d].step \in Steps
      BY <1>9, Zenon DEF CallsAgree, ExecTypeOK, OnlyCall
    <2>2. ~ (call[d].pc \in Executing /\ call[d].step = s)
      BY <1>1, <1>2, Zenon DEF CallsAgree, Executing
    <2>3. CASE call[d].pc \in {"idle", "loop", "gate", "authorizing"}
      BY <1>2, <2>1, <2>3, Zenon DEF CallKnows, Executing, Ambiguous
    <2>4. CASE call[d].step \in Steps \ {s}
      BY <1>2, <1>7, <1>10, <2>1, <2>4, Zenon DEF CallKnows
    <2>5. CASE call[d].step = s /\ call[d].pc \in Ambiguous
      <3>1. Prior(s) # {} /\ ~ (call[d].pc = "observed" /\ call[d].obs = "applied")
        BY <1>1, <1>3, <2>1, <2>5, Zenon DEF CallKnows, Standing
      <3> QED BY <1>2, <1>10, <2>1, <2>5, <3>1, Zenon DEF CallKnows, Executing, Ambiguous
    <2>6. call[d].pc \in {"idle", "loop", "gate", "authorizing"} \cup Executing \cup Ambiguous
      BY Zenon DEF ExecTypeOK, Calls, Pcs
    <2> QED BY <2>1, <2>2, <2>3, <2>4, <2>5, <2>6, Zenon
  <1>13. CallsAgree'
    <2>1. \A d \in Callers : CallKnows(d)'
      BY <1>11, <1>12, Zenon
    <2>2. \A d \in Callers : /\ call'[d].step = call[d].step
                             /\ call'[d].pc \in Executing => call[d].pc \in Executing
      BY <1>1, <1>2, <1>9, Zenon DEF OnlyCall, Executing
    <2>3. \A d, e \in Callers : call'[d].pc \in Executing /\ call'[e].pc \in Executing
                                  /\ call'[d].step = call'[e].step => d = e
      BY <2>2, Zenon DEF CallsAgree
    <2> QED BY <1>2, <2>1, <2>3, Zenon DEF CallsAgree
  <1>14. ExecTypeOK' /\ StepsInOrder'
    BY <1>2, <1>6, <1>9, <1>11, Zenon DEF ExecTypeOK, StepsInOrder, OnlyCall, CallIsTyped
  <1>15. EffectsAgree'
    <2>1. ASSUME NEW t \in Steps \ {s}
          PROVE  /\ \A i, j \in Standing(t)' : i = j
                 /\ stepStatus'[t] = "pending" => Standing(t)' = {}
                 /\ t \in External /\ stepStatus'[t] = "succeeded" => Done(t)' # {}
                 /\ t \notin External => Standing(t)' = {}
      BY <1>2, <1>7 DEF EffectsAgree
    <2> QED BY <1>1, <1>2, <1>3, <1>8, <2>1, Zenon DEF EffectsAgree
  <1> QED BY <1>13, <1>14, <1>15, Zenon DEF ExecPart

\* What the invariant says of the calls and the world depends on nothing else of the ledger.
LEMMA NothingMoved ==
    ASSUME ExecPart, UNCHANGED <<stepStatus, reconciliations, call, effects, up>>
    PROVE  ExecPart'
  <1>1. ExecTypeOK' /\ StepsInOrder'
    BY Zenon DEF ExecPart, ExecTypeOK, StepsInOrder
  <1>2. \A t : Standing(t)' = Standing(t) /\ Done(t)' = Done(t) /\ Prior(t)' = Prior(t)
    BY Zenon DEF Standing, Done, InFlight, Prior
  <1>3. ASSUME NEW c \in Callers
        PROVE  CallKnows(c)'
    <2>1. CallKnows(c)
      BY Zenon DEF ExecPart, CallsAgree
    <2> QED BY <1>2, <2>1, Zenon DEF CallKnows
  <1>4. CallsAgree'
    BY <1>3, Zenon DEF ExecPart, CallsAgree
  <1>5. EffectsAgree'
    BY <1>2, Zenon DEF ExecPart, EffectsAgree
  <1> QED BY <1>1, <1>4, <1>5, Zenon DEF ExecPart

\* The process dies, starts again, or creates the run.
LEMMA ProcessStep ==
    ASSUME ExecInv, Create \/ Crash \/ Restart
    PROVE  ExecPart'
  <1> USE DEF ExecInv
  <1>1. CASE Create
    <2>1. UNCHANGED <<stepStatus, reconciliations, call, effects, up>>
      BY <1>1, Zenon DEF Create, CreateRun, execVars, stepVars
    <2>2. ExecPart
      BY Zenon DEF ExecPart
    <2> QED BY <2>1, <2>2, NothingMoved, Zenon
  <1>2. CASE Crash \/ Restart
    <2>1. UNCHANGED effects /\ up' \in BOOLEAN
      BY <1>2, Zenon DEF Crash, Restart
    <2>2. \A t \in Steps : Standing(t)' = Standing(t) /\ Done(t)' = Done(t)
      BY <2>1, Zenon DEF Standing, Done, InFlight
    <2>3. call' \in [Callers -> Calls] /\ \A c \in Callers : call'[c].pc = "idle"
      <3>1. NoCall \in Calls /\ NoCall.pc = "idle"
        BY Zenon DEF NoCall, Calls, Pcs
      <3> QED BY <1>2, <3>1, Zenon DEF Crash, Restart, CallsAgree, ExecTypeOK
    <2>4. \A t \in Steps : \/ stepStatus'[t] = stepStatus[t]
                           \/ stepStatus[t] = "in_progress" /\ stepStatus'[t] = "outcome_unknown"
      BY <1>2, LedgerRecovers, Zenon DEF Crash, Restart, IInv, vars
    <2>5. ExecTypeOK'
      BY <2>1, <2>3, Zenon DEF ExecTypeOK
    <2>6. \A c \in Callers : CallKnows(c)'
      BY <2>3, Zenon DEF CallKnows, Executing, Ambiguous
    <2>7. CallsAgree'
      BY <2>3, <2>6, Zenon DEF CallsAgree, Executing
    <2>8. EffectsAgree'
      <3> SUFFICES ASSUME NEW t \in Steps
                   PROVE  /\ \A i, j \in Standing(t)' : i = j
                          /\ stepStatus'[t] = "pending" => Standing(t)' = {}
                          /\ t \in External /\ stepStatus'[t] = "succeeded" => Done(t)' # {}
                          /\ t \notin External => Standing(t)' = {}
        BY Zenon DEF EffectsAgree
      <3>1. /\ stepStatus'[t] = "pending" => stepStatus[t] = "pending"
            /\ stepStatus'[t] = "succeeded" => stepStatus[t] = "succeeded"
        BY <2>4, Zenon
      <3> QED BY <2>2, <3>1 DEF EffectsAgree
    <2>9. StepsInOrder'
      <3>1. \A i \in 1..Len(Order) : Order[i] \in Steps
        BY ExecutorConstants, Zenon
      <3>2. SUFFICES ASSUME NEW i \in 1..Len(Order), NEW j \in 1..Len(Order), i < j,
                            stepStatus'[Order[j]] # "pending"
                     PROVE  stepStatus'[Order[i]] \in Concluded
        BY Zenon DEF StepsInOrder
      <3>3. stepStatus[Order[j]] # "pending"
        BY <2>4, <3>1, <3>2, Zenon
      <3>4. stepStatus[Order[i]] \in Concluded
        BY <3>2, <3>3, Zenon DEF StepsInOrder
      <3> QED BY <2>4, <3>1, <3>4, Zenon DEF Concluded
    <2> QED BY <2>5, <2>7, <2>8, <2>9, Zenon DEF ExecPart
  <1> QED BY <1>1, <1>2, Zenon
------------------------------------------------------------------------------
(* The theorems.                                                           *)

\* A set without two members counts one at most.
LEMMA OneAtMost ==
    ASSUME NEW S, \A x, y \in S : x = y
    PROVE  (S = {} /\ Cardinality(S) = 0) \/ (S # {} /\ Cardinality(S) = 1)
  <1>1. CASE S = {}
    BY <1>1, FS_EmptySet, Zenon
  <1>2. CASE S # {}
    <2>1. PICK x \in S : TRUE
      BY <1>2, Zenon
    <2>2. S = {x}
      BY <2>1, Zenon
    <2>3. Cardinality({x}) = 1
      BY FS_Singleton, Zenon
    <2> QED BY <1>2, <2>2, <2>3, Zenon
  <1> QED BY <1>1, <1>2, Zenon

\* Nothing was begun and nothing was dispatched.
LEMMA ExecInitInv == ExecInit => ExecInv
  <1> SUFFICES ASSUME ExecInit
               PROVE  ExecInv
    BY Zenon
  <1>1. IInv
    BY LedgerInit, Zenon DEF ExecInit
  <1>2. /\ \A s \in Steps : stepStatus[s] = "pending" /\ effects[s] = <<>>
        /\ \A c \in Callers : call[c] = NoCall
    BY Zenon DEF ExecInit, Init
  <1>3. \A s \in Steps : Standing(s) = {} /\ Done(s) = {}
    BY <1>2 DEF Standing, Done, InFlight
  <1>4. NoCall \in Calls /\ NoCall.pc = "idle"
    BY Zenon DEF NoCall, Calls, Pcs
  <1>5. ExecTypeOK
    <2>1. effects \in [Steps -> Seq({"inflight", "done", "lost"})]
      BY DEF ExecInit
    <2> QED BY <1>2, <1>4, <2>1, Zenon DEF ExecInit, ExecTypeOK
  <1>6. StepsInOrder
    BY <1>2, ExecutorConstants, Zenon DEF StepsInOrder
  <1>7. CallsAgree
    BY <1>2, <1>4, Zenon DEF CallsAgree, CallKnows, Executing, Ambiguous
  <1>8. EffectsAgree
    BY <1>2, <1>3, Zenon DEF EffectsAgree
  <1> QED BY <1>1, <1>5, <1>6, <1>7, <1>8, Zenon DEF ExecInv

\* Every step of a call, of the process and of the world keeps the invariant.
LEMMA ExecStepInv == ExecInv /\ [ExecNext]_allVars => ExecInv'
  <1> SUFFICES ASSUME ExecInv, [ExecNext]_allVars
               PROVE  ExecInv'
    BY Zenon
  <1>1. IInv'
    BY StepOfLedger, LedgerStep, Zenon DEF ExecInv
  <1>2. CASE UNCHANGED allVars
    <2>1. UNCHANGED <<stepStatus, reconciliations, call, effects, up>>
      BY <1>2, Zenon DEF allVars, vars, execVars
    <2>2. ExecPart'
      BY <2>1, NothingMoved, Zenon DEF ExecInv, ExecPart
    <2> QED BY <1>1, <2>2, Zenon DEF ExecInv, ExecPart
  <1>3. CASE ExecNext
    <2>1. ASSUME Create \/ Crash \/ Restart
          PROVE  ExecPart'
      BY <2>1, ProcessStep, Zenon
    <2>2. ASSUME WorldStep
          PROVE  ExecPart'
      BY <2>2, WorldStepKeeps, Zenon
    <2>3. ASSUME NEW c \in Callers, Advance(c) \/ Proceed(c)
          PROVE  ExecPart'
      <3>1. CASE \/ Advance(c) \/ Stop(c) \/ Denied(c) \/ AlreadyCompleted(c) \/ BeginRefused(c)
                 \/ ReconcileUnknown(c) \/ ReconcileReplayed(c) \/ ReconcileRefused(c)
                 \/ NoGateToResolve(c) \/ GateBlocked(c) \/ PassGate(c)
        BY <3>1, RestStep, Zenon
      <3>2. CASE StartAuthorize(c) \/ StartReconcile(c)
        BY <3>2, StartAuthorizeStep, StartReconcileStep, Zenon
      <3>3. CASE Begin(c) \/ Dispatch(c) \/ Reconciled(c)
        BY <3>3, BeginStep, DispatchStep, ReconciledStep, Zenon
      <3>4. CASE \/ ExecuteUnknown(c) \/ ExecuteFailed(c)
                 \/ \E kinds \in ProvidedKinds : ExecuteSucceeded(c, kinds)
        BY <3>4, ExecuteStep, Zenon
      <3>5. CASE \E obs \in {"applied", "not_applied"}, kinds \in ProvidedKinds : Observe(c, obs, kinds)
        BY <3>5, ObserveStep, Zenon
      <3> QED BY <2>3, <3>1, <3>2, <3>3, <3>4, <3>5, Zenon DEF Proceed
    <2>4. ExecPart'
      BY <1>3, <2>1, <2>2, <2>3, Zenon DEF ExecNext
    <2> QED BY <1>1, <2>4, Zenon DEF ExecInv, ExecPart
  <1> QED BY <1>2, <1>3, Zenon

\* The inductive invariant holds of every state the executor reaches.
THEOREM ExecInvariance == ExecSpec => []ExecInv
  BY ExecInitInv, ExecStepInv, PTL DEF ExecSpec

\* The executor, its calls interleaved, killed and restarted, uses the ledger only through the
\* ledger's operations: what is proved of the ledger holds of the executor.
THEOREM ExecutorUsesLedger == ExecSpec => Spec
  <1>1. ExecInit => Init
    BY Zenon DEF ExecInit
  <1>2. ExecInv /\ [ExecNext]_allVars => [Next]_vars
    BY StepOfLedger, Zenon DEF ExecInv
  <1> QED BY <1>1, <1>2, ExecInvariance, PTL DEF ExecSpec, Spec

\* One dispatch of a step stands at most, so it happens once at most.
LEMMA OnceFromInv == ExecInv => EffectsHappenOnce
  <1> SUFFICES ASSUME ExecInv, NEW s \in External
               PROVE  Cardinality(Done(s)) + Cardinality(InFlight(s)) <= 1
    BY Zenon DEF EffectsHappenOnce
  <1>1. \A i, j \in Done(s) \cup InFlight(s) : i = j
    BY Zenon DEF ExecInv, EffectsAgree, Standing, External
  <1>2. Done(s) \cap InFlight(s) = {}
    BY Zenon DEF Done, InFlight
  <1>3. Done(s) = {} \/ InFlight(s) = {}
    BY <1>1, <1>2, Zenon
  <1>4. /\ (Done(s) = {} /\ Cardinality(Done(s)) = 0) \/ Cardinality(Done(s)) = 1
        /\ (InFlight(s) = {} /\ Cardinality(InFlight(s)) = 0) \/ Cardinality(InFlight(s)) = 1
    BY <1>1, OneAtMost, Zenon
  <1>5. Cardinality({}) = 0
    BY FS_EmptySet, Zenon
  <1> QED BY <1>3, <1>4, <1>5

\* The world and the ledger agree on what succeeded.
LEMMA RealFromInv == ExecInv => SucceededEffectsHappened
  BY Zenon DEF ExecInv, EffectsAgree, SucceededEffectsHappened, External

\* advance(): the external effect of a step takes place at most once, whatever the calls, the
\* crashes and the late answers, for every blueprint and every number of callers.
THEOREM EffectsAtMostOnce == ExecSpec => []EffectsHappenOnce
  BY OnceFromInv, ExecInvariance, PTL

\* recordStepOutcome and reconcileOperation as advance() calls them: an external step is
\* recorded as succeeded only when its effect took place.
THEOREM SuccessIsReal == ExecSpec => []SucceededEffectsHappened
  BY RealFromInv, ExecInvariance, PTL

\* advance(): one operation of a run is open at a time, however many calls are in progress.
THEOREM OneOperation == ExecSpec => []OneOperationAtATime
  <1>1. ExecInv => OneOperationAtATime
    <2> SUFFICES ASSUME ExecInv
                 PROVE  Cardinality(PendingOperations) <= 1
      BY Zenon DEF OneOperationAtATime
    <2>1. ASSUME NEW s \in PendingOperations, NEW t \in PendingOperations
          PROVE  s = t
      <3>1. PICK i \in 1..Len(Order) : Order[i] = s
        BY ExecutorConstants, Zenon DEF PendingOperations
      <3>2. PICK j \in 1..Len(Order) : Order[j] = t
        BY ExecutorConstants, Zenon DEF PendingOperations
      <3>3. ~ (i < j) /\ ~ (j < i)
        BY <3>1, <3>2, Zenon DEF ExecInv, StepsInOrder, PendingOperations, Concluded
      <3>4. i = j
        BY <3>3
      <3> QED BY <3>1, <3>2, <3>4, Zenon
    <2> QED BY <2>1, OneAtMost
  <1> QED BY <1>1, ExecInvariance, PTL

\* What a release that is reported as succeeded amounts to: the external effect of each of its
\* steps took place once, and no dispatch is left that could still take place.
ReleasedOnce ==
    runStatus = "succeeded" => \A s \in External : Cardinality(Done(s)) = 1 /\ InFlight(s) = {}

\* A succeeded run has succeeded steps, and each of these has its one dispatch behind it.
LEMMA ReleasedFromInv == ExecInv => ReleasedOnce
  <1> SUFFICES ASSUME ExecInv, runStatus = "succeeded", NEW s \in External
               PROVE  Cardinality(Done(s)) = 1 /\ InFlight(s) = {}
    BY Zenon DEF ReleasedOnce
  <1>1. stepStatus[s] = "succeeded"
    BY Zenon DEF ExecInv, IInv, SucceededIsComplete, External
  <1>2. Done(s) # {}
    BY <1>1, RealFromInv, Zenon DEF SucceededEffectsHappened
  <1>3. \A i, j \in Done(s) \cup InFlight(s) : i = j
    BY Zenon DEF ExecInv, EffectsAgree, Standing, External
  <1>4. Done(s) \cap InFlight(s) = {}
    BY Zenon DEF Done, InFlight
  <1>5. Cardinality(Done(s)) = 1
    BY <1>2, <1>3, OneAtMost, Zenon
  <1> QED BY <1>2, <1>3, <1>4, <1>5, Zenon

\* advance(): when the run has succeeded, what the release is for was done once, and nothing that
\* a lost call or a killed process dispatched is still under way.
THEOREM ReleaseHappensOnce == ExecSpec => []ReleasedOnce
  BY ReleasedFromInv, ExecInvariance, PTL
=============================================================================

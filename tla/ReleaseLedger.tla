---------------------------- MODULE ReleaseLedger ----------------------------
(***************************************************************************)
(* The durable release ledger: one run of a workflow blueprint, as the     *)
(* rows that ReleaseOrchestrator (engine/release-orchestrator.ts) keeps in *)
(* SQLite.  Every public mutation runs inside one BEGIN IMMEDIATE          *)
(* transaction of SqliteReleaseLedger, so it is one action here; a call    *)
(* that throws is rolled back and a call that is replayed returns what is  *)
(* stored, so neither changes a row and neither is an action.              *)
(*                                                                         *)
(* The clients of this module are arbitrary: any operation, with any       *)
(* input, may be called at any time.  ReleaseExecutor composes it with the *)
(* only client the service has.                                            *)
(***************************************************************************)
EXTENDS Naturals, Sequences, FiniteSets

CONSTANTS
    Steps,          \* step ids of the blueprint
    Gates,          \* health gate ids of the blueprint
    DependsOn,      \* StepDefinition.dependsOn
    RequiredGates,  \* StepDefinition.requiredGates
    HealthGate,     \* StepDefinition.healthGateId, or NoGate
    RequiredKinds,  \* HealthGateDefinition.requiredEvidenceKinds
    Kinds,          \* evidence kinds
    StepKeys,       \* the idempotency keys clients use to begin each step
    ReconcileKeys,  \* the idempotency keys clients use to reconcile
    GateKeys,       \* the idempotency keys clients use to decide gates
    MaxAttempts,    \* bound: attempts per step
    NoGate, NoKey

Keys == UNION {StepKeys[s] : s \in Steps}

\* assertAcyclic: peeling off steps whose dependencies are all peeled off leaves
\* none.
AssertAcyclic ==
    LET Peeled[n \in Nat] ==
            IF n = 0 THEN {}
            ELSE LET before == Peeled[n - 1] IN {s \in Steps : DependsOn[s] \subseteq before}
    IN  Peeled[Cardinality(Steps)] = Steps

\* validateWorkflowBlueprint: known gates and dependencies, no step depending
\* on itself, no dependency cycle, every gate requiring some evidence.
ValidateWorkflowBlueprint ==
    /\ HealthGate \in [Steps -> Gates \cup {NoGate}]
    /\ RequiredGates \in [Steps -> SUBSET Gates]
    /\ RequiredKinds \in [Gates -> (SUBSET Kinds) \ {{}}]
    /\ DependsOn \in [Steps -> SUBSET Steps]
    /\ \A s \in Steps : s \notin DependsOn[s]
    /\ AssertAcyclic

ASSUME BlueprintValid == ValidateWorkflowBlueprint

ASSUME ConstantTypes ==
    /\ IsFiniteSet(Steps)
    /\ NoGate \notin Gates
    /\ StepKeys \in [Steps -> SUBSET Keys]
    /\ NoKey \notin Keys
    /\ MaxAttempts \in Nat

\* The blueprints of the repository have at most one measuring step per gate.
\* The validator does not demand it, and the engine needs it: a second
\* measuring step would reset a decided gate.
ASSUME GateMeasuredOnce ==
    \A s, t \in Steps : HealthGate[s] # NoGate /\ HealthGate[s] = HealthGate[t] => s = t

VARIABLES
    runStatus,      \* release_runs.status, "absent" before createRun
    lastSeq,        \* release_runs.last_seq = number of run_events rows
    stepStatus,     \* run_steps.status
    stepKey,        \* run_steps.idempotency_key (and operation_id), or NoKey
    attempts,       \* step_attempts.status of each step, by attempt_number
    evidence,       \* evidence_records: the kinds recorded for each step
    reconciliations,\* operation_reconciliations rows
    gateStatus,     \* run_health_gates.status
    decisions       \* health_gate_decisions rows

stepVars == <<stepStatus, stepKey, attempts>>
gateVars == <<gateStatus, decisions>>
vars == <<runStatus, lastSeq, stepStatus, stepKey, attempts, evidence,
          reconciliations, gateStatus, decisions>>

RunStatus == {"absent", "planned", "running", "paused_outcome_unknown", "failed", "succeeded"}
StepStatus == {"pending", "in_progress", "succeeded", "failed", "outcome_unknown"}
AttemptStatus == {"intent_recorded", "succeeded", "failed", "outcome_unknown",
                  "resolved_not_applied"}
GateStatus == {"pending", "passed", "failed", "outcome_unknown"}
ReconcileOutcome == {"applied", "not_applied", "still_unknown"}
GateOutcome == {"passed", "failed"}

Reconciliation == [key : ReconcileKeys, step : Steps, outcome : ReconcileOutcome,
                   kinds : SUBSET Kinds]
Decision == [gate : Gates, key : GateKeys, outcome : GateOutcome]

\* requireLatestAttempt: the attempt row an operation id stands for.
Latest(s) == attempts[s][Len(attempts[s])]
LatestIs(s, status) == attempts[s] # <<>> /\ Latest(s) = status
SetLatest(s, status) == [attempts EXCEPT ![s] = [@ EXCEPT ![Len(@)] = status]]

Active(as, s) == as[s] # <<>> /\ as[s][Len(as[s])] \in {"intent_recorded", "outcome_unknown"}

\* Mutant: the first resolved operation resumes the run.
ResumeAtOnce(as, ss) == IF runStatus = "paused_outcome_unknown" THEN "running" ELSE runStatus

\* resumeIfNoUnknownOperations: the run status after a reconciliation that
\* left the attempts as and the steps ss.
Resume(as, ss) ==
    IF runStatus # "paused_outcome_unknown" \/ \E s \in Steps : Active(as, s)
    THEN runStatus
    ELSE IF \E s \in Steps : ss[s] = "failed" THEN "failed" ELSE "running"

\* Mutant: gates are not part of completeness.
CompletesOnSteps(rs, ss, gs) ==
    /\ rs \notin {"failed", "paused_outcome_unknown"}
    /\ \A s \in Steps : ss[s] = "succeeded"

\* maybeCompleteRun: what is left to do of a run with status rs.
Completes(rs, ss, gs) ==
    /\ rs \notin {"failed", "paused_outcome_unknown"}
    /\ \A s \in Steps : ss[s] = "succeeded"
    /\ \A g \in Gates : gs[g] = "passed"

\* The event of the operation itself (appendEvent), then maybeCompleteRun with
\* its own event.
AppendEventAndComplete(rs) ==
    IF Completes(rs, stepStatus', gateStatus')
    THEN runStatus' = "succeeded" /\ lastSeq' = lastSeq + 2
    ELSE runStatus' = rs /\ lastSeq' = lastSeq + 1

AppendEvent(rs) == runStatus' = rs /\ lastSeq' = lastSeq + 1

\* The gate measured by s, if any, takes the given status.
SetMeasuredGate(s, status) ==
    gateStatus' = [g \in Gates |-> IF HealthGate[s] = g THEN status ELSE gateStatus[g]]
------------------------------------------------------------------------------
Init ==
    /\ runStatus = "absent"
    /\ lastSeq = 0
    /\ stepStatus = [s \in Steps |-> "pending"]
    /\ stepKey = [s \in Steps |-> NoKey]
    /\ attempts = [s \in Steps |-> <<>>]
    /\ evidence = [s \in Steps |-> {}]
    /\ reconciliations = {}
    /\ gateStatus = [g \in Gates |-> "pending"]
    /\ decisions = {}

CreateRun ==
    /\ runStatus = "absent"
    /\ AppendEvent("planned")
    /\ UNCHANGED <<stepVars, evidence, reconciliations, gateVars>>

StartRun ==
    /\ runStatus = "planned"
    /\ AppendEvent("running")
    /\ UNCHANGED <<stepVars, evidence, reconciliations, gateVars>>

\* Mutant: required gates are not looked at.
CanBeginIgnoringGates(s, k) ==
    /\ runStatus = "running"
    /\ \A t \in Steps : stepKey[t] = k => t = s
    /\ stepStatus[s] = "pending"
    /\ \A d \in DependsOn[s] : stepStatus[d] = "succeeded"
    /\ stepKey[s] # NoKey => stepKey[s] = k /\ LatestIs(s, "resolved_not_applied")

\* The conditions under which beginStepAttempt records a new intent.
CanBegin(s, k) ==
    /\ runStatus = "running"
    /\ \A t \in Steps : stepKey[t] = k => t = s
    /\ stepStatus[s] = "pending"
    /\ \A d \in DependsOn[s] : stepStatus[d] = "succeeded"
    /\ \A g \in RequiredGates[s] : gateStatus[g] = "passed"
    /\ stepKey[s] # NoKey => stepKey[s] = k /\ LatestIs(s, "resolved_not_applied")

BeginStepAttempt(s, k) ==
    /\ CanBegin(s, k)
    /\ Len(attempts[s]) < MaxAttempts
    /\ stepStatus' = [stepStatus EXCEPT ![s] = "in_progress"]
    /\ stepKey' = [stepKey EXCEPT ![s] = k]
    /\ attempts' = [attempts EXCEPT ![s] = Append(@, "intent_recorded")]
    /\ AppendEvent(runStatus)
    /\ UNCHANGED <<evidence, reconciliations, gateVars>>

\* A gate measurement may succeed only with evidence; a failure fails the run
\* whatever its status.
RecordStepOutcome(s, outcome, kinds) ==
    /\ LatestIs(s, "intent_recorded")
    /\ outcome = "succeeded" /\ HealthGate[s] # NoGate => kinds # {}
    /\ attempts' = SetLatest(s, outcome)
    /\ stepStatus' = [stepStatus EXCEPT ![s] = outcome]
    /\ evidence' = [evidence EXCEPT ![s] = @ \cup kinds]
    /\ UNCHANGED <<stepKey, reconciliations, gateVars>>
    /\ IF outcome = "succeeded" THEN AppendEventAndComplete(runStatus) ELSE AppendEvent("failed")

MarkOutcomeUnknown(s) ==
    /\ LatestIs(s, "intent_recorded")
    /\ attempts' = SetLatest(s, "outcome_unknown")
    /\ stepStatus' = [stepStatus EXCEPT ![s] = "outcome_unknown"]
    /\ SetMeasuredGate(s, "outcome_unknown")
    /\ AppendEvent("paused_outcome_unknown")
    /\ UNCHANGED <<stepKey, evidence, reconciliations, decisions>>

\* Mutants: a key may be used again; a concluded operation may be reconciled.
CanReconcileAnyKey(s, k, outcome, kinds) ==
    /\ outcome # "still_unknown" => kinds # {}
    /\ LatestIs(s, "outcome_unknown")

CanReconcileConcluded(s, k, outcome, kinds) ==
    /\ outcome # "still_unknown" => kinds # {}
    /\ \A r \in reconciliations : r.key # k
    /\ attempts[s] # <<>>

\* The conditions under which reconcileOperation stores a new observation:
\* conclusive outcomes need evidence, the key is fresh, the operation ambiguous.
CanReconcile(s, k, outcome, kinds) ==
    /\ outcome # "still_unknown" => kinds # {}
    /\ \A r \in reconciliations : r.key # k
    /\ LatestIs(s, "outcome_unknown")

\* Mutant: an inconclusive observation releases the step for a retry.
ReconcileUnlessApplied(s, k, outcome, kinds) ==
    /\ CanReconcile(s, k, outcome, kinds)
    /\ evidence' = [evidence EXCEPT ![s] = @ \cup kinds]
    /\ reconciliations' = reconciliations \cup
          {[key |-> k, step |-> s, outcome |-> outcome, kinds |-> kinds]}
    /\ LET applied == outcome = "applied" IN
         /\ attempts' = SetLatest(s, IF applied THEN "succeeded" ELSE "resolved_not_applied")
         /\ stepStatus' = [stepStatus EXCEPT ![s] = IF applied THEN "succeeded" ELSE "pending"]
    /\ SetMeasuredGate(s, "pending")
    /\ AppendEventAndComplete(Resume(attempts', stepStatus'))
    /\ UNCHANGED <<stepKey, decisions>>

ReconcileOperation(s, k, outcome, kinds) ==
    /\ CanReconcile(s, k, outcome, kinds)
    /\ evidence' = [evidence EXCEPT ![s] = @ \cup kinds]
    /\ reconciliations' = reconciliations \cup
          {[key |-> k, step |-> s, outcome |-> outcome, kinds |-> kinds]}
    /\ \/ /\ outcome = "applied"
          /\ attempts' = SetLatest(s, "succeeded")
          /\ stepStatus' = [stepStatus EXCEPT ![s] = "succeeded"]
          /\ SetMeasuredGate(s, "pending")
       \/ /\ outcome = "not_applied"
          /\ attempts' = SetLatest(s, "resolved_not_applied")
          /\ stepStatus' = [stepStatus EXCEPT ![s] = "pending"]
          /\ SetMeasuredGate(s, "pending")
       \/ /\ outcome = "still_unknown"
          /\ UNCHANGED <<attempts, stepStatus, gateStatus>>
    /\ AppendEventAndComplete(Resume(attempts', stepStatus'))
    /\ UNCHANGED <<stepKey, decisions>>

\* Startup recovery: every persisted intent becomes ambiguous, one event each.
Interrupted == {s \in Steps : LatestIs(s, "intent_recorded")}

RecoverInterruptedOperations ==
    /\ Interrupted # {}
    /\ attempts' = [s \in Steps |-> IF s \in Interrupted
                                    THEN [attempts[s] EXCEPT ![Len(attempts[s])] = "outcome_unknown"]
                                    ELSE attempts[s]]
    /\ stepStatus' = [s \in Steps |-> IF s \in Interrupted THEN "outcome_unknown" ELSE stepStatus[s]]
    /\ gateStatus' = [g \in Gates |-> IF \E s \in Interrupted : HealthGate[s] = g
                                      THEN "outcome_unknown" ELSE gateStatus[g]]
    /\ runStatus' = "paused_outcome_unknown"
    /\ lastSeq' = lastSeq + Cardinality(Interrupted)
    /\ UNCHANGED <<stepKey, evidence, reconciliations, decisions>>

\* Mutant: a gate passes on any evidence.
CanResolveAnyEvidence(g, k, outcome, kinds) ==
    /\ \A d \in decisions : d.key # k /\ d.gate # g
    /\ runStatus = "running"
    /\ gateStatus[g] = "pending"
    /\ \E s \in Steps : HealthGate[s] = g /\ stepStatus[s] = "succeeded"

\* The conditions under which resolveHealthGate stores a decision.
CanResolve(g, k, outcome, kinds) ==
    /\ outcome = "passed" => RequiredKinds[g] \subseteq kinds
    /\ \A d \in decisions : d.key # k /\ d.gate # g
    /\ runStatus = "running"
    /\ gateStatus[g] = "pending"
    /\ \E s \in Steps : HealthGate[s] = g /\ stepStatus[s] = "succeeded"

ResolveHealthGate(g, k, outcome, kinds) ==
    /\ CanResolve(g, k, outcome, kinds)
    /\ evidence' = [s \in Steps |-> IF HealthGate[s] = g THEN evidence[s] \cup kinds ELSE evidence[s]]
    /\ decisions' = decisions \cup {[gate |-> g, key |-> k, outcome |-> outcome]}
    /\ gateStatus' = [gateStatus EXCEPT ![g] = outcome]
    /\ UNCHANGED <<stepVars, reconciliations>>
    /\ IF outcome = "passed" THEN AppendEventAndComplete(runStatus) ELSE AppendEvent("failed")

Next ==
    \/ CreateRun
    \/ StartRun
    \/ \E s \in Steps : \E k \in StepKeys[s] : BeginStepAttempt(s, k)
    \/ \E s \in Steps, outcome \in {"succeeded", "failed"}, kinds \in SUBSET Kinds :
          RecordStepOutcome(s, outcome, kinds)
    \/ \E s \in Steps : MarkOutcomeUnknown(s)
    \/ \E s \in Steps, k \in ReconcileKeys, outcome \in ReconcileOutcome, kinds \in SUBSET Kinds :
          ReconcileOperation(s, k, outcome, kinds)
    \/ RecoverInterruptedOperations
    \/ \E g \in Gates, k \in GateKeys, outcome \in GateOutcome, kinds \in SUBSET Kinds :
          ResolveHealthGate(g, k, outcome, kinds)

Spec == Init /\ [][Next]_vars
------------------------------------------------------------------------------
TypeOK ==
    /\ runStatus \in RunStatus
    /\ lastSeq \in Nat
    /\ stepStatus \in [Steps -> StepStatus]
    /\ stepKey \in [Steps -> Keys \cup {NoKey}]
    /\ attempts \in [Steps -> Seq(AttemptStatus)]
    /\ evidence \in [Steps -> SUBSET Kinds]
    /\ reconciliations \subseteq Reconciliation
    /\ gateStatus \in [Gates -> GateStatus]
    /\ decisions \subseteq Decision

\* The status of an attempt and the status of its step that go together.
StepStatusOf(attempt) ==
    CASE attempt = "intent_recorded" -> "in_progress"
      [] attempt = "resolved_not_applied" -> "pending"
      [] OTHER -> attempt

\* beginStepAttempt, recordStepOutcome, markOutcomeUnknown, reconcileOperation
\* and recoverInterruptedOperations each update run_steps and step_attempts by
\* separate statements; the two tables always tell the same story about a step.
StepMatchesAttempt ==
    \A s \in Steps :
        /\ attempts[s] = <<>> <=> stepKey[s] = NoKey
        /\ attempts[s] = <<>> => stepStatus[s] = "pending"
        /\ attempts[s] # <<>> => stepStatus[s] = StepStatusOf(Latest(s))

\* At-most-once dispatch: beginStepAttempt opens attempt n+1 of a step only
\* when attempt n is proven not applied, and every such proof is a row of
\* operation_reconciliations of its own.
RetryOnlyAfterProof ==
    \A s \in Steps :
        /\ \A i \in 1..Len(attempts[s]) :
              i < Len(attempts[s]) => attempts[s][i] = "resolved_not_applied"
        /\ Len(attempts[s]) <=
              1 + Cardinality({r \in reconciliations : r.step = s /\ r.outcome = "not_applied"})

\* A step that was ever begun has its dependencies succeeded and its required
\* gates passed, now and not only when beginStepAttempt looked: no later
\* operation takes back what an external effect was dispatched on.
StartedStepsAreJustified ==
    \A s \in Steps : attempts[s] # <<>> =>
        /\ \A d \in DependsOn[s] : stepStatus[d] = "succeeded"
        /\ \A g \in RequiredGates[s] : gateStatus[g] = "passed"

\* While an operation is ambiguous the run is paused or failed, so
\* beginStepAttempt and resolveHealthGate refuse: nothing is dispatched on top
\* of an effect nobody has proof of, whatever else is recorded meanwhile.
UnknownBlocksRun ==
    (\E s \in Steps : LatestIs(s, "outcome_unknown")) =>
        runStatus \in {"paused_outcome_unknown", "failed"}

\* maybeCompleteRun: a succeeded run has every step succeeded and every gate
\* passed, although four operations in four transactions can complete it.
SucceededIsComplete ==
    runStatus = "succeeded" =>
        /\ \A s \in Steps : stepStatus[s] = "succeeded"
        /\ \A g \in Gates : gateStatus[g] = "passed"

\* resolveHealthGate: a passed gate has a decision, a succeeded measurement
\* and recorded evidence of every required kind.
PassedGateIsMeasured ==
    \A g \in Gates : gateStatus[g] = "passed" =>
        /\ \E d \in decisions : d.gate = g /\ d.outcome = "passed"
        /\ \E s \in Steps : /\ HealthGate[s] = g
                            /\ stepStatus[s] = "succeeded"
                            /\ RequiredKinds[g] \subseteq evidence[s]

\* beginStepAttempt refuses a key that another step owns: two steps never
\* share an idempotency key, although a client may try any key for any step.
KeysIdentifySteps ==
    \A s, t \in Steps : stepKey[s] = stepKey[t] /\ stepKey[s] # NoKey => s = t

ConclusionsKept ==
    /\ \A g \in Gates : gateStatus[g] \in GateOutcome => gateStatus'[g] = gateStatus[g]
    /\ \A s \in Steps : \A i \in 1..Len(attempts[s]) :
          attempts[s][i] \in {"succeeded", "failed", "resolved_not_applied"} =>
              i <= Len(attempts'[s]) /\ attempts'[s][i] = attempts[s][i]
    /\ runStatus = "succeeded" => runStatus' = "succeeded"

\* "Health gate decision is immutable once recorded": no operation changes a
\* decided gate, or the conclusive status of an attempt, or a succeeded run.
ConclusionsAreFinal == [][ConclusionsKept]_vars

Visible == <<runStatus, stepStatus, attempts, gateStatus>>

\* Every change a reader of the run can see advances last_seq.  The trusted
\* host's expectedLastSeq check and the readers waiting for a later seq take
\* an unchanged last_seq to mean an unchanged run.
ChangesAdvanceSeq == [][Visible' # Visible => lastSeq' > lastSeq]_vars
=============================================================================

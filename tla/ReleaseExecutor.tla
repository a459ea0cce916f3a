--------------------------- MODULE ReleaseExecutor ---------------------------
(***************************************************************************)
(* ReleaseWorkflowExecutor (release-workflow-executor.ts) driving one run  *)
(* of ReleaseLedger: concurrent advance() calls, the capabilities they     *)
(* await, the external effects those dispatch, and crashes of the process. *)
(*                                                                         *)
(* advance() runs on one JavaScript thread.  Between two awaits nothing    *)
(* else of the process runs, but the process may die between two ledger    *)
(* transactions; "loop" and "gate" are those points, and only a crash      *)
(* interleaves with them.                                                  *)
(***************************************************************************)
EXTENDS ReleaseLedger

CONSTANTS
    Callers,        \* concurrent calls of advance()
    Order,          \* the steps by ordinal
    CapabilityOf,   \* the capability bound to the action of each step
    Provided,       \* the sets of evidence kinds a conclusive answer about a step brings
    Rejection,      \* the evidence kinds of an answer "not_applied"
    MaxSteps,       \* advance()'s maxSteps
    MaxCrashes,     \* bound: crashes of the process
    NoStep

VARIABLES
    up,             \* the Oracle process is serving
    call,           \* the state of each advance() call
    effects,        \* the external effects of each step, one per dispatch
    crashes         \* how often the process died

execVars == <<up, call, effects, crashes>>
allVars == <<vars, execVars>>

------------------------------------------------------------------------------
(* What each kind of capability may answer: the results of execute() other *)
(* than outcome_unknown, those of reconcile() other than still_unknown,    *)
(* and whether execute() dispatches an external effect.                    *)

Capability == [external : BOOLEAN, execute : SUBSET {"succeeded", "failed"},
               reconcile : SUBSET {"applied", "not_applied"}]

SourceControlRead == [external |-> FALSE, execute |-> {"succeeded", "failed"},
                      reconcile |-> {"applied", "not_applied"}]
VerificationRead == [external |-> FALSE, execute |-> {"succeeded"}, reconcile |-> {"applied"}]
ReleaseEffect == [external |-> TRUE, execute |-> {}, reconcile |-> {"applied"}]
TagBootstrap == [external |-> TRUE, execute |-> {}, reconcile |-> {"applied"}]
SigningDispatch == [external |-> TRUE, execute |-> {}, reconcile |-> {"applied"}]
PublicationCheck == [external |-> FALSE, execute |-> {}, reconcile |-> {"applied"}]
PruneCleanup == [external |-> TRUE, execute |-> {"succeeded"}, reconcile |-> {"applied"}]

\* A capability outside the built-in bindings (the registry's "other"): an
\* effect whose host can also prove that it did not happen.
ProvableEffect == [external |-> TRUE, execute |-> {"succeeded"},
                   reconcile |-> {"applied", "not_applied"}]

ProvidedKinds == (UNION {Provided[s] : s \in Steps}) \cup {Rejection}

External == {s \in Steps : CapabilityOf[s].external}

\* key(): one idempotency key per step, its "-reconciliation" for every
\* reconciliation of that step, and one "-health" key per gate.
ASSUME ExecutorKeys ==
    /\ StepKeys = [s \in Steps |-> {s}]
    /\ ReconcileKeys = Steps
    /\ GateKeys = Gates

ASSUME ExecutorConstants ==
    /\ Order \in Seq(Steps) /\ {Order[i] : i \in 1..Len(Order)} = Steps
    /\ \A i, j \in 1..Len(Order) : Order[i] = Order[j] => i = j
    /\ CapabilityOf \in [Steps -> Capability]
    /\ Provided \in [Steps -> SUBSET ((SUBSET Kinds) \ {{}})]
    /\ Rejection \in (SUBSET Kinds) \ {{}}
    /\ MaxSteps \in Nat /\ MaxCrashes \in Nat
    /\ NoStep \notin Steps

------------------------------------------------------------------------------
\* A call: where it stands ("idle", "loop", "authorizing", "executing", "dispatched",
\* "reconciling", "observed" or "gate"), the step it is about, what was observed of it
\* with which evidence, and the passes made.
NoCall == [pc |-> "idle", step |-> NoStep, obs |-> "none", kinds |-> {}, pass |-> 0]

\* The thread belongs to the call that is between two of its own transactions.
Runs(c, at) ==
    /\ up
    /\ call[c].pc = at
    /\ \A d \in Callers \ {c} : call[d].pc \notin {"loop", "gate"}

Goto(c, pc) == call' = [call EXCEPT ![c].pc = pc]
Return(c) == call' = [call EXCEPT ![c] = NoCall]
NextPass(c) == call' = [call EXCEPT ![c] = [NoCall EXCEPT !.pc = "loop", !.pass = call[c].pass + 1]]

\* run.steps.find(...): the first step, by ordinal, of a set, if it has one.
FirstOf(S) == {s \in S : \E i \in 1..Len(Order) :
                            Order[i] = s /\ \A j \in 1..(i-1) : Order[j] \notin S}

PendingOperations == {s \in Steps : stepStatus[s] \in {"in_progress", "outcome_unknown"}}
PendingSteps == {s \in Steps : stepStatus[s] = "pending"}

\* The dispatches of a step that took place, or still may.
Done(s) == {i \in 1..Len(effects[s]) : effects[s][i] = "done"}
InFlight(s) == {i \in 1..Len(effects[s]) : effects[s][i] = "inflight"}

ExecInit ==
    /\ Init
    /\ up = TRUE
    /\ call = [c \in Callers |-> NoCall]
    /\ effects = [s \in Steps |-> <<>>]
    /\ crashes = 0

\* A run is created before anyone can advance it.
Create ==
    /\ up
    /\ CreateRun
    /\ UNCHANGED execVars

\* The entry of advance(): a planned run is started.
Advance(c) ==
    /\ Runs(c, "idle")
    /\ runStatus # "absent"
    /\ Goto(c, "loop")
    /\ IF runStatus = "planned" THEN StartRun ELSE UNCHANGED vars
    /\ UNCHANGED <<up, effects, crashes>>

\* The returns at the top of the loop: step_limit, succeeded, failed,
\* operation_in_progress, and blocked_gate when no step is pending.
Stop(c) ==
    /\ Runs(c, "loop")
    /\ \/ call[c].pass = MaxSteps
       \/ runStatus \in {"succeeded", "failed"}
       \/ \E s \in FirstOf(PendingOperations) : stepStatus[s] = "in_progress"
       \/ PendingOperations = {} /\ PendingSteps = {}
    /\ Return(c)
    /\ UNCHANGED <<vars, up, effects, crashes>>

\* An ambiguous operation is reconciled before anything else is done.
StartReconcile(c) ==
    /\ Runs(c, "loop")
    /\ call[c].pass < MaxSteps /\ runStatus \notin {"succeeded", "failed"}
    /\ \E s \in FirstOf(PendingOperations) :
         /\ stepStatus[s] = "outcome_unknown"
         /\ call' = [call EXCEPT ![c].pc = "reconciling", ![c].step = s]
    /\ UNCHANGED <<vars, up, effects, crashes>>

\* Mutant: a step is taken up although an operation is pending.
StartAuthorizeAnyway(c) ==
    /\ Runs(c, "loop")
    /\ call[c].pass < MaxSteps /\ runStatus \notin {"succeeded", "failed"}
    /\ \E s \in FirstOf(PendingSteps) :
         call' = [call EXCEPT ![c].pc = "authorizing", ![c].step = s]
    /\ UNCHANGED <<vars, up, effects, crashes>>

\* Otherwise the first pending step is authorized.
StartAuthorize(c) ==
    /\ Runs(c, "loop")
    /\ call[c].pass < MaxSteps /\ runStatus \notin {"succeeded", "failed"}
    /\ PendingOperations = {}
    /\ \E s \in FirstOf(PendingSteps) :
         call' = [call EXCEPT ![c].pc = "authorizing", ![c].step = s]
    /\ UNCHANGED <<vars, up, effects, crashes>>

\* authorize() answers: false, and the call returns; true, and
\* beginStepAttempt records the intent, finds the step completed, or throws.
Denied(c) ==
    /\ Runs(c, "authorizing")
    /\ Return(c)
    /\ UNCHANGED <<vars, up, effects, crashes>>

Begin(c) ==
    /\ Runs(c, "authorizing")
    /\ BeginStepAttempt(call[c].step, call[c].step)
    /\ Goto(c, "executing")
    /\ UNCHANGED <<up, effects, crashes>>

AlreadyCompleted(c) ==
    /\ Runs(c, "authorizing")
    /\ runStatus = "running" /\ stepStatus[call[c].step] = "succeeded"
    /\ NextPass(c)
    /\ UNCHANGED <<vars, up, effects, crashes>>

BeginRefused(c) ==
    /\ Runs(c, "authorizing")
    /\ ~ CanBegin(call[c].step, call[c].step)
    /\ ~ (runStatus = "running" /\ stepStatus[call[c].step] = "succeeded")
    /\ Return(c)
    /\ UNCHANGED <<vars, up, effects, crashes>>

\* execute() of an external capability: authorized again, the effect is sent.
Dispatch(c) ==
    /\ Runs(c, "executing")
    /\ call[c].step \in External
    /\ effects' = [effects EXCEPT ![call[c].step] = Append(@, "inflight")]
    /\ Goto(c, "dispatched")
    /\ UNCHANGED <<vars, up, crashes>>

\* execute() throws or cannot tell: the operation is marked ambiguous.
ExecuteUnknown(c) ==
    /\ Runs(c, "executing") \/ Runs(c, "dispatched")
    /\ MarkOutcomeUnknown(call[c].step)
    /\ Return(c)
    /\ UNCHANGED <<up, effects, crashes>>

\* Mutant: an accepted dispatch counts as success.
ExecuteAccepted(c, kinds) ==
    /\ LET s == call[c].step IN
         /\ IF s \in External THEN Runs(c, "dispatched") ELSE Runs(c, "executing")
         /\ "succeeded" \in CapabilityOf[s].execute
         /\ kinds \in Provided[s]
         /\ RecordStepOutcome(s, "succeeded", kinds)
    /\ call' = [call EXCEPT ![c].pc = "gate", ![c].kinds = kinds]
    /\ UNCHANGED <<up, effects, crashes>>

\* execute() is conclusive, truthfully: an external effect it calls succeeded
\* took place.
ExecuteSucceeded(c, kinds) ==
    /\ LET s == call[c].step IN
         /\ IF s \in External THEN Runs(c, "dispatched") /\ Len(effects[s]) \in Done(s)
                              ELSE Runs(c, "executing")
         /\ "succeeded" \in CapabilityOf[s].execute
         /\ kinds \in Provided[s]
         /\ RecordStepOutcome(s, "succeeded", kinds)
    /\ call' = [call EXCEPT ![c].pc = "gate", ![c].kinds = kinds]
    /\ UNCHANGED <<up, effects, crashes>>

ExecuteFailed(c) ==
    /\ Runs(c, "executing")
    /\ "failed" \in CapabilityOf[call[c].step].execute
    /\ RecordStepOutcome(call[c].step, "failed", {})
    /\ Return(c)
    /\ UNCHANGED <<up, effects, crashes>>

\* reconcile() throws or answers still_unknown: nothing is stored.
ReconcileUnknown(c) ==
    /\ Runs(c, "reconciling")
    /\ Return(c)
    /\ UNCHANGED <<vars, up, effects, crashes>>

\* Mutant: a queued effect counts as applied.
ObserveQueued(c, obs, kinds) ==
    /\ Runs(c, "reconciling")
    /\ LET s == call[c].step IN
         /\ obs \in CapabilityOf[s].reconcile
         /\ s \in External => IF obs = "applied" THEN Done(s) \cup InFlight(s) # {}
                                               ELSE Done(s) \cup InFlight(s) = {}
         /\ IF obs = "applied" THEN kinds \in Provided[s] ELSE kinds = Rejection
    /\ call' = [call EXCEPT ![c].pc = "observed", ![c].obs = obs, ![c].kinds = kinds]
    /\ UNCHANGED <<vars, up, effects, crashes>>

\* reconcile() looks at the world, truthfully: "applied" of an effect that took
\* place, "not_applied" of one that did not and no longer can.  The answer is
\* in flight until the await resumes.
Observe(c, obs, kinds) ==
    /\ Runs(c, "reconciling")
    /\ LET s == call[c].step IN
         /\ obs \in CapabilityOf[s].reconcile
         /\ s \in External => IF obs = "applied" THEN Done(s) # {}
                                               ELSE Done(s) \cup InFlight(s) = {}
         /\ IF obs = "applied" THEN kinds \in Provided[s] ELSE kinds = Rejection
    /\ call' = [call EXCEPT ![c].pc = "observed", ![c].obs = obs, ![c].kinds = kinds]
    /\ UNCHANGED <<vars, up, effects, crashes>>

\* The row a reconciliation of the step was stored under, if there is one.
Prior(s) == {r \in reconciliations : r.key = s}

\* The await resumes: reconcileOperation stores the observation.  "applied"
\* goes on to the gate; after "not_applied" a retry is a separate call.
Reconciled(c) ==
    /\ Runs(c, "observed")
    /\ ReconcileOperation(call[c].step, call[c].step, call[c].obs, call[c].kinds)
    /\ IF call[c].obs = "applied" THEN Goto(c, "gate") ELSE Return(c)
    /\ UNCHANGED <<up, effects, crashes>>

\* ... or finds the same observation, evidence included, already stored ...
ReconcileReplayed(c) ==
    /\ Runs(c, "observed")
    /\ call[c].obs = "applied"
    /\ \E r \in Prior(call[c].step) : r.outcome = "applied" /\ r.kinds = call[c].kinds
    /\ Goto(c, "gate")
    /\ UNCHANGED <<vars, up, effects, crashes>>

\* ... or throws: the key holds another observation (evidence carries the time
\* it was observed at), or the operation is no longer ambiguous.
ReconcileRefused(c) ==
    /\ Runs(c, "observed")
    /\ Prior(call[c].step) # {} \/ ~ LatestIs(call[c].step, "outcome_unknown")
    /\ Return(c)
    /\ UNCHANGED <<vars, up, effects, crashes>>

\* run.gates.find(...) of resolveMeasuredGate: the pending gate s measures.
MeasuredGate(s) == {g \in Gates : g = HealthGate[s] /\ gateStatus[g] = "pending"}

\* resolveMeasuredGate, right after the step is concluded: no pending gate of
\* this step, too little evidence (blocked_gate), or the gate is passed.
NoGateToResolve(c) ==
    /\ Runs(c, "gate")
    /\ MeasuredGate(call[c].step) = {}
    /\ NextPass(c)
    /\ UNCHANGED <<vars, up, effects, crashes>>

GateBlocked(c) ==
    /\ Runs(c, "gate")
    /\ \E g \in MeasuredGate(call[c].step) : ~ (RequiredKinds[g] \subseteq call[c].kinds)
    /\ Return(c)
    /\ UNCHANGED <<vars, up, effects, crashes>>

PassGate(c) ==
    /\ Runs(c, "gate")
    /\ \E g \in MeasuredGate(call[c].step) : ResolveHealthGate(g, g, "passed", call[c].kinds)
    /\ NextPass(c)
    /\ UNCHANGED <<up, effects, crashes>>

\* The process dies, at any point; what it dispatched stays in flight.
Crash ==
    /\ up /\ crashes < MaxCrashes
    /\ up' = FALSE
    /\ crashes' = crashes + 1
    /\ call' = [c \in Callers |-> NoCall]
    /\ UNCHANGED <<vars, effects>>

\* Mutant: the service starts without recovery.
RestartUnrecovered ==
    /\ ~ up
    /\ up' = TRUE
    /\ UNCHANGED <<vars, call, effects, crashes>>

\* startOracleReleaseReadApiService: recovery before anything is served.
Restart ==
    /\ ~ up
    /\ up' = TRUE
    /\ IF Interrupted # {} THEN RecoverInterruptedOperations ELSE UNCHANGED vars
    /\ UNCHANGED <<call, effects, crashes>>

\* The world: a dispatched effect takes place, or is lost for good.
Settle(s, i, fate) ==
    /\ i \in InFlight(s)
    /\ effects' = [effects EXCEPT ![s][i] = fate]
    /\ UNCHANGED <<vars, up, call, crashes>>

\* One step of a call in progress.
Proceed(c) ==
    \/ Stop(c) \/ StartReconcile(c) \/ StartAuthorize(c)
    \/ Denied(c) \/ Begin(c) \/ AlreadyCompleted(c) \/ BeginRefused(c)
    \/ Dispatch(c) \/ ExecuteUnknown(c) \/ ExecuteFailed(c)
    \/ \E kinds \in ProvidedKinds : ExecuteSucceeded(c, kinds)
    \/ ReconcileUnknown(c) \/ Reconciled(c) \/ ReconcileReplayed(c) \/ ReconcileRefused(c)
    \/ \E obs \in {"applied", "not_applied"}, kinds \in ProvidedKinds : Observe(c, obs, kinds)
    \/ NoGateToResolve(c) \/ GateBlocked(c) \/ PassGate(c)

WorldStep == \E s \in External, fate \in {"done", "lost"} :
                 \E i \in 1..Len(effects[s]) : Settle(s, i, fate)

ExecNext ==
    \/ Create
    \/ \E c \in Callers : Advance(c) \/ Proceed(c)
    \/ Crash
    \/ Restart
    \/ WorldStep

ExecSpec == ExecInit /\ [][ExecNext]_allVars

\* Fairness.  The process is restarted, every await ends and is resumed by the
\* event loop, whatever else the thread does meanwhile (hence strong), and
\* somebody keeps calling advance() (poll() does, and its callers).  What is asked for over and
\* over is granted in the end, and an effect is found to have taken place, or
\* not to have, in the end: assumptions about the policy and the hosts behind the capabilities.
Fairness ==
    /\ WF_allVars(Create)
    /\ WF_allVars(Restart)
    /\ WF_allVars(WorldStep)
    /\ \A c \in Callers :
          /\ SF_allVars(Advance(c) \/ Proceed(c))
          /\ SF_allVars(Begin(c))
          /\ \A o \in {"applied", "not_applied"} :
                SF_allVars(\E kinds \in ProvidedKinds : Observe(c, o, kinds))

FairSpec == ExecSpec /\ Fairness
------------------------------------------------------------------------------
\* "A persisted intent is reconciled, NEVER dispatched again, including after a
\* process crash": however calls interleave and whenever the process dies, an
\* external effect takes place at most once per step, retries after a proof of
\* non-application included; no answer about an earlier attempt is ever taken
\* for one about the attempt that is out now.
EffectsHappenOnce == \A s \in External : Cardinality(Done(s)) + Cardinality(InFlight(s)) <= 1

\* A step of an external capability is recorded as succeeded only if its effect
\* took place, whichever call recorded it and however late.
SucceededEffectsHappened ==
    \A s \in External : stepStatus[s] = "succeeded" => Done(s) # {}

\* advance() works on one operation of a run at a time, even when several calls
\* of it are in progress and the blueprint lets two steps run in parallel.
OneOperationAtATime == Cardinality(PendingOperations) <= 1

Ended == runStatus \in {"succeeded", "failed"}

\* A measurement is concluded and nobody will pass its gate.
GateStranded ==
    \E s \in Steps : /\ stepStatus[s] = "succeeded" /\ MeasuredGate(s) # {}
                    /\ \A c \in Callers : ~ (call[c].pc = "gate" /\ call[c].step = s)

\* A step became ambiguous again after a stored reconciliation of it.
KeySpent == \E s \in Steps : stepStatus[s] = "outcome_unknown" /\ Prior(s) # {}

\* An ambiguous effect that never took place, and cannot be proven not to.
EffectLost ==
    \E s \in External : /\ stepStatus[s] = "outcome_unknown"
                       /\ Done(s) \cup InFlight(s) = {}
                       /\ "not_applied" \notin CapabilityOf[s].reconcile

\* advance(), called again and again, ends the run, or the run is stuck in one
\* of three ways only: a gate stranded between its two transactions (or left
\* without enough evidence), a reconciliation key already spent, an effect lost.
EndsOrStuck == <>(Ended \/ GateStranded \/ KeySpent \/ EffectLost)

\* "Persist the operation and reconcile the same SHA until checks become
\* terminal" (release-source-control-read-capabilities.ts): an observation made
\* of an operation that is still ambiguous is one the ledger will store.
ReconciledUntilTerminal ==
    \A c \in Callers :
        call[c].pc = "observed" /\ LatestIs(call[c].step, "outcome_unknown")
            => CanReconcile(call[c].step, call[c].step, call[c].obs, call[c].kinds)
=============================================================================

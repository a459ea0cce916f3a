------------------------------ MODULE Campaign ------------------------------
(***************************************************************************)
(* A delegated campaign (workspace-agent/src/campaign): the persisted      *)
(* tasks (DelegatedCampaignLedger), the pass of a coordinator over them    *)
(* under the run lock (DelegatedCampaignCoordinator), the supervisor that  *)
(* calls it again (DelegatedCampaignSupervisor), and a commit with its     *)
(* native receipt (bindGitCommit, executeSourceControlMutation,            *)
(* FileMutationReceiptStore).                                              *)
(*                                                                         *)
(* A transaction of the ledger is one step, taken under a lease of its     *)
(* own; it may be refused (that lease is held, the disk fails), or carried *)
(* out and still throw, its lease not being there to remove.  The git      *)
(* process lives on when the process that started it dies.                 *)
(***************************************************************************)
EXTENDS RunLease, Naturals

CONSTANTS
    TaskCount,
    DependsOn,      \* of each task
    Resource,       \* targetResource of each task
    Mutating,       \* the tasks bound to a commit; the others are bound to a read
    MaxSteps,       \* maxStepsPerWake
    MaxFailures,    \* locked passes in a row after which a supervisor gives up
    NoTask

Tasks == 1..TaskCount

ASSUME CampaignAssumption ==
    /\ TaskCount \in Nat /\ NoTask \notin Tasks
    /\ DependsOn \in [Tasks -> SUBSET Tasks] /\ Mutating \subseteq Tasks
    /\ MaxSteps \in Nat /\ MaxFailures \in Nat

VARIABLES
    state,      \* of each task in the ledger
    receipt,    \* of each task's operation in the receipt store
    git,        \* the git process of each task
    calls,      \* how often it was started
    co,         \* the pass of each runner's coordinator
    sup         \* its supervisor: whether it will wake again, and the failures in a row

campaignVars == <<state, receipt, git, calls, co, sup>>
vars == <<leaseVars, campaignVars>>

Final == {"completed", "failed", "blocked"}
Unresolved == {"in_flight", "outcome_unknown"}
Terminal == {"succeeded", "failed", "not_started"}
Errors == {"locked", "error"}
Stops == {"all_completed", "no_runnable_step", "awaiting_reconciliation", "step_budget"} \cup Errors

\* Where a coordinator may still dispatch its task, and where it is busy with it.
BeforeDispatch == {"execute", "reserve", "mark", "backend"}
Working == BeforeDispatch \cup {"waiting", "complete", "flag", "observe", "verify", "apply", "uncertain"}

Passes ==
    [pc : {"none", "loop", "claim", "stop"} \cup Working,
     task : Tasks \cup {NoTask},
     found : {"none", "claimed"} \cup Unresolved,               \* the state the task was found in
     obs : {"none", "in_progress", "outcome_unknown"} \cup Terminal,
     visited : SUBSET Tasks,
     steps : Nat,
     stop : {"none"} \cup Stops]

NoPass == [pc |-> "none", task |-> NoTask, found |-> "none", obs |-> "none",
           visited |-> {}, steps |-> 0, stop |-> "none"]

\* Of the status of a campaign only whether its supervisor will wake it matters.
Supervisors == [eligible : BOOLEAN, failures : Nat]

CampaignTypeOK ==
    /\ LeaseTypeOK
    /\ state \in [Tasks -> {"pending"} \cup Unresolved \cup Final]
    /\ receipt \in [Tasks -> {"none", "reserved", "executing", "completed", "reconciliation_required"}]
    /\ git \in [Tasks -> {"none", "running", "committed", "refused"}]
    /\ calls \in [Tasks -> Nat]
    /\ co \in [Runners -> Passes]
    /\ sup \in [Runners -> Supervisors]

NewSupervisor == [eligible |-> TRUE, failures |-> 0]
GivenUp == [eligible |-> FALSE, failures |-> 0]

CampaignInit ==
    /\ LeaseInit
    /\ state = [t \in Tasks |-> "pending"]
    /\ receipt = [t \in Tasks |-> "none"]
    /\ git = [t \in Tasks |-> "none"]
    /\ calls = [t \in Tasks |-> 0]
    /\ co = [r \in Runners |-> NoPass]
    /\ sup = [r \in Runners |-> NewSupervisor]

\* The coordinator of r is at pc, inside the run lock.
At(r, pc) == Alive(r) /\ at[r] = "task" /\ co[r].pc = pc

Goto(r, pc) == co' = [co EXCEPT ![r].pc = pc]
Stop(r, why) == co' = [co EXCEPT ![r] = [NoPass EXCEPT !.pc = "stop", !.stop = why]]

\* The next round of the loop.
Again(r) ==
    co' = [co EXCEPT ![r] =
              [NoPass EXCEPT !.pc = "loop", !.visited = co[r].visited, !.steps = co[r].steps]]

IsFirst(t, S) == t \in S /\ \A u \in S : t <= u
-----------------------------------------------------------------------------
(* The loop of run: requireCampaign, then what the record calls for.       *)

\* Mutant: only what is known to be uncertain is looked into.
NotVisitedUnknown(r) == {t \in Tasks : state[t] = "outcome_unknown" /\ t \notin co[r].visited}

NotVisited(r) == {t \in Tasks : state[t] \in Unresolved /\ t \notin co[r].visited}

\* The end of the loop looks at the record again.
SpendsBudget(r) ==
    /\ At(r, "loop") /\ co[r].steps = MaxSteps
    /\ Stop(r, IF \A t \in Tasks : state[t] = "completed" THEN "all_completed" ELSE "step_budget")
    /\ UNCHANGED <<leaseVars, state, receipt, git, calls, sup>>

Loop(r) ==
    /\ At(r, "loop") /\ co[r].steps < MaxSteps
    /\ IF \A t \in Tasks : state[t] = "completed" THEN Stop(r, "all_completed")
       ELSE IF NotVisited(r) # {}
       THEN \E t \in Tasks :
               /\ IsFirst(t, NotVisited(r))
               /\ co' = [co EXCEPT ![r].pc = "observe", ![r].task = t, ![r].found = state[t],
                                   ![r].visited = @ \cup {t}, ![r].steps = @ + 1]
       ELSE IF \E t \in Tasks : state[t] = "in_flight" THEN Stop(r, "awaiting_reconciliation")
       ELSE co' = [co EXCEPT ![r].pc = "claim", ![r].steps = @ + 1]
    /\ UNCHANGED <<leaseVars, state, receipt, git, calls, sup>>

\* Mutant: an uncertain operation does not keep its resource.
ClaimableAnywhere ==
    {t \in Tasks : state[t] = "pending" /\ \A d \in DependsOn[t] : state[d] = "completed"}

Claimable ==
    {t \in Tasks :
        /\ state[t] = "pending"
        /\ \A d \in DependsOn[t] : state[d] = "completed"
        /\ \A u \in Tasks \ {t} : Resource[u] = Resource[t] =>
                                    state[u] \notin {"outcome_unknown", "blocked"}}

\* claimNext.  A claim that throws after it was written leaves its task in flight.
ClaimNext(r) ==
    /\ At(r, "claim")
    /\ IF (\E t \in Tasks : state[t] = "in_flight") \/ Claimable = {}
       THEN /\ Stop(r, IF \E t \in Tasks : state[t] = "outcome_unknown"
                       THEN "awaiting_reconciliation" ELSE "no_runnable_step")
            /\ UNCHANGED state
       ELSE \E t \in Tasks :
               /\ IsFirst(t, Claimable)
               /\ state' = [state EXCEPT ![t] = "in_flight"]
               /\ \/ co' = [co EXCEPT ![r].pc = "execute", ![r].task = t, ![r].found = "claimed",
                                      ![r].visited = @ \cup {t}]
                  \/ \E e \in Errors : Stop(r, e)
    /\ UNCHANGED <<leaseVars, receipt, git, calls, sup>>

ClaimRefused(r) ==
    /\ At(r, "claim")
    /\ \E e \in Errors : Stop(r, e)
    /\ UNCHANGED <<leaseVars, state, receipt, git, calls, sup>>
-----------------------------------------------------------------------------
(* execute of a commit: gitCommit under the operation's idempotency key.   *)

\* The receipt is looked up, then the branch; a read has only its observation to make.
Execute(r) ==
    /\ At(r, "execute")
    /\ \/ Goto(r, IF co[r].task \notin Mutating \/ receipt[co[r].task] # "none"
                  THEN "observe" ELSE "reserve")
       \/ Goto(r, "uncertain")
    /\ UNCHANGED <<leaseVars, state, receipt, git, calls, sup>>

\* store.get and store.reserve.
Reserve(r) ==
    /\ At(r, "reserve")
    /\ \/ /\ receipt[co[r].task] = "none"
          /\ receipt' = [receipt EXCEPT ![co[r].task] = "reserved"]
          /\ Goto(r, "mark")
       \/ /\ Goto(r, IF receipt[co[r].task] = "completed" THEN "observe" ELSE "uncertain")
          /\ UNCHANGED receipt
    /\ UNCHANGED <<leaseVars, state, git, calls, sup>>

MarkExecuting(r) ==
    /\ At(r, "mark")
    /\ \/ /\ receipt[co[r].task] = "reserved"
          /\ receipt' = [receipt EXCEPT ![co[r].task] = "executing"]
          /\ Goto(r, "backend")
       \/ Goto(r, "uncertain") /\ UNCHANGED receipt
    /\ UNCHANGED <<leaseVars, state, git, calls, sup>>

Backend(r) ==
    /\ At(r, "backend")
    /\ git' = [git EXCEPT ![co[r].task] = "running"]
    /\ calls' = [calls EXCEPT ![co[r].task] = @ + 1]
    /\ Goto(r, "waiting")
    /\ UNCHANGED <<leaseVars, state, receipt, sup>>

\* An answer, or an exception whatever git does.
BackendAnswers(r) ==
    /\ At(r, "waiting")
    /\ \/ git[co[r].task] = "committed" /\ Goto(r, "complete")
       \/ Goto(r, "flag")
    /\ UNCHANGED <<leaseVars, state, receipt, git, calls, sup>>

MarkCompleted(r) ==
    /\ At(r, "complete")
    /\ \/ /\ receipt[co[r].task] \in {"executing", "reconciliation_required"}
          /\ receipt' = [receipt EXCEPT ![co[r].task] = "completed"]
          /\ Goto(r, "observe")
       \/ Goto(r, "flag") /\ UNCHANGED receipt
    /\ UNCHANGED <<leaseVars, state, git, calls, sup>>

\* A failure to mark is swallowed.
MarkReconciliationRequired(r) ==
    /\ At(r, "flag") /\ Goto(r, "uncertain")
    /\ \/ /\ receipt[co[r].task] = "executing"
          /\ receipt' = [receipt EXCEPT ![co[r].task] = "reconciliation_required"]
       \/ UNCHANGED receipt
    /\ UNCHANGED <<leaseVars, state, git, calls, sup>>

GitEnds(t) ==
    /\ git[t] = "running"
    /\ \E end \in {"committed", "refused"} : git' = [git EXCEPT ![t] = end]
    /\ UNCHANGED <<leaseVars, state, receipt, calls, co, sup>>
-----------------------------------------------------------------------------
(* Observation, verification and the transition they lead to: after        *)
(* execute, and in reconcileExisting, where found is the state of the      *)
(* record.                                                                 *)

\* Mutant: a receipt proves the commit before it is completed.
ReservedProves(t) ==
    IF t \notin Mutating THEN Terminal \cup {"in_progress"}
    ELSE IF receipt[t] # "none" THEN {"succeeded"} ELSE {"outcome_unknown"}

\* readReceipt for a commit; whatever the world is like for another capability.
Observations(t) ==
    IF t \notin Mutating THEN Terminal \cup {"in_progress"}
    ELSE IF receipt[t] = "completed" THEN {"succeeded"} ELSE {"outcome_unknown"}

Observe(r) ==
    /\ At(r, "observe")
    /\ \/ \E obs \in Observations(co[r].task) :
             co' = [co EXCEPT ![r].obs = obs, ![r].pc = IF obs \in Terminal THEN "verify" ELSE "apply"]
       \/ Goto(r, "uncertain")
    /\ UNCHANGED <<leaseVars, state, receipt, git, calls, sup>>

\* verifyTerminal: a second observation that agrees.
Verify(r) ==
    /\ At(r, "verify")
    /\ \/ co[r].obs \in Observations(co[r].task) /\ Goto(r, "apply")
       \/ Goto(r, "uncertain")
    /\ UNCHANGED <<leaseVars, state, receipt, git, calls, sup>>

\* The conditions of transition.
CanTransition(t, next) ==
    /\ state[t] \in Unresolved
    /\ state[t] = "outcome_unknown" => next # "outcome_unknown"

Target(r) ==
    CASE co[r].obs = "succeeded" -> "completed"
      [] co[r].obs = "failed" -> "failed"
      [] co[r].obs = "not_started" -> "blocked"
      [] co[r].obs = "outcome_unknown" /\ co[r].found # "outcome_unknown" -> "outcome_unknown"
      [] OTHER -> "none"

\* applyObservation.
Apply(r) ==
    /\ At(r, "apply")
    /\ LET t == co[r].task
           next == Target(r)
       IN  \/ next = "none" /\ Again(r) /\ UNCHANGED state
           \/ /\ next # "none" /\ CanTransition(t, next)
              /\ state' = [state EXCEPT ![t] = next]
              /\ Again(r) \/ Goto(r, "uncertain")
           \/ next # "none" /\ Goto(r, "uncertain") /\ UNCHANGED state
    /\ UNCHANGED <<leaseVars, receipt, git, calls, sup>>

\* The catch blocks: an operation that was claimed here, or found in flight, becomes
\* uncertain.  An exception here ends the pass.
Uncertain(r) ==
    /\ At(r, "uncertain")
    /\ LET t == co[r].task
       IN  IF co[r].found = "outcome_unknown" THEN Again(r) /\ UNCHANGED state
           ELSE \/ /\ CanTransition(t, "outcome_unknown")
                   /\ state' = [state EXCEPT ![t] = "outcome_unknown"]
                   /\ Again(r) \/ \E e \in Errors : Stop(r, e)
                \/ (\E e \in Errors : Stop(r, e)) /\ UNCHANGED state
    /\ UNCHANGED <<leaseVars, receipt, git, calls, sup>>
-----------------------------------------------------------------------------
(* The supervisor: a wake is a pass, run under the lock or refused it.     *)

\* ready or awaiting_reconciliation, and serve goes on.
Eligible(r) == sup[r].eligible

\* What wake makes of the end of a pass: a campaign that is completed or blocked, or asks for
\* attention, is not woken again.
Report(r, stop) ==
    LET failures == sup[r].failures + 1
    IN  CASE stop \in {"awaiting_reconciliation", "step_budget"} -> NewSupervisor
          [] stop = "locked" /\ failures < MaxFailures -> [eligible |-> TRUE, failures |-> failures]
          [] OTHER -> GivenUp

\* What the other variables do when r takes a step of the lease: the coordinator starts when
\* the lock is taken, and the supervisor hears of the end.
Reports(r, stop) == sup' = [sup EXCEPT ![r] = Report(r, stop)]

ReportsIfIdle(r, stop) == IF at'[r] = "idle" THEN Reports(r, stop) ELSE UNCHANGED sup

Wake(r) == Eligible(r) /\ PutNew(r) /\ UNCHANGED campaignVars

\* The directory or the lock file cannot be created, and no file is in the way.
WakeFails(r) ==
    /\ Eligible(r) /\ Alive(r) /\ at[r] = "idle"
    /\ Reports(r, "error")
    /\ UNCHANGED <<leaseVars, state, receipt, git, calls, co>>

\* serve returns: its wakes are spent, or it is told to stop.
Retire(r) ==
    /\ Eligible(r) /\ Alive(r) /\ at[r] = "idle"
    /\ sup' = [sup EXCEPT ![r] = GivenUp]
    /\ UNCHANGED <<leaseVars, state, receipt, git, calls, co>>

\* Only a lock that was refused can be had later.
Acquire(r) ==
    /\ \/ WriteLease(r) /\ UNCHANGED sup
       \/ DropGuard(r) /\ ReportsIfIdle(r, IF at[r] = "refused" THEN "locked" ELSE "error")
       \/ (WriteFails(r) \/ GuardStays(r)) /\ ReportsIfIdle(r, "error")
    /\ co' = IF at'[r] = "task" THEN [co EXCEPT ![r].pc = "loop"] ELSE co
    /\ UNCHANGED <<state, receipt, git, calls>>

Contend(r) ==
    /\ OpenGuard(r) \/ InspectLease(r) \/ ProbeOwner(r) \/ ClearLease(r) \/ ReplaceLease(r)
    /\ ReportsIfIdle(r, "locked")
    /\ UNCHANGED <<state, receipt, git, calls, co>>

Heartbeat(r) == (RenewReads(r) \/ RenewWrites(r)) /\ UNCHANGED campaignVars

\* A lost lease, and a renewal that failed, are noticed when the task has returned.
Finish(r) ==
    /\ At(r, "stop") /\ EndTask(r)
    /\ co' = [co EXCEPT ![r] = [NoPass EXCEPT !.stop =
                CASE co[r].stop \notin Errors /\ beat[r] = "lost" -> "locked"
                  [] co[r].stop \notin Errors /\ beat[r] = "failed" -> "error"
                  [] OTHER -> co[r].stop]]
    /\ UNCHANGED <<state, receipt, git, calls, sup>>

Release(r) ==
    /\ \/ ReadBack(r) /\ ReportsIfIdle(r, "locked")
       \/ Unlink(r) /\ Reports(r, co[r].stop)
       \/ UnlinkFails(r) /\ Reports(r, "error")
    /\ co' = IF at'[r] = "idle" THEN [co EXCEPT ![r].stop = "none"] ELSE co
    /\ UNCHANGED <<state, receipt, git, calls>>

Crash(p) ==
    /\ Die(p)
    /\ co' = [r \in Runners |-> IF ProcessOf[r] = p THEN NoPass ELSE co[r]]
    /\ sup' = [r \in Runners |-> IF ProcessOf[r] = p THEN NewSupervisor ELSE sup[r]]
    /\ UNCHANGED <<state, receipt, git, calls>>

TimePasses == Expire /\ UNCHANGED campaignVars
-----------------------------------------------------------------------------
Pass(r) ==
    \/ SpendsBudget(r) \/ Loop(r) \/ ClaimNext(r) \/ ClaimRefused(r)
    \/ Execute(r) \/ Reserve(r) \/ MarkExecuting(r)
    \/ Backend(r) \/ BackendAnswers(r) \/ MarkCompleted(r) \/ MarkReconciliationRequired(r)
    \/ Observe(r) \/ Verify(r) \/ Apply(r) \/ Uncertain(r)

\* What a process does by itself once it is awake.
Proceed(r) == Pass(r) \/ Acquire(r) \/ Contend(r) \/ Finish(r) \/ Release(r)

CampaignNext ==
    \/ \E r \in Runners : Wake(r) \/ WakeFails(r) \/ Retire(r) \/ Proceed(r) \/ Heartbeat(r)
    \/ \E t \in Tasks : GitEnds(t)
    \/ \E p \in Processes : Crash(p)
    \/ TimePasses

CampaignSpec == CampaignInit /\ [][CampaignNext]_vars

\* Fairness: a process that lives goes on, its supervisor wakes while it is eligible (serve
\* waits for the next due campaign), and an outstanding heartbeat ends, for the end of a
\* pass waits for it.
Fairness ==
    \A r \in Runners : WF_vars(Wake(r) \/ Proceed(r)) /\ WF_vars(Heartbeat(r))

FairSpec == CampaignSpec /\ Fairness
-----------------------------------------------------------------------------
Promise == INSTANCE CampaignPromise
    WITH asked <- calls,
         happened <- {t \in Tasks : git[t] = "committed"},
         verdict <- [t \in Tasks |-> IF state[t] \in Final THEN state[t] ELSE "open"]

\* The campaign keeps its promise through crashes, lost locks and lost answers: "Never
\* dispatch a saved in-flight or outcome_unknown step again", dependencies first, and no
\* verdict that is not final or not true.
KeepsPromise == Promise!Spec

\* While git may still commit for one task, no other task is let at its resource: not even
\* when the process that started it died and another took over.
OneEffectPerResource ==
    \A t, u \in Tasks :
        t # u /\ Resource[t] = Resource[u] => ~(git[t] = "running" /\ git[u] = "running")

\* Nobody is left to look after the campaign: every process died or its supervisor asks for
\* attention or takes the campaign for ended.
Unattended == \A r \in Runners : ~Alive(r) \/ ~Eligible(r)

\* A commit in flight does not stay so: it is settled or declared uncertain, or nobody is
\* left to do it.
InFlightIsReconciled ==
    (\E t \in Mutating : state[t] = "in_flight")
        ~> (\A t \in Mutating : state[t] # "in_flight") \/ Unattended
=============================================================================

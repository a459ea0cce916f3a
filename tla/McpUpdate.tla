------------------------------ MODULE McpUpdate ------------------------------
(***************************************************************************)
(* One mcp_update: the execution node publishes MAIN to itself and then    *)
(* asks the user's Windows companion, through the Edge, to install its     *)
(* release (mcp-update-runner.ts, companion-update-runner.ts).  The agent  *)
(* starts, confirms and resumes the update one call at a time; GitHub, the *)
(* Edge and the two machines' releases move on their own; either process   *)
(* may die at any point; a message through the Edge may be lost.           *)
(*                                                                         *)
(* wf[k] lists the operations of workflow k and what became of them;       *)
(* answer is companionStatus, the companion's last answer.  The Edge       *)
(* serves the previous contract, that with MAIN's as its candidate, or     *)
(* MAIN's, the target; contractPromoted is the broker's.                   *)
(***************************************************************************)
EXTENDS ReleaseInstall

CONSTANTS AlreadyOut,   \* what may be out before the update: sets of "candidate", "edge", "release", "windows"
          MaxResumes,   \* bound: times the agent resumes a failed update
          MaxMessages   \* bound: messages in transit each way

VARIABLES wf, edge, contractPromoted, published, answer, toCompanion, toNode, resumes

world == <<wf, edge, contractPromoted, published>>
relay == <<answer, toCompanion, toNode>>
vars == <<installVars, world, relay, resumes>>

MCP_UPDATE_STEPS ==
    <<"precheck", "edge_stage", "edge_activate", "connector_tag", "connector_release",
      "oracle_prepare", "oracle_promote", "oracle_verify", "companion_release",
      "windows_prepare", "windows_promote">>

STEP_RUN == [edge_stage |-> "stage", edge_activate |-> "activate", connector_tag |-> "bootstrap",
             connector_release |-> "release", companion_release |-> "companion"]

WindowsSteps == {"windows_prepare", "windows_promote"}

NoAnswer == [state |-> "none", step |-> "none", ask |-> 0]

\* The Edge may serve MAIN's contract already, the companion's release may be published and
\* installed, and a candidate may be left on the node.
Init == \E out \in AlreadyOut :
    /\ disk = [m \in Machines |-> NoRecord]
    /\ drv = [m \in Machines |-> Idle]
    /\ tasks = [m \in Machines |-> <<>>]
    /\ active = [node |-> "old", windows |-> IF "windows" \in out THEN "new" ELSE "old"]
    /\ candidate = [node |-> IF "candidate" \in out THEN "new" ELSE "none", windows |-> "none"]
    /\ handover = [m \in Machines |-> "none"] /\ handovers = [m \in Machines |-> 0]
    /\ issued = 0 /\ pending = [m \in Machines |-> {}]
    /\ faults = 0 /\ resumes = 0
    /\ wf = [k \in Workflows |-> <<>>]
    /\ edge = IF "edge" \in out THEN "target" ELSE "previous"
    /\ contractPromoted = FALSE /\ published = ("release" \in out)
    /\ answer = NoAnswer /\ toCompanion = <<>> /\ toNode = <<>>

\* A message is queued or lost: no socket, or it closes before the message is read.
Sent(q, msg) == {q} \cup (IF Len(q) < MaxMessages THEN {Append(q, msg)} ELSE {})

-----------------------------------------------------------------------------
(* The agent's calls. *)

\* start(): nothing is open.
Start ==
    /\ disk["node"].state = "none"
    /\ Save("node", [NoRecord EXCEPT !.state = "running", !.step = "precheck"])
    /\ drv' = DriveIn(drv, "node")
    /\ UNCHANGED <<releases, confirmations, faults, world, relay, resumes>>

\* confirm() with the confirmation the update waits for.
Confirm ==
    LET rec == disk["node"]
    IN  /\ rec.state = "needs_confirmation"
        /\ Save("node", [rec EXCEPT !.state = "running", !.approved = rec.ask, !.ask = 0])
        /\ drv' = DriveIn(drv, "node")
        /\ UNCHANGED <<releases, confirmations, faults, world, relay, resumes>>

\* Mutant: resume() forgets the operation of its step whatever the error was.
ForgetsUncertain(rec) ==
    IF rec.step \notin DOMAIN STEP_RUN THEN {}
    ELSE IF rec.step = "edge_activate" THEN {"activate", "stage"} ELSE {STEP_RUN[rec.step]}

\* resume(): from the step that failed. A workflow that ended in failure is dispatched again,
\* a failed activation from a new stage; a Windows step raises the attempt.
Forgets(rec) ==
    IF rec.err # "workflow_failed" THEN {}
    ELSE IF rec.step = "edge_activate" THEN {"activate", "stage"} ELSE {STEP_RUN[rec.step]}

Resumed(rec) ==
    [rec EXCEPT !.state = "running", !.err = "none",
                !.run = [k \in Workflows |-> IF k \in Forgets(rec) THEN 0 ELSE @[k]],
                !.step = IF "stage" \in Forgets(rec) THEN "edge_stage" ELSE @,
                !.attempt = IF rec.step \in WindowsSteps THEN @ + 1 ELSE @]

Resume ==
    /\ disk["node"].state = "failed"
    /\ resumes < MaxResumes
    /\ resumes' = resumes + 1
    /\ answer' = NoAnswer
    /\ Save("node", Resumed(disk["node"]))
    /\ drv' = DriveIn(drv, "node")
    /\ UNCHANGED <<releases, confirmations, faults, world, toCompanion, toNode>>

-----------------------------------------------------------------------------
(* run() of the execution node. *)

\* run(): the record as it is on disk.
NodeReads ==
    /\ At("node", "read")
    /\ Loop("node", disk["node"])
    /\ UNCHANGED <<disk, releases, confirmations, faults, world, relay, resumes>>

\* advance(), once the step has returned: the next step, without the confirmation.
Advance ==
    LET rec == [Rec("node") EXCEPT !.approved = 0]
        index == CHOOSE i \in DOMAIN MCP_UPDATE_STEPS : MCP_UPDATE_STEPS[i] = rec.step
        done == index = Len(MCP_UPDATE_STEPS)
        advanced == IF done THEN [rec EXCEPT !.state = "succeeded"]
                    ELSE [rec EXCEPT !.step = MCP_UPDATE_STEPS[index + 1]]
    IN  /\ At("node", "returned")
        /\ Save("node", advanced)
        /\ Loop("node", advanced)
        /\ UNCHANGED <<releases, confirmations, faults, world, relay, resumes>>

\* The catch of run(): the record on disk, which may have what the step asked for, stops with
\* the confirmation or with the error.
NodeStops ==
    LET d == drv["node"]
        rec == [disk["node"] EXCEPT !.state = IF d.asks # 0 THEN "needs_confirmation" ELSE "failed",
                                    !.ask = d.asks, !.approved = 0,
                                    !.err = IF d.asks # 0 THEN "none" ELSE d.err]
    IN  /\ At("node", "stopped")
        /\ Save("node", rec)
        /\ Loop("node", rec)
        /\ UNCHANGED <<releases, confirmations, faults, world, relay, resumes>>

AtStep(step) == At("node", "step") /\ Rec("node").step = step

\* precheck: no candidate anywhere; the Edge serves MAIN's contract or the one before it.
Precheck ==
    /\ AtStep("precheck")
    /\ IF candidate["node"] = "none" /\ edge # "candidate"
       THEN Return("node", [Rec("node") EXCEPT !.skipped = edge = "target"])
       ELSE Throw("node", "other", 0)
    /\ UNCHANGED <<disk, releases, confirmations, faults, world, relay, resumes>>

\* The Edge steps are skipped when it serves MAIN's contract already.
EdgeSkipped(rec) == rec.skipped /\ rec.step \in {"edge_stage", "edge_activate"}

\* The companion's release was published before, by hand or by an earlier run.
CompanionOut(rec) == rec.step = "companion_release" /\ rec.run["companion"] = 0 /\ published

\* workflow(), up to its dispatch: the operation is saved first; a saved one is only followed.
BeginWorkflow ==
    LET rec == Rec("node")
        k == STEP_RUN[rec.step]
        op == Len(wf[k]) + 1
    IN  /\ At("node", "step") /\ rec.step \in DOMAIN STEP_RUN
        /\ ~ EdgeSkipped(rec) /\ ~ CompanionOut(rec)
        /\ IF rec.run[k] = 0
           THEN /\ Save("node", [rec EXCEPT !.run[k] = op])
                /\ wf' = [wf EXCEPT ![k] = Append(@, "unsent")]
                /\ Goto("node", "dispatch", rec, op)
           ELSE Goto("node", "follow", rec, rec.run[k]) /\ UNCHANGED <<disk, wf>>
        /\ UNCHANGED <<releases, confirmations, faults, edge, contractPromoted, published, relay, resumes>>

SkipWorkflow ==
    /\ At("node", "step")
    /\ EdgeSkipped(Rec("node")) \/ CompanionOut(Rec("node"))
    /\ Return("node", Rec("node"))
    /\ UNCHANGED <<disk, releases, confirmations, faults, world, relay, resumes>>

\* port.dispatch: it starts the workflow or not, and answers or not.
Dispatch ==
    LET k == STEP_RUN[Rec("node").step]
        op == drv["node"].op
    IN  /\ At("node", "dispatch")
        /\ wf' \in {wf, [wf EXCEPT ![k][op] = "running"]}
        /\ Goto("node", "follow", Rec("node"), op) \/ Throw("node", "other", 0)
        /\ UNCHANGED <<disk, releases, confirmations, faults, edge, contractPromoted, published, relay, resumes>>

\* workflow(), once the run is over. A companion workflow that failed is no matter when its
\* release is out.
FollowWorkflow ==
    LET rec == Rec("node")
        k == STEP_RUN[rec.step]
        op == drv["node"].op
    IN  /\ At("node", "follow") /\ wf[k][op] \in {"success", "failure"}
        /\ IF wf[k][op] = "success"
           THEN IF k = "activate" THEN Goto("node", "wait_edge", [rec EXCEPT !.run[k] = op], 0)
                                  ELSE Return("node", [rec EXCEPT !.run[k] = op])
           ELSE IF k = "companion" /\ published THEN Return("node", rec)
                                                ELSE Throw("node", "workflow_failed", 0)
        /\ UNCHANGED <<disk, releases, confirmations, faults, world, relay, resumes>>

\* edge_activate also waits for the Edge's candidate.
AwaitEdge ==
    /\ At("node", "wait_edge") /\ edge = "candidate"
    /\ Return("node", Rec("node"))
    /\ UNCHANGED <<disk, releases, confirmations, faults, world, relay, resumes>>

\* oracle_prepare and oracle_promote.
InstallHere ==
    /\ \/ AtStep("oracle_prepare") /\ PrepareOnce("node")
       \/ AtStep("oracle_promote") /\ PromoteOnce("node")
    /\ UNCHANGED <<releases, confirmations, faults, world, relay, resumes>>

\* oracle_verify: /health after the promote. The instance that answers is another one: the
\* broker commits once the Edge has selected the connector of the new release.
OracleVerify ==
    /\ AtStep("oracle_verify")
    /\ IF edge = "target" THEN Return("node", Rec("node")) ELSE Throw("node", "other", 0)
    /\ UNCHANGED <<disk, releases, confirmations, faults, world, relay, resumes>>

\* Mutant: the last step takes the companion's promote for done once it is under way.
DoneOnPromote(status, step) == status.state = "succeeded" \/ status.step = "promote"

\* windows(): one poll. It asks again, then looks at the companion's last answer. A
\* confirmation the user already gave is still in that answer until the companion answers.
Done(status, step) ==
    \/ status.state = "succeeded"
    \/ step = "windows_prepare" /\ status.step = "promote"

PollWindows ==
    LET rec == Rec("node")
        asksNow == answer.state = "needs_confirmation" /\ answer.ask # rec.approved
    IN  /\ At("node", "step") /\ rec.step \in WindowsSteps
        /\ toCompanion' \in Sent(toCompanion, [approved |-> rec.approved, attempt |-> rec.attempt])
        /\ IF answer.state = "failed" THEN Throw("node", "other", 0)
           ELSE IF Done(answer, rec.step) THEN Return("node", rec)
           ELSE IF asksNow THEN Throw("node", "other", answer.ask)
           ELSE UNCHANGED drv \/ Throw("node", "other", 0)
        /\ UNCHANGED <<disk, releases, confirmations, faults, world, answer, toNode, resumes>>

\* until() gives up on GitHub, the CI or the Edge, or a call of the step throws.
NodeGivesUp ==
    /\ \/ At("node", "step") /\ Rec("node").step \in {"precheck", "oracle_verify", "companion_release"}
       \/ drv["node"].pc \in {"follow", "wait_edge"}
    /\ Throw("node", "other", 0)
    /\ UNCHANGED <<disk, releases, confirmations, faults, world, relay, resumes>>

\* observeCompanionUpdate, from the Edge's relay.
ObserveCompanion ==
    /\ toNode # <<>>
    /\ answer' = Head(toNode) /\ toNode' = Tail(toNode)
    /\ UNCHANGED <<installVars, world, toCompanion, resumes>>

-----------------------------------------------------------------------------
(* The companion. *)

statusOf(rec) == [state |-> rec.state, step |-> rec.step, ask |-> rec.ask]

Report(rec) == toNode' \in Sent(toNode, statusOf(rec))

\* accept(): what a request makes of the record it names.
Accepted(rec, request) ==
    IF rec.state = "none" THEN [NoRecord EXCEPT !.state = "running", !.step = "prepare"]
    ELSE IF rec.state = "needs_confirmation" /\ request.approved = rec.ask
    THEN [rec EXCEPT !.state = "running", !.approved = rec.ask, !.ask = 0]
    ELSE IF rec.state = "failed" /\ request.attempt > rec.attempt
    THEN IF rec.step = "prepare"
         THEN [rec EXCEPT !.state = "running", !.attempt = request.attempt,
                          !.prep = FALSE, !.task = 0]
         ELSE [rec EXCEPT !.state = "running", !.attempt = request.attempt]
    ELSE rec

\* handle(): one request at a time; it starts, resumes or only reports.
Handle ==
    LET rec == Accepted(disk["windows"], Head(toCompanion))
    IN  /\ toCompanion # <<>>
        /\ toCompanion' = Tail(toCompanion)
        /\ Save("windows", rec)
        /\ drv' = IF rec.state = "running" THEN DriveIn(drv, "windows") ELSE drv
        /\ Report(rec)
        /\ UNCHANGED <<releases, confirmations, faults, world, answer, resumes>>

CompanionReads ==
    /\ At("windows", "read")
    /\ Loop("windows", disk["windows"])
    /\ UNCHANGED <<disk, releases, confirmations, faults, world, relay, resumes>>

\* The release is active before anything was asked: there is nothing to install.
AlreadyInstalled ==
    LET rec == Rec("windows")
        installed == [rec EXCEPT !.state = "succeeded", !.approved = 0]
    IN  /\ At("windows", "step") /\ rec.step = "prepare" /\ ~rec.known /\ ~rec.prep
        /\ active["windows"] = "new"
        /\ Save("windows", installed)
        /\ Loop("windows", installed)
        /\ Report(installed)
        /\ UNCHANGED <<releases, confirmations, faults, world, answer, toCompanion, resumes>>

\* A phase begins; the first one has read the active release.
Install ==
    LET rec == Rec("windows")
    IN  /\ At("windows", "step")
        /\ \/ /\ rec.step = "prepare" /\ rec.known
              /\ PrepareOnce("windows")
           \/ /\ rec.step = "prepare" /\ ~rec.known /\ active["windows"] = "old"
              /\ Goto("windows", "step", [rec EXCEPT !.known = TRUE], 0)
              /\ UNCHANGED disk
           \/ rec.step = "promote" /\ PromoteOnce("windows")
        /\ UNCHANGED <<releases, confirmations, faults, world, relay, resumes>>

\* A phase ends: the promote follows the prepare.
EndPhase ==
    LET rec == [Rec("windows") EXCEPT !.approved = 0]
        ended == IF rec.step = "prepare" THEN [rec EXCEPT !.step = "promote"]
                                         ELSE [rec EXCEPT !.state = "succeeded"]
    IN  /\ At("windows", "returned")
        /\ Save("windows", ended)
        /\ Loop("windows", ended)
        /\ Report(ended)
        /\ UNCHANGED <<releases, confirmations, faults, world, answer, toCompanion, resumes>>

CompanionStops ==
    LET d == drv["windows"]
        rec == [disk["windows"] EXCEPT
                   !.state = IF d.asks # 0 THEN "needs_confirmation" ELSE "failed",
                   !.ask = d.asks, !.approved = 0]
    IN  /\ At("windows", "stopped")
        /\ Save("windows", rec)
        /\ Loop("windows", rec)
        /\ Report(rec)
        /\ UNCHANGED <<releases, confirmations, faults, world, answer, toCompanion, resumes>>

\* The companion has no workspace, or the state of its releases cannot be read.
CompanionGivesUp ==
    /\ At("windows", "step")
    /\ Throw("windows", "other", 0)
    /\ UNCHANGED <<disk, releases, confirmations, faults, world, relay, resumes>>

-----------------------------------------------------------------------------
(* GitHub, the Edge and the machines. *)

\* A workflow ends; the companion's may publish its release and fail all the same.
WorkflowEnds(k) ==
    \E n \in DOMAIN wf[k] : \E end \in {"success", "failure"} :
        /\ wf[k][n] = "running"
        /\ wf' = [wf EXCEPT ![k][n] = end]
        /\ published' \in IF k # "companion" THEN {published}
                          ELSE IF end = "success" THEN {TRUE} ELSE {published, TRUE}
        /\ UNCHANGED <<installVars, edge, contractPromoted, relay, resumes>>

\* The Worker that an activation deploys has MAIN's contract as its candidate, also when the
\* workflow fails afterwards.
EdgePrepares ==
    /\ edge = "previous"
    /\ \E n \in DOMAIN wf["activate"] : wf["activate"][n] # "unsent"
    /\ edge' = "candidate"
    /\ UNCHANGED <<installVars, wf, contractPromoted, published, relay, resumes>>

\* The broker promotes the contract before it commits; when the promotion is not seen in time
\* it gives the handover up, and does not count as promoted what the Edge has done.
PromoteContract ==
    /\ handover["node"] = "started" /\ edge = "candidate"
    /\ edge' = "target"
    /\ \/ contractPromoted' = TRUE /\ UNCHANGED installVars
       \/ BrokerWithdraws /\ UNCHANGED contractPromoted
    /\ UNCHANGED <<wf, published, relay, resumes>>

\* The broker's rollback of the contract it promoted: the Edge goes back, or not in time.
RollbackContract ==
    /\ contractPromoted /\ handover["node"] \in {"withdrawn", "failed"}
    /\ edge' \in {"candidate", edge}
    /\ contractPromoted' = FALSE
    /\ UNCHANGED <<installVars, wf, published, relay, resumes>>

\* A process is replaced: companionStatus is gone. A message it held or had yet to read is one
\* that Sent has lost; the others still arrive.
Disconnected(m) ==
    /\ answer' = IF m = "node" THEN NoAnswer ELSE answer
    /\ UNCHANGED <<world, toCompanion, toNode, resumes>>

\* The node commits once the contract is promoted, if the Edge has a candidate, and starts the
\* old process again after the contract is rolled back.
HandoverStep(m) ==
    \/ CommitRelease(m) /\ (m = "node" => edge # "candidate")
    \/ PassHandover(m) \/ RestoreState(m)
    \/ m = "node" /\ BrokerWithdraws

HandoverRestart(m) ==
    \/ ReplaceProcess(m)
    \/ m = "windows" /\ SwitchWithdraws
    \/ RestartOld(m) /\ (m = "node" => ~ contractPromoted)

MachineStep(m) ==
    \/ PrepareRelease(m) \/ PrepareAnswered(m) \/ AwaitTask(m)
    \/ PromoteRelease(m) \/ AwaitSwitch(m) \/ GiveUp(m) \/ Leave(m)
    \/ TaskEnds(m) \/ HandoverStep(m)

Next ==
    \/ Start \/ Confirm \/ Resume
    \/ NodeReads \/ Advance \/ NodeStops \/ Precheck \/ BeginWorkflow \/ SkipWorkflow \/ Dispatch
    \/ FollowWorkflow \/ AwaitEdge \/ InstallHere \/ OracleVerify \/ PollWindows \/ NodeGivesUp
    \/ ObserveCompanion
    \/ Handle \/ CompanionReads \/ AlreadyInstalled \/ Install \/ EndPhase \/ CompanionStops
    \/ CompanionGivesUp
    \/ \E k \in Workflows : WorkflowEnds(k)
    \/ EdgePrepares \/ PromoteContract \/ RollbackContract
    \/ \E m \in Machines : \/ MachineStep(m) /\ UNCHANGED <<world, relay, resumes>>
                           \/ (Dies(m) \/ HandoverRestart(m)) /\ Disconnected(m)

Spec == Init /\ [][Next]_vars
-----------------------------------------------------------------------------
\* "A dispatch is never repeated (an uncertain one is only reconciled)": whatever dies, gives
\* up or is resumed, a workflow is dispatched again only once its last run ended in failure.
\* The stage alone is made again for a failed activation.
DispatchedOnce ==
    \A k \in Workflows :
        LET standing == {n \in DOMAIN wf[k] :
                            wf[k][n] \in {"running"} \cup (IF k = "stage" THEN {} ELSE {"success"})}
        IN  \A i, j \in standing : i = j

\* "Prepare and promote are each requested once": on either machine at most one handover is
\* ever started for the update, and one prepare, but for a resume that retries a failed one on
\* Windows; through faults between the save and the call, and through confirmations.
InstalledOnce ==
    /\ \A m \in Machines : handovers[m] <= 1
    /\ Len(tasks["node"]) <= 1
    /\ Len(tasks["windows"]) <= 1 + disk["node"].attempt

\* An update that succeeded is installed everywhere, and what is installed was released: the
\* node knows of Windows only what late and lost answers tell. The one way back is that of the
\* handovers: a machine is off the new release, and the Edge off MAIN's contract, only once the
\* machine's own handover has failed after its commit, which the update takes for the end.
SucceededIsInstalled ==
    disk["node"].state = "succeeded" =>
        LET undone == {m \in Machines : handover[m] \in {"failed", "rolled_back"}}
        IN  /\ published /\ (edge = "target" \/ "node" \in undone)
            /\ \A m \in Machines \ undone : active[m] = "new"
            /\ \A k \in {"bootstrap", "release"} : \E n \in DOMAIN wf[k] : wf[k][n] = "success"
=============================================================================

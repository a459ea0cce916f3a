--------------------------- MODULE McpUpdateProofs ---------------------------
(***************************************************************************)
(* Proofs, for every number of crashes, failed handovers, resumes and      *)
(* messages in transit, and whichever machine asks for confirmations, that *)
(* an mcp_update dispatches and installs everything once, and that one     *)
(* that succeeded is installed, but where a handover was undone.           *)
(***************************************************************************)
EXTENDS McpInstallProofs

\* The attempts the companion has heard of are attempts of the node.
AttemptInv ==
    /\ disk["windows"].attempt <= disk["node"].attempt
    /\ \A i \in 1..Len(toCompanion) : toCompanion[i].attempt <= disk["node"].attempt

\* The runs that may be replaced by another one.
Over(k) == IF k = "stage" THEN {"failure", "success"} ELSE {"failure"}

\* The run on record is the last one, and the earlier ones are over.
RunInv(k) ==
    /\ disk["node"].run[k] \in {0, Len(wf[k])}
    /\ \A i \in 1..Len(wf[k]) : i # disk["node"].run[k] => wf[k][i] \in Over(k)
-----------------------------------------------------------------------------
(* What the steps have brought about.                                      *)

\* The node's update is past the step s, or s has just returned.
Passed(s, later) ==
    disk["node"].step \in later \/ (disk["node"].step = s /\ drv["node"].pc = "returned")

\* The release is active, or a handover that had made it so was undone; and the Edge serves
\* MAIN's contract, or that of the node was.
Undone == {"failed", "rolled_back"}
Switched(m) == active[m] = "new" \/ handover[m] \in Undone
Served == edge = "target" \/ handover["node"] \in Undone

\* A handover is one that promote_release has asked for, and the node's release is not active
\* before its handover commits.
HandoverInv ==
    /\ \A m \in Machines : handovers[m] = 0 => handover[m] = "none"
    /\ active["node"] = "new" => handover["node"] \notin {"none", "started", "withdrawn"}

Released(k) == \E n \in 1..Len(wf[k]) : wf[k][n] = "success"

\* What the node's update rests on.
NodeProgress ==
    /\ Passed("connector_tag", FromPrepare("node") \cup {"connector_release"}) => Released("bootstrap")
    /\ Passed("connector_release", FromPrepare("node")) => Released("release")
    /\ Passed("oracle_promote", Promoted) => Switched("node")
    /\ Passed("oracle_verify", Promoted \ {"oracle_verify"}) => Served
    /\ Passed("companion_release", WindowsSteps) => published
    /\ Passed("windows_promote", {}) => Switched("windows")
    /\ disk["node"].state = "succeeded" => disk["node"].step = "windows_promote" /\ Switched("windows")

\* What the companion's update and every answer about it rest on.
CompanionProgress ==
    /\ drv["windows"].pc = "returned" /\ disk["windows"].step = "promote" => Switched("windows")
    /\ "succeeded" \in {disk["windows"].state, answer.state} => Switched("windows")
    /\ \A i \in 1..Len(toNode) : toNode[i].state = "succeeded" => Switched("windows")

ProgressInv == NodeProgress /\ CompanionProgress /\ (Released("companion") => published)

\* The inductive invariant.
UpdateInv ==
    /\ InstallTypes /\ WorldTypes /\ AttemptInv
    /\ \A m \in Machines : DriverInv(m) /\ InstallInv(m)
    /\ \A k \in Workflows : RunInv(k)
    /\ FollowInv /\ HandoverInv /\ ProgressInv
-----------------------------------------------------------------------------
(* The steps that save nothing of what the update has reached.             *)

\* The process goes on without a record, reads it, or goes on in its step.
Ordinary(m) ==
    \/ disk'[m] = disk[m] /\ drv'[m] = drv[m]
    \/ /\ disk'[m] = disk[m] /\ drv'[m].pc \in {"idle", "read", "stopped"} /\ drv'[m].rec = NoRecord
       /\ drv'[m].err \in {"none", "other"}
    \/ /\ disk'[m] = disk[m] /\ drv[m].pc = "read" /\ drv'[m].pc = "step" /\ drv'[m].rec = disk[m]
       /\ drv'[m].err = "none"
    \/ /\ drv[m].pc \notin {"dispatch", "follow", "returned"} /\ InStep(m) /\ drv'[m].err = "none"
       /\ drv'[m].pc \in Inside \ {"dispatch", "follow", "wait_edge"}
       /\ Notes(m, disk'[m], drv'[m].rec) /\ SameRuns(m, disk'[m], drv'[m].rec)
       /\ drv'[m].pc = "returned" => Earned(m, drv'[m].rec)

\* A step that throws is ordinary.
LEMMA OrdinaryThrow ==
    ASSUME InstallTypes, NEW m \in Machines, disk'[m] = disk[m], NEW a \in Nat, Throw(m, "other", a)
    PROVE  Ordinary(m) /\ \A u \in Machines \ {m} : drv'[u] = drv[u]
  <1>1. "other" \in Errors
    BY Zenon DEF Errors
  <1>2. /\ drv'[m].pc = "stopped" /\ drv'[m].rec = NoRecord /\ drv'[m].err = "other"
        /\ \A u \in Machines \ {m} : drv'[u] = drv[u]
    BY <1>1, ThrowFacts, Zenon
  <1> QED BY <1>2, Zenon DEF Ordinary

\* A plain step is ordinary.
LEMMA OrdinaryPlain ==
    ASSUME InstallTypes, NEW m \in Machines, InStep(m), Plain(m),
           drv[m].pc \notin {"dispatch", "follow", "returned"} \/ (Throw(m, "other", 0) /\ UNCHANGED disk)
    PROVE  Ordinary(m) /\ \A u \in Machines \ {m} : disk'[u] = disk[u] /\ drv'[u] = drv[u]
  <1>1. CASE Throw(m, "other", 0) /\ UNCHANGED disk
    BY <1>1, OrdinaryThrow, Zenon
  <1>2. CASE ~ (Throw(m, "other", 0) /\ UNCHANGED disk)
    <2>1. PICK d \in Record, r \in Record, pc \in Inside \ {"dispatch", "follow", "wait_edge"}, op \in Nat :
          /\ Writes(m, d) /\ Goto(m, pc, r, op) /\ Notes(m, d, r) /\ Fits(m, pc, d, r) /\ SameRuns(m, d, r)
          /\ pc = "returned" => Earned(m, r)
      BY <1>2, Zenon DEF Plain
    <2>2. /\ drv'[m].pc = pc /\ drv'[m].rec = r /\ drv'[m].err = "none"
          /\ \A u \in Machines \ {m} : drv'[u] = drv[u]
      BY <2>1, GotoFacts DEF Inside
    <2>3. disk'[m] = d /\ \A u \in Machines \ {m} : disk'[u] = disk[u]
      BY <2>1, Zenon DEF Writes
    <2> QED BY <1>2, <2>1, <2>2, <2>3, Zenon DEF Ordinary
  <1> QED BY <1>1, <1>2, Zenon

\* A machine's step is the other one's rest.
LEMMA OrdinaryOne ==
    ASSUME NEW m \in Machines, Ordinary(m), \A u \in Machines \ {m} : disk'[u] = disk[u] /\ drv'[u] = drv[u]
    PROVE  \A u \in Machines : Ordinary(u)
  BY Zenon DEF Ordinary

\* The node's steps in run() that are ordinary.
LEMMA OrdinarySteps ==
    ASSUME Base, InstallHere \/ Install \/ AwaitEdge \/ SkipWorkflow \/ OracleVerify \/ NodeGivesUp \/ CompanionGivesUp
                 \/ NodeReads \/ CompanionReads \/ PollWindows
    PROVE  \A m \in Machines : Ordinary(m)
  <1>1. InstallTypes /\ WorldTypes /\ "node" \in Machines /\ "windows" \in Machines /\ DriverInv("node") /\ DriverInv("windows")
    BY Zenon DEF Base, Machines
  <1>2. CASE InstallHere \/ Install
    BY <1>1, <1>2, InstallPlain, OrdinaryPlain, OrdinaryOne, Zenon
  <1>4. CASE AwaitEdge \/ SkipWorkflow \/ OracleVerify \/ NodeGivesUp
    <2>1. Plain("node") /\ InStep("node") /\ UNCHANGED disk
      BY <1>1, <1>4, QuietPlain, Zenon
    <2>2. drv["node"].pc \notin {"dispatch", "follow", "returned"} \/ (Throw("node", "other", 0) /\ UNCHANGED disk)
      BY <1>4, <2>1, Zenon DEF AwaitEdge, SkipWorkflow, OracleVerify, NodeGivesUp, AtStep, At
    <2> QED BY <1>1, <2>1, <2>2, OrdinaryPlain, OrdinaryOne, Zenon
  <1>5. CASE CompanionGivesUp
    <2>1. Throw("windows", "other", 0) /\ UNCHANGED disk /\ 0 \in Nat
      BY <1>5, Zenon DEF CompanionGivesUp
    <2> QED BY <1>1, <2>1, OrdinaryThrow, OrdinaryOne, Zenon
  <1>6. ASSUME NEW m \in Machines, At(m, "read"), Loop(m, disk[m]), UNCHANGED disk
        PROVE  \A u \in Machines : Ordinary(u)
    <2>1. disk[m] \in Record /\ disk[m].state = "running"
      BY <1>1, <1>6, MachineTypes, Zenon DEF Base, DriverInv, At
    <2>2. /\ drv'[m].pc = "step" /\ drv'[m].rec = disk[m] /\ drv'[m].err = "none"
          /\ \A u \in Machines \ {m} : drv'[u] = drv[u]
      BY <1>1, <1>6, <2>1, LoopFacts, Zenon
    <2>3. Ordinary(m)
      BY <1>6, <2>2, Zenon DEF Ordinary, At
    <2> QED BY <1>6, <2>2, <2>3, OrdinaryOne, Zenon
  <1>7. CASE NodeReads \/ CompanionReads
    BY <1>1, <1>6, <1>7, Zenon DEF NodeReads, CompanionReads
  <1>8. CASE PollWindows
    <2>1. InStep("node") /\ drv["node"].pc = "step" /\ UNCHANGED disk /\ drv["node"].rec.step \in WindowsSteps
      BY <1>8, Zenon DEF PollWindows, At, Rec, InStep, Inside, Places
    <2>2. PICK rec \in Record : rec = drv["node"].rec /\ Kept(rec, drv["node"].rec) /\ Same(rec, drv["node"].rec)
      BY <1>1, MachineTypes, Zenon DEF Kept, Same
    <2>3. answer.ask \in Nat /\ 0 \in Nat
      BY <1>1, Zenon DEF WorldTypes, Answers
    <2>4. ASSUME NEW a \in {0, answer.ask}, Throw("node", "other", a)
          PROVE  \A u \in Machines : Ordinary(u)
      BY <1>1, <2>1, <2>3, <2>4, OrdinaryThrow, OrdinaryOne, Zenon
    <2>5. CASE Done(answer, rec.step) /\ Return("node", rec)
      <3>1. Earned("node", rec)
        <4>1. disk["node"].step = rec.step /\ rec.step \in WindowsSteps
          BY <2>1, <2>2, NodeInStep, Zenon
        <4> QED BY <2>5, <4>1, Zenon DEF Earned, Done, WindowsSteps, PromoteStep
      <3>2. 0 \in Nat /\ "returned" \in Inside \ {"dispatch", "follow", "wait_edge", "prepare", "promote"}
        BY Zenon DEF Inside, Places
      <3>3. Plain("node")
        BY <1>1, <2>1, <2>2, <2>5, <3>1, <3>2, PlainReturn, Zenon DEF Return
      <3> QED BY <1>1, <2>1, <3>3, OrdinaryPlain, OrdinaryOne, Zenon
    <2>6. CASE UNCHANGED drv
      BY <2>1, <2>6, Zenon DEF Ordinary
    <2> QED BY <1>8, <2>2, <2>4, <2>5, <2>6, Zenon DEF PollWindows, Rec
  <1> QED BY <1>2, <1>4, <1>5, <1>7, <1>8, Zenon

\* The installers' steps.
LEMMA OrdinaryMachine ==
    ASSUME Base, NEW m \in Machines, MachineStep(m)
    PROVE  \A u \in Machines : Ordinary(u)
  <1>1. InstallTypes /\ DriverInv(m) /\ 0 \in Nat
    BY Zenon DEF Base
  <1>2. CASE PrepareAnswered(m) \/ AwaitTask(m) \/ AwaitSwitch(m) \/ GiveUp(m)
    <2>1. Plain(m) /\ InStep(m)
      BY <1>1, <1>2, WaitsPlain, Zenon
    <2>2. drv[m].pc \notin {"dispatch", "follow", "returned"}
      BY <1>2, Zenon DEF PrepareAnswered, AwaitTask, AwaitSwitch, GiveUp, At
    <2> QED BY <1>1, <2>1, <2>2, OrdinaryPlain, OrdinaryOne, Zenon
  <1>3. CASE Leave(m)
    <2>1. /\ drv'[m].pc = "idle" /\ drv'[m].rec = NoRecord /\ drv'[m].err = "none" /\ UNCHANGED disk
          /\ \A u \in Machines \ {m} : drv'[u] = drv[u]
      BY <1>1, <1>3, Zenon DEF Leave, Idle, Driver, InstallTypes
    <2>2. Ordinary(m)
      BY <2>1, Zenon DEF Ordinary
    <2> QED BY <2>1, <2>2, OrdinaryOne, Zenon
  <1>4. CASE TaskEnds(m) \/ HandoverStep(m)
    <2>1. UNCHANGED <<disk, drv>>
      BY <1>1, <1>4, HandoverEffect, Zenon DEF TaskEnds
    <2> QED BY <2>1, Zenon DEF Ordinary
  <1>5. CASE PrepareRelease(m) \/ PromoteRelease(m)
    <2>1. UNCHANGED disk /\ InStep(m) /\ drv[m].pc \in {"prepare", "promote"} /\ issued + 1 \in Nat
      BY <1>1, <1>5 DEF PrepareRelease, PromoteRelease, At, InStep, Inside, Places, InstallTypes
    <2>2. ASSUME NEW a \in {0, issued + 1}, Throw(m, "other", a)
          PROVE  \A u \in Machines : Ordinary(u)
      BY <1>1, <2>1, <2>2, OrdinaryThrow, OrdinaryOne, Zenon
    <2>3. PICK rec \in Record : rec = drv[m].rec /\ Kept(rec, drv[m].rec) /\ Same(rec, drv[m].rec)
      BY <1>1, MachineTypes, Zenon DEF Kept, Same
    <2>4. ASSUME NEW pc \in {"prepared", "wait_switch"}, NEW op \in Nat, Goto(m, pc, rec, op),
                 disk[m].step = IF pc = "prepared" THEN PrepareStep(m) ELSE PromoteStep(m)
          PROVE  \A u \in Machines : Ordinary(u)
      <3>1. pc \in Inside \ {"dispatch", "follow", "wait_edge", "prepare", "promote"} /\ pc # "returned"
        BY Zenon DEF Inside, Places
      <3>2. Plain(m)
        BY <1>1, <2>1, <2>3, <2>4, <3>1, PlainReturn, Zenon
      <3> QED BY <1>1, <2>1, <3>2, OrdinaryPlain, OrdinaryOne, Zenon
    <2>5. CASE PrepareRelease(m)
      <3>1. disk[m].step = PrepareStep(m) /\ Len(tasks[m]) + 1 \in Nat
        BY <1>1, <2>5 DEF PrepareRelease, At, DriverInv, InstallTypes
      <3>2. \/ \E a \in {0, issued + 1} : Throw(m, "other", a)
            \/ Goto(m, "prepared", rec, Len(tasks[m]) + 1)
        BY <2>3, <2>5, Zenon DEF PrepareRelease, AsksConfirmation, Rec
      <3> QED BY <2>2, <2>4, <3>1, <3>2, Zenon
    <2>6. CASE PromoteRelease(m)
      <3>1. disk[m].step = PromoteStep(m)
        BY <1>1, <2>6, Zenon DEF PromoteRelease, At, DriverInv
      <3>2. \/ \E a \in {0, issued + 1} : Throw(m, "other", a)
            \/ Goto(m, "wait_switch", rec, 0)
        BY <2>3, <2>6, Zenon DEF PromoteRelease, AsksConfirmation, Rec
      <3> QED BY <1>1, <2>2, <2>4, <3>1, <3>2, Zenon
    <2> QED BY <1>5, <2>5, <2>6, Zenon
  <1> QED BY <1>2, <1>3, <1>4, <1>5, Zenon DEF MachineStep

\* The Edge moves without the runners, the workflows and the relay.
LEMMA EdgeEffect ==
    ASSUME EdgeMoves
    PROVE  UNCHANGED <<disk, drv, wf, published, answer, toCompanion, toNode>>
  BY Zenon DEF EdgeMoves, EdgePrepares, PromoteContract, RollbackContract, BrokerWithdraws, installVars, relay

\* The process ends, and the world moves.
LEMMA OrdinaryWorld ==
    ASSUME Base, \/ ObserveCompanion \/ EdgeMoves \/ \E k \in Workflows : WorkflowEnds(k)
                 \/ \E m \in Machines : Dies(m) \/ HandoverRestart(m)
    PROVE  \A u \in Machines : Ordinary(u)
  <1>1. CASE ObserveCompanion \/ EdgeMoves \/ \E k \in Workflows : WorkflowEnds(k)
    <2>1. UNCHANGED <<disk, drv>>
      BY <1>1, EdgeEffect, Zenon DEF ObserveCompanion, WorkflowEnds, installVars
    <2> QED BY <2>1, Zenon DEF Ordinary
  <1>2. ASSUME NEW m \in Machines, Dies(m) \/ HandoverRestart(m)
        PROVE  \A u \in Machines : Ordinary(u)
    <2>1. /\ disk' = disk /\ drv'[m].rec = NoRecord /\ drv'[m].err = "none" /\ drv'[m].pc \in {"idle", "read"}
          /\ \A u \in Machines \ {m} : drv'[u] = drv[u]
      BY <1>2, RestartFacts, HandoverRestarts, Zenon DEF Base
    <2>2. Ordinary(m)
      BY <2>1, Zenon DEF Ordinary
    <2> QED BY <2>1, <2>2, OrdinaryOne, Zenon
  <1> QED BY <1>1, <1>2, Zenon
-----------------------------------------------------------------------------
(* A dispatch is not repeated.                                             *)

WorkflowInv == FollowInv /\ \A k \in Workflows : RunInv(k)

\* The run on record is one of the workflow's.
LEMMA RunTypes ==
    ASSUME Base, WorkflowInv, NEW k \in Workflows
    PROVE  /\ disk["node"].run[k] \in Nat /\ Len(wf[k]) \in Nat /\ wf[k] \in Seq(Runs)
           /\ disk["node"].run[k] # 0 => disk["node"].run[k] \in 1..Len(wf[k]) /\ disk["node"].run[k] = Len(wf[k])
  <1>1. disk["node"].run \in [Workflows -> Nat] /\ wf[k] \in Seq(Runs)
    BY MachineTypes, Zenon DEF Base, Machines, WorldTypes
  <1>2. disk["node"].run[k] \in {0, Len(wf[k])}
    BY Zenon DEF WorkflowInv, RunInv
  <1> QED BY <1>1, <1>2

\* The workflows of a node that is in no step that follows one.
LEMMA FollowOrdinary ==
    ASSUME Base, WorkflowInv, Ordinary("node"), UNCHANGED wf
    PROVE  WorkflowInv'
  <1> DEFINE d == disk["node"]
             v == drv["node"]
  <1>1. "node" \in Machines /\ InstallTypes /\ DriverInv("node")
    BY Zenon DEF Base, Machines
  <1>2. CASE disk'["node"] = d /\ drv'["node"] = v
    BY <1>2, Zenon DEF WorkflowInv, FollowInv, RunInv, Ended, InStep
  <1>3. CASE /\ disk'["node"] = d /\ drv'["node"].pc \in {"idle", "read", "stopped"} /\ drv'["node"].rec = NoRecord
             /\ drv'["node"].err \in {"none", "other"}
    BY <1>3, Zenon DEF WorkflowInv, FollowInv, RunInv, Ended, InStep, Inside
  <1>4. CASE /\ disk'["node"] = d /\ drv'["node"].pc = "step" /\ drv'["node"].rec = d /\ drv'["node"].err = "none"
    BY <1>4, Zenon DEF WorkflowInv, FollowInv, RunInv, Ended, InStep, Inside
  <1>5. CASE /\ v.pc \notin {"dispatch", "follow", "returned"} /\ InStep("node") /\ drv'["node"].err = "none"
             /\ drv'["node"].pc \in Inside \ {"dispatch", "follow", "wait_edge"}
             /\ Notes("node", disk'["node"], drv'["node"].rec) /\ SameRuns("node", disk'["node"], drv'["node"].rec)
             /\ drv'["node"].pc = "returned" => Earned("node", drv'["node"].rec)
    <2>1. d.run \in [Workflows -> Nat] /\ v.rec.run \in [Workflows -> Nat] /\ d.state = "running"
      BY <1>1, <1>5, MachineTypes, NodeInStep, Zenon
    <2>2. \A k \in Workflows : v.rec.run[k] = d.run[k]
      BY <1>5, Zenon DEF WorkflowInv, FollowInv
    <2>3. v.rec.run = d.run /\ v.rec.skipped = d.skipped
      BY <1>5, <2>1, <2>2 DEF WorkflowInv, FollowInv
    <2>4. /\ disk'["node"].run = d.run /\ disk'["node"].skipped = d.skipped
          /\ drv'["node"].rec.run = d.run /\ drv'["node"].rec.skipped = d.skipped
          /\ disk'["node"].step = d.step /\ disk'["node"].err = d.err /\ disk'["node"].state = d.state
      BY <1>5, <2>1, <2>3, Zenon DEF SameRuns, Notes
    <2>5. drv'["node"].pc = "returned" /\ d.step = "edge_stage" => drv'["node"].rec.skipped
      BY <1>5, Zenon DEF Earned
    <2>6. FollowInv'
      BY <1>5, <2>1, <2>4, <2>5, Zenon DEF WorkflowInv, FollowInv, Ended
    <2>7. \A k \in Workflows : RunInv(k)'
      BY <2>4, Zenon DEF WorkflowInv, RunInv
    <2> QED BY <2>6, <2>7, Zenon DEF WorkflowInv
  <1> QED BY <1>2, <1>3, <1>4, <1>5, Zenon DEF Ordinary

\* The driver of an update that a call makes run.
LEMMA CalledDriver ==
    ASSUME Base, disk["node"].state # "running", drv' = DriveIn(drv, "node")
    PROVE  ~ InStep("node")' /\ drv'["node"].pc \in {"read", "leaving"} /\ drv'["node"].err = "none"
  <1>1. "node" \in Machines /\ InstallTypes /\ DriverInv("node")
    BY Zenon DEF Base, Machines
  <1>2. drv["node"].pc \in {"idle", "leaving"} /\ drv["node"].err = "none"
    BY <1>1, Zenon DEF DriverInv
  <1>3. drv'["node"].pc \in {"read", "leaving"} /\ drv'["node"].err = "none"
    BY <1>1, <1>2, DriveFacts, Zenon
  <1> QED BY <1>3, Zenon DEF InStep, Inside

\* start, confirm and resume. resume() forgets only runs that are over.
LEMMA CallsFollow ==
    ASSUME Base, WorkflowInv, Start \/ Confirm \/ Resume
    PROVE  WorkflowInv'
  <1> DEFINE r == disk["node"]
             d == disk'["node"]
  <1>1. "node" \in Machines /\ InstallTypes /\ DriverInv("node") /\ r \in Record /\ r.state # "running"
    BY MachineTypes, Zenon DEF Base, Machines, Start, Confirm, Resume
  <1>2. ~ InStep("node")' /\ drv'["node"].pc \in {"read", "leaving"} /\ drv'["node"].err = "none" /\ UNCHANGED wf
    BY <1>1, CalledDriver, Zenon DEF Start, Confirm, Resume, world
  <1>3. CASE Start
    <2>1. r = NoRecord /\ d = [NoRecord EXCEPT !.state = "running", !.step = "precheck"]
      BY <1>1, <1>3, Zenon DEF Start, DriverInv, Save, InstallTypes
    <2>2. d.run = r.run /\ d.step = "precheck" /\ d.err = "none"
      BY <2>1, StartedFields, Zenon
    <2>3. \A k \in Workflows : RunInv(k)'
      BY <1>2, <2>2, Zenon DEF WorkflowInv, RunInv
    <2>4. FollowInv'
      BY <1>2, <2>2, Zenon DEF FollowInv
    <2> QED BY <2>3, <2>4, Zenon DEF WorkflowInv
  <1>4. CASE Confirm
    <2>1. d = [r EXCEPT !.state = "running", !.approved = r.ask, !.ask = 0] /\ r.state = "needs_confirmation"
      BY <1>1, <1>4, Zenon DEF Confirm, Save, InstallTypes
    <2>2. d.run = r.run /\ d.step = r.step /\ d.err = r.err /\ d.skipped = r.skipped
      BY <1>1, <2>1, ConfirmedFields, Zenon DEF Same
    <2>3. \A k \in Workflows : RunInv(k)'
      BY <1>2, <2>2, Zenon DEF WorkflowInv, RunInv
    <2>4. FollowInv'
      BY <1>2, <2>1, <2>2, Zenon DEF WorkflowInv, FollowInv, Ended
    <2> QED BY <2>3, <2>4, Zenon DEF WorkflowInv
  <1>5. CASE Resume
    <2>1. d = Resumed(r)
      BY <1>1, <1>5, Zenon DEF Resume, Save, InstallTypes
    <2>2. /\ d.run = [k \in Workflows |-> IF k \in Forgets(r) THEN 0 ELSE r.run[k]] /\ d.err = "none"
          /\ d.step = (IF "stage" \in Forgets(r) THEN "edge_stage" ELSE r.step) /\ d.skipped = r.skipped
      BY <1>1, <2>1, ResumedFields
    <2>3. ASSUME NEW k \in Workflows, k \in Forgets(r), r.run[k] # 0
          PROVE  wf[k][r.run[k]] \in Over(k)
      <3>1. r.err = "workflow_failed"
        BY <2>3, Zenon DEF Forgets
      <3>2. r.step \in RunSteps /\ Ended(STEP_RUN[r.step], {"failure"})
        BY <3>1, Zenon DEF WorkflowInv, FollowInv
      <3>3. CASE r.step = "edge_activate"
        <4>1. Ended("stage", {"success"}) /\ Ended("activate", {"failure"}) /\ k \in {"stage", "activate"}
          BY <2>3, <3>1, <3>2, <3>3, StepRuns, Zenon DEF WorkflowInv, FollowInv, Forgets
        <4> QED BY <4>1, Zenon DEF Ended, Over
      <3>4. CASE r.step # "edge_activate"
        <4>1. k = STEP_RUN[r.step]
          BY <2>3, <3>1, <3>4, Zenon DEF Forgets
        <4> QED BY <3>2, <4>1, Zenon DEF Ended, Over
      <3> QED BY <3>3, <3>4, Zenon
    <2>4. ASSUME NEW k \in Workflows
          PROVE  RunInv(k)'
      <3>1. RunInv(k)
        BY Zenon DEF WorkflowInv
      <3>2. CASE k \notin Forgets(r)
        BY <1>2, <2>2, <3>1, <3>2, Zenon DEF RunInv, Over
      <3>3. CASE k \in Forgets(r)
        <4>1. d.run[k] = 0
          BY <2>2, <3>3, Zenon
        <4>2. \A i \in 1..Len(wf[k]) : wf[k][i] \in Over(k)
          BY <2>3, <3>1, <3>3 DEF RunInv
        <4> QED BY <1>2, <4>1, <4>2, Zenon DEF RunInv, Over
      <3> QED BY <3>2, <3>3, Zenon
    <2>5. ASSUME d.step = "edge_activate", ~ d.skipped
          PROVE  Ended("stage", {"success"})'
      <3>1. "stage" \notin Forgets(r) /\ "stage" \in Workflows /\ r.step = "edge_activate" /\ ~ r.skipped
        BY <2>2, <2>5, Zenon DEF Workflows
      <3>2. Ended("stage", {"success"}) /\ d.run["stage"] = r.run["stage"]
        BY <2>2, <3>1, Zenon DEF WorkflowInv, FollowInv
      <3> QED BY <1>2, <3>2, Zenon DEF Ended
    <2>6. FollowInv'
      BY <1>2, <2>2, <2>5, Zenon DEF FollowInv
    <2> QED BY <2>4, <2>6, Zenon DEF WorkflowInv
  <1> QED BY <1>3, <1>4, <1>5, Zenon

\* run() stops.
LEMMA StopFollow ==
    ASSUME Base, WorkflowInv, NodeStops
    PROVE  WorkflowInv'
  <1> DEFINE r == disk["node"]
             v == drv["node"]
  <1>1. "node" \in Machines /\ InstallTypes /\ DriverInv("node") /\ UNCHANGED wf
    BY Zenon DEF Base, Machines, NodeStops, world
  <1>2. PICK q \in Record :
              /\ Writes("node", q) /\ Loop("node", q) /\ v.pc = "stopped"
              /\ q.state = (IF v.asks # 0 THEN "needs_confirmation" ELSE "failed")
              /\ q.step = r.step /\ Same(q, r)
              /\ q.err = IF v.asks # 0 THEN "none" ELSE v.err
    BY <1>1, StopsEffect, Zenon
  <1>3. disk'["node"] = q /\ q.run = r.run /\ q.skipped = r.skipped /\ q.step = r.step
    BY <1>2, Zenon DEF Writes, Same
  <1>4. drv'["node"].pc = "leaving" /\ drv'["node"].err = "none"
    BY <1>1, <1>2, LoopFacts, Zenon
  <1>5. \A k \in Workflows : RunInv(k)'
    BY <1>1, <1>3, Zenon DEF WorkflowInv, RunInv
  <1>6. q.err = "workflow_failed" => v.err = "workflow_failed" /\ q.state = "failed"
    BY <1>2, Zenon
  <1>7. FollowInv'
    BY <1>1, <1>3, <1>4, <1>6, Zenon DEF WorkflowInv, FollowInv, Ended, InStep, Inside
  <1> QED BY <1>5, <1>7, Zenon DEF WorkflowInv

\* advance(). A run that failed and did not matter is forgotten.
LEMMA AdvanceFollow ==
    ASSUME Base, WorkflowInv, Advance
    PROVE  WorkflowInv'
  <1> DEFINE d == disk["node"]
             r == drv["node"].rec
  <1>1. "node" \in Machines /\ InstallTypes /\ DriverInv("node") /\ UNCHANGED wf
    BY Zenon DEF Base, Machines, Advance, world
  <1>2. PICK q \in Record :
            /\ Writes("node", q) /\ Loop("node", q) /\ drv["node"].pc = "returned" /\ InStep("node")
            /\ r.step \in NodeSteps
            /\ q.step = IF r.step = "windows_promote" THEN r.step ELSE NextOf[r.step]
            /\ q.err = r.err /\ Same(q, r)
    BY <1>1, AdvanceEffect, Zenon
  <1>3. /\ d.state = "running" /\ r.step = d.step /\ r.err = d.err
        /\ r.run \in [Workflows -> Nat] /\ d.run \in [Workflows -> Nat]
    BY <1>1, <1>2, Driven, MachineTypes, Zenon
  <1>4. disk'["node"] = q /\ q.run = r.run /\ q.skipped = r.skipped
    BY <1>2, Zenon DEF Writes, Same
  <1>5. /\ drv'["node"].err = "none" /\ drv'["node"].pc \in {"step", "leaving"}
        /\ drv'["node"].pc = "step" => drv'["node"].rec = q
    BY <1>1, <1>2, LoopFacts, Zenon
  <1>6. \A k \in Workflows : r.run[k] = d.run[k] \/ (r.run[k] = 0 /\ Ended(k, {"failure"}))
    BY <1>2, Zenon DEF WorkflowInv, FollowInv
  <1>7. ASSUME NEW k \in Workflows
        PROVE  RunInv(k)'
    <2>1. RunInv(k)
      BY Zenon DEF WorkflowInv
    <2>2. CASE r.run[k] = d.run[k]
      BY <1>1, <1>4, <2>1, <2>2, Zenon DEF RunInv
    <2>3. CASE r.run[k] = 0 /\ Ended(k, {"failure"})
      <3>1. \A i \in 1..Len(wf[k]) : wf[k][i] \in Over(k)
        BY <2>1, <2>3, Zenon DEF RunInv, Ended, Over
      <3> QED BY <1>1, <1>4, <2>3, <3>1, Zenon DEF RunInv
    <2> QED BY <1>6, <2>2, <2>3, Zenon
  <1>8. d.err # "workflow_failed"
    BY <1>3, Zenon DEF WorkflowInv, FollowInv
  <1>9. ASSUME q.step = "edge_activate", ~ q.skipped
        PROVE  Ended("stage", {"success"})'
    <2>1. d.step = "edge_stage"
      BY <1>2, <1>3, <1>9 DEF NextOf, NodeSteps
    <2>2. Ended("stage", {"success"})
      BY <1>2, <1>4, <1>9, <2>1, Zenon DEF WorkflowInv, FollowInv
    <2>3. "stage" \in Workflows /\ ~ Ended("stage", {"failure"})
      BY <2>2, Zenon DEF Ended, Workflows
    <2>4. q.run["stage"] = d.run["stage"]
      BY <1>4, <1>6, <2>3, Zenon
    <2> QED BY <1>1, <1>4, <2>2, <2>4, Zenon DEF Ended
  <1>10. FollowInv'
    BY <1>3, <1>2, <1>4, <1>5, <1>8, <1>9, Zenon DEF FollowInv, InStep, Inside
  <1> QED BY <1>7, <1>10, Zenon DEF WorkflowInv

\* precheck.
LEMMA PrecheckFollow ==
    ASSUME Base, WorkflowInv, Precheck
    PROVE  WorkflowInv'
  <1> DEFINE d == disk["node"]
             v == drv["node"]
  <1>1. /\ InStep("node") /\ d.step = "precheck" /\ v.pc = "step"
        /\ UNCHANGED <<disk, releases, confirmations, faults, world, relay, resumes>>
        /\ \/ Throw("node", "other", 0)
           \/ \E r \in Record : Goto("node", "returned", r, 0) /\ r.run = v.rec.run
    BY PrecheckEffect, Zenon
  <1>2. "node" \in Machines /\ InstallTypes /\ d.state = "running" /\ UNCHANGED <<disk, wf>> /\ 0 \in Nat
    BY <1>1, NodeInStep, Zenon DEF world
  <1>3. CASE Throw("node", "other", 0)
    <2>1. Ordinary("node")
      BY <1>2, <1>3, OrdinaryThrow, Zenon
    <2> QED BY <1>2, <2>1, FollowOrdinary, Zenon
  <1>4. CASE \E r \in Record : Goto("node", "returned", r, 0) /\ r.run = v.rec.run
    <2>1. drv'["node"].pc = "returned" /\ drv'["node"].err = "none" /\ drv'["node"].rec.run = v.rec.run
      BY <1>2, <1>4, GotoFacts DEF Places
    <2>2. \A k \in Workflows : v.rec.run[k] = d.run[k]
      BY <1>1, Zenon DEF WorkflowInv, FollowInv
    <2>3. FollowInv'
      BY <1>1, <1>2, <2>1, <2>2, Zenon DEF WorkflowInv, FollowInv
    <2> QED BY <1>2, <2>3, Zenon DEF WorkflowInv, RunInv
  <1> QED BY <1>1, <1>3, <1>4, Zenon

\* The operation is saved before it is dispatched: it becomes the run on record.
LEMMA BeginFollow ==
    ASSUME Base, WorkflowInv, BeginWorkflow
    PROVE  WorkflowInv'
  <1> DEFINE d == disk["node"]
             rec == drv["node"].rec
  <1>1. PICK k \in Workflows : k = STEP_RUN[d.step]
    BY BeginEffect, Zenon
  <1>2. /\ InStep("node") /\ drv["node"].pc = "step" /\ d.step \in RunSteps
        /\ d.step = "edge_activate" => ~ rec.skipped
    BY BeginEffect, Zenon
  <1>3. /\ "node" \in Machines /\ InstallTypes /\ rec \in Record /\ d \in Record /\ d.state = "running"
        /\ {"dispatch", "follow"} \subseteq Places
    BY <1>2, NodeInStep, Zenon DEF Places
  <1>4. /\ \A j \in Workflows : rec.run[j] = d.run[j]
        /\ rec.skipped = d.skipped /\ d.err # "workflow_failed"
        /\ d.step = "edge_activate" => Ended("stage", {"success"})
    BY <1>2, <1>3, Zenon DEF WorkflowInv, FollowInv
  <1>5. rec.run \in [Workflows -> Nat] /\ d.run \in [Workflows -> Nat]
    BY <1>3, Zenon DEF Record
  <1>6. wf \in [Workflows -> Seq(Runs)] /\ wf[k] \in Seq(Runs) /\ Len(wf[k]) \in Nat
    BY DEF Base, WorldTypes
  <1>7. CASE /\ rec.run[k] = 0 /\ wf' = [wf EXCEPT ![k] = Append(@, "unsent")]
             /\ Goto("node", "dispatch", rec, Len(wf[k]) + 1)
             /\ \E e \in Record : /\ Writes("node", e) /\ Notes("node", e, rec) /\ e.skipped = rec.skipped
                                  /\ e.err = rec.err
                                  /\ e.run = [rec.run EXCEPT ![k] = Len(wf[k]) + 1]
    <2>1. PICK n \in Nat : n = Len(wf[k]) + 1 /\ n # 0
      BY <1>6
    <2>2. /\ disk'["node"].step = d.step /\ disk'["node"].skipped = rec.skipped /\ disk'["node"].err = d.err
          /\ disk'["node"].state = "running" /\ disk'["node"].run = [rec.run EXCEPT ![k] = n]
      BY <1>7, <2>1, Zenon DEF Writes, Notes
    <2>3. /\ disk'["node"].run[k] = n /\ \A j \in Workflows \ {k} : disk'["node"].run[j] = d.run[j]
      BY <1>4, <1>5, <2>2, Zenon
    <2>4. /\ drv'["node"].pc = "dispatch" /\ drv'["node"].rec = rec /\ drv'["node"].op = n
          /\ drv'["node"].err = "none"
      BY <1>3, <1>7, <2>1, GotoFacts
    <2>5. /\ wf'[k] = Append(wf[k], "unsent") /\ \A j \in Workflows \ {k} : wf'[j] = wf[j]
      BY <1>6, <1>7, Zenon
    <2>6. /\ Len(wf'[k]) = n /\ wf'[k][n] = "unsent" /\ \A i \in 1..Len(wf[k]) : wf'[k][i] = wf[k][i]
      BY <1>6, <2>1, <2>5
    <2>7. RunInv(k)'
      <3>1. \A i \in 1..Len(wf[k]) : wf[k][i] \in Over(k)
        BY <1>4, <1>7 DEF WorkflowInv, RunInv
      <3>2. \A i \in 1..n : i # n => i \in 1..Len(wf[k])
        BY <1>6, <2>1
      <3>3. \A i \in 1..Len(wf'[k]) : i # n => wf'[k][i] \in Over(k)
        BY <2>6, <3>1, <3>2, Zenon
      <3> QED BY <2>3, <2>6, <3>3, Zenon DEF RunInv
    <2>8. \A j \in Workflows \ {k} : RunInv(j)'
      BY <2>3, <2>5, Zenon DEF WorkflowInv, RunInv
    <2>9. d.step = "edge_activate" => Ended("stage", {"success"})'
      <3>1. d.step = "edge_activate" => "stage" \in Workflows \ {k}
        BY <1>1, StepRuns, Zenon DEF Workflows
      <3> QED BY <1>4, <2>3, <2>5, <3>1, Zenon DEF Ended
    <2>10. Ended(k, {"unsent"})'
      BY <2>1, <2>3, <2>6, Zenon DEF Ended
    <2>11. \A j \in Workflows :
              \/ drv'["node"].rec.run[j] = disk'["node"].run[j]
              \/ drv'["node"].rec.run[j] = 0 /\ STEP_RUN[disk'["node"].step] = j
      <3>1. drv'["node"].rec.run[k] = 0
        BY <1>7, <2>4, Zenon
      <3>2. STEP_RUN[disk'["node"].step] = k
        BY <1>1, <2>2, Zenon
      <3>3. \A j \in Workflows \ {k} : drv'["node"].rec.run[j] = disk'["node"].run[j]
        BY <1>4, <2>3, <2>4, Zenon
      <3> QED BY <3>1, <3>2, <3>3, Zenon
    <2>12. drv'["node"].rec.skipped = disk'["node"].skipped
      BY <2>2, <2>4, Zenon
    <2>13. disk'["node"].step = "edge_activate" => Ended("stage", {"success"})'
      BY <2>2, <2>9, Zenon
    <2>14. disk'["node"].err # "workflow_failed" /\ drv'["node"].err # "workflow_failed"
      BY <1>4, <2>2, <2>4, Zenon
    <2>15. /\ disk'["node"].step \in RunSteps /\ k = STEP_RUN[disk'["node"].step]
           /\ drv'["node"].op # 0 /\ drv'["node"].op = disk'["node"].run[k]
      BY <1>1, <1>2, <2>1, <2>2, <2>3, <2>4, Zenon
    <2>16. FollowInv'
      BY <2>4, <2>10, <2>11, <2>12, <2>13, <2>14, <2>15, Zenon DEF FollowInv
    <2> QED BY <2>7, <2>8, <2>16, Zenon DEF WorkflowInv
  <1>8. CASE rec.run[k] # 0 /\ UNCHANGED <<disk, wf>> /\ Goto("node", "follow", rec, rec.run[k])
    <2>1. /\ drv'["node"].pc = "follow" /\ drv'["node"].rec = rec /\ drv'["node"].op = rec.run[k]
          /\ drv'["node"].err = "none"
      BY <1>3, <1>5, <1>8, GotoFacts
    <2>2. d.step = "edge_activate" => Ended("stage", {"success"})'
      BY <1>4, <1>8, Zenon DEF Ended
    <2>3. FollowInv'
      BY <1>1, <1>2, <1>4, <1>8, <2>1, <2>2, Zenon DEF FollowInv
    <2> QED BY <1>8, <2>3, Zenon DEF WorkflowInv, RunInv
  <1> QED BY <1>1, <1>7, <1>8, BeginEffect, Zenon

\* Only a saved operation that was not sent is dispatched.
LEMMA DispatchFollow ==
    ASSUME Base, WorkflowInv, Dispatch
    PROVE  WorkflowInv'
  <1> DEFINE d == disk["node"]
             v == drv["node"]
  <1>1. InStep("node") /\ v.pc = "dispatch" /\ UNCHANGED disk
    BY Zenon DEF Dispatch, At, InStep, Inside, Places
  <1>2. /\ "node" \in Machines /\ InstallTypes /\ WorldTypes /\ DriverInv("node") /\ d.state = "running"
        /\ v.rec \in Record /\ v.rec.step = d.step
    BY <1>1, NodeInStep, Zenon
  <1>3. d.step \in RunSteps /\ STEP_RUN[d.step] \in Workflows
    BY <1>1, <1>2, StepRuns, Zenon DEF DriverInv
  <1>4. PICK k \in Workflows : k = STEP_RUN[d.step]
    BY <1>3, Zenon
  <1>5. PICK n \in Nat : n = v.op
    BY <1>2, MachineTypes, Zenon
  <1>6. /\ n # 0 /\ n = d.run[k] /\ wf[k][n] = "unsent" /\ d.err # "workflow_failed"
        /\ d.step = "edge_activate" => Ended("stage", {"success"})
    BY <1>1, <1>2, <1>4, <1>5, Zenon DEF WorkflowInv, FollowInv, Ended
  <1>7. /\ \A j \in Workflows : Len(wf'[j]) = Len(wf[j])
        /\ \A j \in Workflows, i \in Nat : i \in 1..Len(wf[j]) /\ ~ (j = k /\ i = n) => wf'[j][i] = wf[j][i]
    <2>1. CASE wf' = wf
      BY <2>1, Zenon
    <2>2. CASE wf' = [wf EXCEPT ![k][n] = "running"]
      <3>1. "running" \in Runs
        BY Zenon DEF Runs
      <3> QED BY <1>2, <2>2, <3>1, RunSet
    <2> QED BY <1>2, <1>4, <1>5, <2>1, <2>2, Zenon DEF Dispatch, Rec
  <1>8. ASSUME NEW j \in Workflows
        PROVE  RunInv(j)'
    <2>1. RunInv(j) /\ Len(wf[j]) \in Nat
      BY <1>2 DEF WorkflowInv, WorldTypes
    <2>2. \A i \in 1..Len(wf[j]) : i \in Nat /\ (i # d.run[j] => wf'[j][i] = wf[j][i])
      BY <1>6, <1>7, <2>1
    <2> QED BY <1>1, <1>7, <2>1, <2>2, Zenon DEF RunInv
  <1>9. d.step = "edge_activate" => Ended("stage", {"success"})'
    <2>1. d.step = "edge_activate" => "stage" \in Workflows /\ k # "stage"
      BY <1>4, StepRuns, Zenon DEF Workflows
    <2>2. "stage" \in Workflows /\ d.run["stage"] # 0 => d.run["stage"] \in 1..Len(wf["stage"]) /\ d.run["stage"] \in Nat
      BY RunTypes, Zenon
    <2> QED BY <1>1, <1>6, <1>7, <2>1, <2>2, Zenon DEF Ended
  <1>10. CASE Goto("node", "follow", v.rec, n)
    <2>1. drv'["node"].pc = "follow" /\ drv'["node"].rec = v.rec /\ drv'["node"].op = n /\ drv'["node"].err = "none"
      BY <1>2, <1>10, GotoFacts DEF Places
    <2>2. InStep("node")' /\ v.rec.skipped = d.skipped
      BY <1>1, <2>1, Zenon DEF WorkflowInv, FollowInv, InStep, Inside, Places
    <2>3. \A j \in Workflows : v.rec.run[j] = d.run[j] \/ (v.rec.run[j] = 0 /\ j = k)
      BY <1>1, <1>4, Zenon DEF WorkflowInv, FollowInv
    <2>4. FollowInv'
      BY <1>1, <1>3, <1>4, <1>6, <1>9, <2>1, <2>2, <2>3, Zenon DEF FollowInv
    <2> QED BY <1>8, <2>4, Zenon DEF WorkflowInv
  <1>11. CASE Throw("node", "other", 0)
    <2>1. drv'["node"].pc = "stopped" /\ drv'["node"].err = "other"
      BY <1>2, <1>11, ThrowFacts, Zenon DEF Errors
    <2>2. FollowInv'
      BY <1>1, <1>6, <1>9, <2>1, Zenon DEF FollowInv, InStep, Inside
    <2> QED BY <1>8, <2>2, Zenon DEF WorkflowInv
  <1> QED BY <1>5, <1>10, <1>11, Zenon DEF Dispatch, Rec

\* workflow(), once the run is over.
LEMMA FollowFollow ==
    ASSUME Base, WorkflowInv, FollowWorkflow
    PROVE  WorkflowInv'
  <1> DEFINE d == disk["node"]
             v == drv["node"]
  <1>1. PICK k \in Workflows : k = STEP_RUN[d.step]
    BY FollowEffect, Zenon
  <1>2. PICK n : n = v.op
    BY Zenon
  <1>3. /\ InStep("node") /\ v.pc = "follow" /\ d.step \in RunSteps
        /\ UNCHANGED <<disk, releases, confirmations, faults, world, relay, resumes>>
    BY FollowEffect, Zenon
  <1>4. UNCHANGED <<disk, wf>> /\ "node" \in Machines /\ InstallTypes /\ d.state = "running" /\ v.rec \in Record
    BY <1>3, NodeInStep, Zenon DEF world
  <1>5. /\ n # 0 /\ n = d.run[k] /\ d.err # "workflow_failed" /\ v.rec.skipped = d.skipped
        /\ d.step = "edge_activate" => Ended("stage", {"success"})
        /\ \A j \in Workflows : v.rec.run[j] = d.run[j] \/ (v.rec.run[j] = 0 /\ j = k)
    BY <1>1, <1>2, <1>3, <1>4, Zenon DEF WorkflowInv, FollowInv
  <1>6. v.rec.run \in [Workflows -> Nat] /\ d.run \in [Workflows -> Nat] /\ d.step \in NodeSteps
    BY <1>3, NodeInStep, Zenon DEF Record
  <1>7. \A j \in Workflows : RunInv(j)'
    BY <1>4, Zenon DEF WorkflowInv, RunInv
  <1>8. \A j, ends : Ended(j, ends) => Ended(j, ends)'
    BY <1>4, Zenon DEF Ended
  <1>9. {"wait_edge", "returned"} \subseteq Places /\ 0 \in Nat /\ "workflow_failed" \in Errors
    BY Zenon DEF Places, Errors
  <1>10. ASSUME NEW r \in Record, wf[k][n] = "success", r.skipped = v.rec.skipped,
                r.run = [v.rec.run EXCEPT ![k] = n],
                NEW pc \in {"wait_edge", "returned"}, Goto("node", pc, r, 0)
         PROVE  FollowInv'
    <2>1. drv'["node"].pc = pc /\ drv'["node"].rec = r /\ drv'["node"].err = "none"
      BY <1>4, <1>9, <1>10, GotoFacts
    <2>2. \A j \in Workflows : r.run[j] = d.run[j]
      BY <1>5, <1>6, <1>10
    <2>3. Ended(k, {"success"})'
      BY <1>5, <1>8, <1>10, Zenon DEF Ended
    <2>4. d.step = "edge_stage" => Ended("stage", {"success"})'
      BY <1>1, <2>3, StepRuns, Zenon
    <2> QED BY <1>4, <1>5, <1>8, <1>10, <2>1, <2>2, <2>4, Zenon DEF FollowInv
  <1>11. CASE wf[k][n] = "failure" /\ k = "companion" /\ Goto("node", "returned", v.rec, 0)
    <2>1. drv'["node"].pc = "returned" /\ drv'["node"].rec = v.rec /\ drv'["node"].err = "none"
      BY <1>4, <1>9, <1>11, GotoFacts
    <2>2. Ended(k, {"failure"})'
      BY <1>5, <1>8, <1>11, Zenon DEF Ended
    <2>3. d.step # "edge_stage"
      BY <1>1, <1>11, StepRuns, Zenon
    <2>4. FollowInv'
      BY <1>4, <1>5, <1>8, <2>1, <2>2, <2>3, Zenon DEF FollowInv
    <2> QED BY <1>7, <2>4, Zenon DEF WorkflowInv
  <1>12. CASE wf[k][n] = "failure" /\ Throw("node", "workflow_failed", 0)
    <2>1. drv'["node"].pc = "stopped" /\ drv'["node"].err = "workflow_failed"
      BY <1>4, <1>9, <1>12, ThrowFacts, Zenon
    <2>2. Ended(k, {"failure"})'
      BY <1>5, <1>8, <1>12, Zenon DEF Ended
    <2>3. FollowInv'
      BY <1>1, <1>3, <1>4, <1>5, <1>8, <2>1, <2>2, Zenon DEF FollowInv, InStep, Inside
    <2> QED BY <1>7, <2>3, Zenon DEF WorkflowInv
  <1>13. CASE wf[k][n] = "success"
    <2>1. \E r \in Record, pc \in {"wait_edge", "returned"} :
             r.skipped = v.rec.skipped /\ r.run = [v.rec.run EXCEPT ![k] = n] /\ Goto("node", pc, r, 0)
      BY <1>1, <1>2, <1>13, FollowEffect, Zenon
    <2>2. FollowInv'
      BY <1>10, <1>13, <2>1, Zenon
    <2> QED BY <1>7, <2>2, Zenon DEF WorkflowInv
  <1> QED BY <1>1, <1>2, <1>11, <1>12, <1>13, FollowEffect, Zenon

\* GitHub ends a run.
LEMMA EndsFollow ==
    ASSUME Base, WorkflowInv, NEW k \in Workflows, WorkflowEnds(k)
    PROVE  WorkflowInv'
  <1> DEFINE d == disk["node"]
  <1>1. UNCHANGED <<disk, drv>> /\ WorldTypes
    BY Zenon DEF WorkflowEnds, installVars, Base
  <1>2. PICK n \in DOMAIN wf[k], end \in {"success", "failure"} :
            wf[k][n] = "running" /\ wf' = [wf EXCEPT ![k][n] = end]
    BY Zenon DEF WorkflowEnds
  <1>3. end \in Runs /\ DOMAIN wf[k] = 1..Len(wf[k])
    BY <1>1 DEF Runs, WorldTypes
  <1>4. /\ Len(wf'[k]) = Len(wf[k]) /\ \A j \in Workflows \ {k} : wf'[j] = wf[j]
        /\ \A i \in 1..Len(wf[k]) : wf'[k][i] = IF i = n THEN end ELSE wf[k][i]
    BY <1>1, <1>2, <1>3, RunSet, Zenon
  <1>5. n = d.run[k]
    BY <1>2, <1>3, Zenon DEF WorkflowInv, RunInv, Over
  <1>6. \A j \in Workflows : RunInv(j)'
    BY <1>1, <1>4, <1>5 DEF WorkflowInv, RunInv
  <1>7. ASSUME NEW j \in Workflows, NEW e \in {"unsent", "success", "failure"}, Ended(j, {e})
        PROVE  Ended(j, {e})'
    <2>1. \A i \in 1..Len(wf[j]) : wf[j][i] = e => wf'[j][i] = wf[j][i]
      BY <1>2, <1>4, Zenon
    <2>2. d.run[j] # 0 /\ d.run[j] \in 1..Len(wf[j]) /\ wf[j][d.run[j]] = e
      BY <1>7, RunTypes, Zenon DEF Ended
    <2> QED BY <1>1, <2>1, <2>2, Zenon DEF Ended
  <1>8. "stage" \in Workflows /\ \A s \in RunSteps : STEP_RUN[s] \in Workflows
    BY StepRuns, Zenon DEF Workflows
  <1>9. drv["node"].pc \in {"dispatch", "follow"} => d.step \in RunSteps
    BY Zenon DEF Base, DriverInv, Machines
  <1>10. FollowInv'
    BY <1>1, <1>7, <1>8, <1>9, Zenon DEF WorkflowInv, FollowInv, InStep
  <1> QED BY <1>6, <1>10, Zenon DEF WorkflowInv
-----------------------------------------------------------------------------
(* All steps.                                                              *)

\* The steps that save what the node's update has reached, or follow a workflow.
NodeMoves ==
    \/ Start \/ Confirm \/ Resume \/ NodeStops \/ Advance
    \/ Precheck \/ BeginWorkflow \/ Dispatch \/ FollowWorkflow

\* The steps that save what the companion's has reached.
CompanionMoves == Handle \/ CompanionStops \/ EndPhase \/ AlreadyInstalled

\* Any other step is ordinary on both machines.
LEMMA NextOrdinary ==
    ASSUME Base, Next, ~ NodeMoves, ~ CompanionMoves
    PROVE  \A m \in Machines : Ordinary(m)
  BY OrdinarySteps, OrdinaryMachine, OrdinaryWorld, Zenon DEF Next, NodeMoves, CompanionMoves, EdgeMoves

\* The companion's steps are nothing to the node.
LEMMA CompanionAlone ==
    ASSUME Base, CompanionMoves
    PROVE  /\ disk'["node"] = disk["node"] /\ drv'["node"] = drv["node"]
           /\ UNCHANGED <<releases, world, answer>>
  <1>1. "windows" \in Machines /\ "node" \in Machines \ {"windows"} /\ InstallTypes
    BY Zenon DEF Base, Machines
  <1>2. CASE Handle
    <2>1. PICK q \in Record : /\ Writes("windows", q)
                              /\ drv' = IF q.state = "running" THEN DriveIn(drv, "windows") ELSE drv
      BY <1>2, HandleEffect, Zenon
    <2>2. UNCHANGED <<releases, world, answer>>
      BY <1>2, Zenon DEF Handle
    <2>3. drv'["node"] = drv["node"]
      BY <1>1, <2>1, DriveFacts
    <2> QED BY <1>1, <2>1, <2>2, <2>3, Zenon DEF Writes
  <1>3. CASE CompanionStops \/ EndPhase \/ AlreadyInstalled
    <2>1. PICK q \in Record : Writes("windows", q) /\ Loop("windows", q)
      BY <1>1, <1>3, StopsEffect, PhaseEffect, Zenon
    <2>2. UNCHANGED <<releases, world, answer>>
      BY <1>3, Zenon DEF CompanionStops, EndPhase, AlreadyInstalled
    <2> QED BY <1>1, <2>1, <2>2, LoopFacts DEF Writes
  <1> QED BY <1>2, <1>3, Zenon DEF CompanionMoves

\* The node's steps are nothing to the companion.
LEMMA NodeAlone ==
    ASSUME Base, FollowInv, NodeMoves
    PROVE  /\ disk'["windows"] = disk["windows"] /\ drv'["windows"] = drv["windows"]
           /\ UNCHANGED <<releases, edge, published, toCompanion, toNode>>
           /\ answer' \in {answer, NoAnswer}
  <1>1. "node" \in Machines /\ "windows" \in Machines \ {"node"} /\ InstallTypes /\ 0 \in Nat
    BY Zenon DEF Base, Machines
  <1>2. /\ UNCHANGED <<releases, edge, published, toCompanion, toNode>>
        /\ answer' \in {answer, NoAnswer}
    BY Zenon DEF NodeMoves, Start, Confirm, Resume, NodeStops, Advance, Precheck, BeginWorkflow, Dispatch,
           FollowWorkflow, relay, world
  <1>3. CASE Start \/ Confirm \/ Resume
    <2>1. PICK q \in Record : Save("node", q)
      BY <1>3, CallsEffect, Zenon
    <2>2. drv' = DriveIn(drv, "node")
      BY <1>3, Zenon DEF Start, Confirm, Resume
    <2> QED BY <1>1, <1>2, <2>1, <2>2, SaveFacts, DriveFacts
  <1>4. CASE NodeStops \/ Advance
    <2>1. PICK q \in Record : Writes("node", q) /\ Loop("node", q)
      BY <1>1, <1>4, StopsEffect, AdvanceEffect, Zenon DEF Base
    <2> QED BY <1>1, <1>2, <2>1, LoopFacts DEF Writes
  <1>5. ASSUME NEW r \in Record, NEW pc \in Places, NEW op \in Nat, Goto("node", pc, r, op)
        PROVE  drv'["windows"] = drv["windows"]
    BY <1>1, <1>5, GotoFacts, Zenon
  <1>6. ASSUME NEW e \in {"other", "workflow_failed"}, Throw("node", e, 0)
        PROVE  drv'["windows"] = drv["windows"]
    BY <1>1, <1>6, ThrowFacts DEF Errors
  <1>7. "dispatch" \in Places /\ "follow" \in Places /\ "returned" \in Places /\ "wait_edge" \in Places
    BY Zenon DEF Places
  <1>8. CASE Precheck
    BY <1>1, <1>2, <1>5, <1>6, <1>7, <1>8, PrecheckEffect, Zenon
  <1>9. CASE FollowWorkflow
    <2>1. drv["node"].rec \in Record
      BY <1>1, MachineTypes, Zenon
    <2> QED BY <1>1, <1>2, <1>5, <1>6, <1>7, <1>9, <2>1, FollowEffect, Zenon
  <1>10. CASE Dispatch
    <2>1. drv["node"].rec \in Record /\ drv["node"].op \in Nat
      BY <1>1, Zenon DEF InstallTypes, Drivers
    <2>2. UNCHANGED disk /\ (Goto("node", "follow", drv["node"].rec, drv["node"].op) \/ Throw("node", "other", 0))
      BY <1>10, Zenon DEF Dispatch, Rec
    <2> QED BY <1>1, <1>2, <1>5, <1>6, <1>7, <2>1, <2>2, Zenon
  <1>11. CASE BeginWorkflow
    <2>1. PICK k \in Workflows : k = STEP_RUN[disk["node"].step]
      BY <1>11, BeginEffect, Zenon
    <2>2. drv["node"].rec \in Record /\ drv["node"].rec.run[k] \in Nat /\ Len(wf[k]) + 1 \in Nat
      BY <1>1, MachineTypes DEF Base, WorldTypes
    <2>3. disk'["windows"] = disk["windows"]
      BY <1>1, <1>11, BeginEffect, Zenon DEF Writes
    <2>4. \/ Goto("node", "dispatch", drv["node"].rec, Len(wf[k]) + 1)
          \/ Goto("node", "follow", drv["node"].rec, drv["node"].rec.run[k])
      BY <1>11, <2>1, BeginEffect, Zenon
    <2> QED BY <1>2, <1>5, <1>7, <2>2, <2>3, <2>4, Zenon
  <1> QED BY <1>3, <1>4, <1>8, <1>9, <1>10, <1>11, Zenon DEF NodeMoves

\* What is on record of the workflows is kept.
LEMMA NextFollow ==
    ASSUME Base, WorkflowInv, Next
    PROVE  WorkflowInv'
  <1>1. "node" \in Machines
    BY Zenon DEF Machines
  <1>2. CASE NodeMoves
    BY <1>2, CallsFollow, StopFollow, AdvanceFollow, PrecheckFollow, BeginFollow, DispatchFollow,
       FollowFollow, Zenon
       DEF NodeMoves
  <1>3. CASE CompanionMoves
    <2>1. Ordinary("node") /\ UNCHANGED wf
      BY <1>3, CompanionAlone, Zenon DEF Ordinary, world
    <2> QED BY <2>1, FollowOrdinary, Zenon
  <1>4. CASE \E k \in Workflows : WorkflowEnds(k)
    BY <1>4, EndsFollow, Zenon
  <1>5. CASE ~ NodeMoves /\ ~ CompanionMoves /\ ~ \E k \in Workflows : WorkflowEnds(k)
    <2>1. Ordinary("node")
      BY <1>1, <1>5, NextOrdinary, Zenon
    <2>2. UNCHANGED wf
      <3>1. CASE EdgeMoves
        BY <3>1, EdgeEffect, Zenon
      <3>2. CASE ~ EdgeMoves
        BY <1>5, <3>2, Zenon
           DEF Next, NodeMoves, CompanionMoves, NodeReads, SkipWorkflow, AwaitEdge, InstallHere, OracleVerify,
             PollWindows, NodeGivesUp, ObserveCompanion, CompanionReads, Install, CompanionGivesUp, EdgeMoves,
             Disconnected, world
      <3> QED BY <3>1, <3>2, Zenon
    <2> QED BY <2>1, <2>2, FollowOrdinary, Zenon
  <1> QED BY <1>2, <1>3, <1>4, <1>5, Zenon

\* The attempts of the update: a resume of the node's raises it, and a request brings it to the
\* companion.
LEMMA NextAttempt ==
    ASSUME Base, WorkflowInv, AttemptInv, Next
    PROVE  AttemptInv'
  <1> DEFINE n == disk["node"].attempt
             w == disk["windows"].attempt
  <1>1. "node" \in Machines /\ "windows" \in Machines /\ InstallTypes /\ toCompanion \in Seq(Requests) /\ FollowInv
    BY Zenon DEF Base, Machines, WorldTypes, WorkflowInv
  <1>2. n \in Nat /\ w \in Nat /\ w <= n
    BY <1>1, MachineTypes, Zenon DEF AttemptInv
  <1>3. \A i \in 1..Len(toCompanion) : toCompanion[i].attempt \in Nat /\ toCompanion[i].attempt <= n
    <2>1. \A i \in 1..Len(toCompanion) : toCompanion[i] \in Requests
      BY <1>1
    <2>2. \A r \in Requests : r.attempt \in Nat
      BY Zenon DEF Requests
    <2> QED BY <2>1, <2>2, Zenon DEF AttemptInv
  <1>4. CASE NodeMoves
    <2>1. disk'["windows"] = disk["windows"] /\ UNCHANGED toCompanion
      BY <1>1, <1>4, NodeAlone, Zenon
    <2>2. disk'["node"].attempt \in Nat /\ disk'["node"].attempt >= n
      <3>1. CASE Start \/ Confirm \/ Resume
        <4>1. PICK q \in Record : Save("node", q) /\ q.attempt >= n
          BY <1>1, <3>1, CallsEffect, Zenon
        <4> QED BY <1>1, <4>1, SaveFacts DEF Record
      <3>2. CASE NodeStops
        <4>1. PICK q \in Record : Writes("node", q) /\ Same(q, disk["node"])
          BY <1>1, <3>2, StopsEffect, Zenon
        <4> QED BY <1>2, <4>1 DEF Writes, Same
      <3>3. CASE Advance
        <4>1. PICK q \in Record : /\ Writes("node", q) /\ Same(q, drv["node"].rec) /\ InStep("node")
          BY <1>1, <3>3, AdvanceEffect, Zenon DEF Base
        <4>2. drv["node"].rec.attempt = n
          BY <1>1, <4>1 DEF Base, DriverInv, Mirrors
        <4> QED BY <1>2, <4>1, <4>2 DEF Writes, Same
      <3>4. CASE Precheck \/ Dispatch \/ FollowWorkflow
        BY <1>2, <3>4 DEF Precheck, Dispatch, FollowWorkflow
      <3>5. CASE BeginWorkflow
        <4>1. UNCHANGED disk \/ \E d \in Record : Writes("node", d) /\ Notes("node", d, drv["node"].rec)
          BY <3>5, BeginEffect, Zenon
        <4> QED BY <1>2, <4>1 DEF Writes, Notes
      <3> QED BY <1>4, <3>1, <3>2, <3>3, <3>4, <3>5, Zenon DEF NodeMoves
    <2> QED BY <1>2, <1>3, <2>1, <2>2 DEF AttemptInv
  <1>5. CASE Handle
    <2>1. toCompanion # <<>> /\ toCompanion' = Tail(toCompanion)
      BY <1>5, Zenon DEF Handle
    <2>2. disk'["node"] = disk["node"]
      BY <1>5, CompanionAlone, Zenon DEF CompanionMoves
    <2>3. PICK q \in Record : /\ Writes("windows", q)
                              /\ \/ q = disk["windows"] \/ q.attempt = 0 \/ Same(q, disk["windows"])
                                 \/ q.attempt = Head(toCompanion).attempt
      BY <1>5, HandleEffect, Zenon
    <2>4. 1 \in 1..Len(toCompanion) /\ Head(toCompanion) = toCompanion[1]
      BY <1>1, <2>1
    <2>5. disk'["windows"].attempt <= n
      BY <1>2, <1>3, <2>3, <2>4 DEF Writes, Same
    <2>6. \A i \in 1..Len(toCompanion') : toCompanion'[i] = toCompanion[i + 1] /\ i + 1 \in 1..Len(toCompanion)
      BY <1>1, <2>1
    <2> QED BY <1>3, <2>2, <2>5, <2>6, Zenon DEF AttemptInv
  <1>6. CASE CompanionStops \/ EndPhase \/ AlreadyInstalled
    <2>1. disk'["node"] = disk["node"] /\ UNCHANGED toCompanion
      BY <1>6, CompanionAlone, Zenon DEF CompanionMoves, CompanionStops, EndPhase, AlreadyInstalled
    <2>2. PICK q \in Record : /\ Writes("windows", q)
                              /\ \/ Same(q, disk["windows"])
                                 \/ Same(q, drv["windows"].rec) /\ InStep("windows")
      BY <1>1, <1>6, StopsEffect, PhaseEffect, Zenon
    <2>3. InStep("windows") => drv["windows"].rec.attempt = w
      BY <1>1, Zenon DEF Base, DriverInv, Mirrors
    <2> QED BY <1>2, <1>3, <2>1, <2>2, <2>3, Zenon DEF AttemptInv, Writes, Same
  <1>7. CASE ~ NodeMoves /\ ~ CompanionMoves
    <2>1. \A m \in Machines : disk'[m].attempt = disk[m].attempt
      BY <1>7, NextOrdinary, Zenon DEF Ordinary, Notes
    <2>2. CASE PollWindows
      <3>1. PICK r \in Requests : toCompanion' \in Sent(toCompanion, r) /\ r.attempt = n
        <4>1. drv["node"].rec \in Record /\ drv["node"].rec.attempt = n
          BY <1>1, <2>2, MachineTypes DEF PollWindows, At, Base, DriverInv, Mirrors, InStep, Inside, Places
        <4> QED BY <2>2, <4>1 DEF PollWindows, Requests, Rec, Record
      <3>2. toCompanion' = toCompanion \/ toCompanion' = Append(toCompanion, r)
        BY <3>1, Zenon DEF Sent
      <3>3. \A i \in 1..Len(Append(toCompanion, r)) :
               \/ i \in 1..Len(toCompanion) /\ Append(toCompanion, r)[i] = toCompanion[i]
               \/ Append(toCompanion, r)[i] = r
        BY <1>1
      <3>4. n <= n
        BY <1>2
      <3> QED BY <1>1, <1>2, <1>3, <2>1, <3>1, <3>2, <3>3, <3>4 DEF AttemptInv
    <2>3. CASE ~ PollWindows
      <3>1. toCompanion' = toCompanion
        <4>1. CASE EdgeMoves
          BY <4>1, EdgeEffect, Zenon
        <4>2. CASE ~ EdgeMoves
          BY <1>7, <2>3, <4>2, Zenon
             DEF Next, NodeMoves, CompanionMoves, NodeReads, SkipWorkflow, AwaitEdge, InstallHere, OracleVerify,
               NodeGivesUp, ObserveCompanion, CompanionReads, Install, CompanionGivesUp, EdgeMoves, WorkflowEnds,
               Disconnected, relay
        <4> QED BY <4>1, <4>2, Zenon
      <3> QED BY <1>1, <1>2, <1>3, <2>1, <3>1 DEF AttemptInv
    <2> QED BY <2>2, <2>3, Zenon
  <1> QED BY <1>4, <1>5, <1>6, <1>7, Zenon DEF CompanionMoves
-----------------------------------------------------------------------------
(* An update that succeeded is installed.                                  *)

\* A workflow that succeeded stays, and a companion workflow that succeeds has published.
LEMMA NextReleased ==
    ASSUME Base, WorkflowInv, Released("companion") => published, Next
    PROVE  /\ \A k \in Workflows : Released(k) => Released(k)'
           /\ Released("companion")' => published'
           /\ published => published'
  <1>1. WorldTypes /\ \A k \in Workflows : wf[k] \in Seq(Runs) /\ Len(wf[k]) \in Nat
    BY DEF Base, WorldTypes
  <1>2. SUFFICES ASSUME NEW k \in Workflows
                 PROVE  /\ \A i \in 1..Len(wf[k]) : /\ i \in 1..Len(wf'[k])
                                                    /\ wf[k][i] = "success" => wf'[k][i] = "success"
                        /\ published => published'
                        /\ k = "companion" => \A i \in 1..Len(wf'[k]) :
                               wf'[k][i] = "success" => published' \/ (i \in 1..Len(wf[k]) /\ wf[k][i] = "success")
    <2>1. "companion" \in Workflows
      BY Zenon DEF Workflows
    <2> QED BY <2>1, Zenon DEF Released
  <1>3. CASE BeginWorkflow
    <2>1. UNCHANGED published /\ (wf' = wf \/ \E j \in Workflows : wf' = [wf EXCEPT ![j] = Append(@, "unsent")])
      BY <1>3, BeginEffect, Zenon
    <2>2. CASE wf'[k] = wf[k]
      BY <2>1, <2>2, Zenon
    <2>3. CASE wf'[k] = Append(wf[k], "unsent")
      <3>1. /\ Len(wf'[k]) = Len(wf[k]) + 1 /\ wf'[k][Len(wf[k]) + 1] = "unsent"
            /\ \A i \in 1..Len(wf[k]) : wf'[k][i] = wf[k][i]
        BY <1>1, <2>3 DEF Runs
      <3> QED BY <1>1, <2>1, <3>1
    <2> QED BY <1>1, <2>1, <2>2, <2>3, Zenon DEF WorldTypes
  <1>4. CASE Dispatch
    <2>1. InStep("node") /\ drv["node"].pc = "dispatch" /\ UNCHANGED published
      BY <1>4, Zenon DEF Dispatch, At, InStep, Inside, Places
    <2>2. PICK n : n = drv["node"].op
      BY Zenon
    <2>3. disk["node"].step \in RunSteps /\ drv["node"].rec.step = disk["node"].step
      BY <2>1, NodeInStep, Zenon DEF DriverInv
    <2>4. PICK j \in Workflows : j = STEP_RUN[disk["node"].step]
      BY <2>3, StepRuns, Zenon
    <2>5. wf[j][n] = "unsent"
      BY <2>1, <2>2, <2>4, Zenon DEF WorkflowInv, FollowInv, Ended
    <2>6. wf' = wf \/ wf' = [wf EXCEPT ![j][n] = "running"]
      BY <1>4, <2>2, <2>3, <2>4, Zenon DEF Dispatch, Rec
    <2>7. wf' # wf => /\ Len(wf'[j]) = Len(wf[j]) /\ \A l \in Workflows \ {j} : wf'[l] = wf[l]
                      /\ \A i \in 1..Len(wf[j]) : wf'[j][i] = IF i = n THEN "running" ELSE wf[j][i]
      BY <1>1, <2>6, RunSet, Zenon DEF Runs
    <2> QED BY <2>1, <2>5, <2>7, Zenon
  <1>5. ASSUME NEW j \in Workflows, WorkflowEnds(j)
        PROVE  /\ \A i \in 1..Len(wf[k]) : i \in 1..Len(wf'[k]) /\ (wf[k][i] = "success" => wf'[k][i] = "success")
               /\ published => published'
               /\ k = "companion" => \A i \in 1..Len(wf'[k]) :
                      wf'[k][i] = "success" => published' \/ (i \in 1..Len(wf[k]) /\ wf[k][i] = "success")
    <2>1. PICK n \in DOMAIN wf[j], end \in {"success", "failure"} :
              /\ wf[j][n] = "running" /\ wf' = [wf EXCEPT ![j][n] = end]
              /\ published' \in IF j # "companion" THEN {published}
                                ELSE IF end = "success" THEN {TRUE} ELSE {published, TRUE}
      BY <1>5, Zenon DEF WorkflowEnds
    <2>2. end \in Runs
      BY Zenon DEF Runs
    <2>3. /\ Len(wf'[j]) = Len(wf[j]) /\ \A l \in Workflows \ {j} : wf'[l] = wf[l]
          /\ \A i \in 1..Len(wf[j]) : wf'[j][i] = IF i = n THEN end ELSE wf[j][i]
      <3>1. WorldTypes /\ wf' = [wf EXCEPT ![j][n] = end]
        BY <1>1, <2>1, Zenon
      <3> QED BY <2>2, <3>1, RunSet, Zenon
    <2> QED BY <2>1, <2>3, Zenon
  <1>6. CASE ~ BeginWorkflow /\ ~ Dispatch /\ ~ \E j \in Workflows : WorkflowEnds(j)
    <2>1. UNCHANGED <<wf, published>>
      <3>1. CASE EdgeMoves
        BY <3>1, EdgeEffect, Zenon
      <3>2. CASE ~ EdgeMoves
        BY <1>6, <3>2, Zenon
           DEF Next, Start, Confirm, Resume, NodeReads, Advance, NodeStops, Precheck, SkipWorkflow,
             FollowWorkflow, AwaitEdge, InstallHere, OracleVerify, PollWindows, NodeGivesUp, ObserveCompanion, Handle,
             CompanionReads, AlreadyInstalled, Install, EndPhase, CompanionStops, CompanionGivesUp, EdgeMoves,
             Disconnected, world
      <3> QED BY <3>1, <3>2, Zenon
    <2> QED BY <2>1, Zenon
  <1> QED BY <1>3, <1>4, <1>5, <1>6, Zenon

\* A release that is active stays, or its handover is undone; so does the contract that the Edge
\* serves once the node's release is active.
Lasting ==
    /\ \A m \in Machines : Switched(m) => Switched(m)'
    /\ Switched("node") /\ Served => Served'

\* A handover goes on, to the phase given.
HandoverGoes(m, to) ==
    /\ handover' = [handover EXCEPT ![m] = to] /\ UNCHANGED handovers
    /\ UNCHANGED active \/ \E a : active' = [active EXCEPT ![m] = a]
    /\ handover[m] # "none"
    /\ handover[m] \in Undone => to \in Undone
    /\ to \notin Undone => active'[m] \in {active[m], "new"}
    /\ m = "node" /\ to = "withdrawn" => active'[m] = active[m] /\ handover[m] = "started"

\* What a handover may make of them.
LEMMA HandoverLasts ==
    ASSUME InstallTypes, HandoverInv, NEW m \in Machines, NEW to \in Phases \ {"none", "started"},
           edge' \in {edge, "target"}, HandoverGoes(m, to)
    PROVE  Lasting /\ HandoverInv'
  <1>1. /\ handover'[m] = to /\ \A u \in Machines \ {m} : handover'[u] = handover[u] /\ active'[u] = active[u]
    BY Zenon DEF InstallTypes, HandoverGoes
  <1>2. "node" \in Machines /\ \A u \in Machines : u = m \/ u \in Machines \ {m}
    BY Zenon DEF Machines
  <1>3. \A u \in Machines : Switched(u) => Switched(u)'
    BY <1>1, <1>2, Zenon DEF Switched, HandoverGoes
  <1>4. Served => Served'
    BY <1>1, <1>2, Zenon DEF Served, HandoverGoes
  <1>5. \A u \in Machines : handovers'[u] = 0 => handover'[u] = "none"
    BY <1>1, <1>2, Zenon DEF HandoverInv, HandoverGoes
  <1>6. active'["node"] = "new" => handover'["node"] \notin {"none", "started", "withdrawn"}
    BY <1>1, <1>2, Zenon DEF HandoverInv, HandoverGoes
  <1> QED BY <1>3, <1>4, <1>5, <1>6, Zenon DEF Lasting, HandoverInv

\* A step that leaves the releases and the Edge as they are.
LEMMA RestLasts ==
    ASSUME HandoverInv, UNCHANGED <<active, handover, handovers, edge>>
    PROVE  Lasting /\ HandoverInv'
  BY Zenon DEF Lasting, HandoverInv, Switched, Served

\* promote_release starts the handover of a machine that had none.
LEMMA PromoteLasts ==
    ASSUME InstallTypes, HandoverInv, NEW m \in Machines, handovers'[m] <= 1, UNCHANGED <<active, edge>>,
           handover' = [handover EXCEPT ![m] = "started"], handovers' = [handovers EXCEPT ![m] = @ + 1]
    PROVE  Lasting /\ HandoverInv'
  <1>1. handovers[m] = 0 /\ handovers'[m] # 0
    BY DEF InstallTypes
  <1>2. handover[m] = "none" /\ "none" \notin Undone
    BY <1>1, Zenon DEF HandoverInv, Undone
  <1>3. /\ handover'[m] = "started"
        /\ \A u \in Machines \ {m} : handover'[u] = handover[u] /\ handovers'[u] = handovers[u]
    BY Zenon DEF InstallTypes
  <1>4. "node" \in Machines /\ \A u \in Machines : u = m \/ u \in Machines \ {m}
    BY Zenon DEF Machines
  <1>5. \A u \in Machines : Switched(u) => Switched(u)'
    BY <1>2, <1>3, <1>4, Zenon DEF Switched
  <1>6. Served => Served'
    BY <1>2, <1>3, <1>4, Zenon DEF Served
  <1>7. HandoverInv'
    BY <1>1, <1>2, <1>3, <1>4, Zenon DEF HandoverInv
  <1> QED BY <1>5, <1>6, <1>7, Zenon DEF Lasting

\* The steps of the broker and of the switch script.
LEMMA HandoverMoves ==
    ASSUME InstallTypes, HandoverInv, NEW m \in Machines, edge' \in {edge, "target"},
           HandoverStep(m) \/ HandoverRestart(m) \/ (m = "node" /\ BrokerWithdraws)
    PROVE  Lasting /\ HandoverInv'
  <1>1. "failed" \in Undone /\ "rolled_back" \in Undone /\ Undone \subseteq Phases \ {"none", "started"}
    BY Zenon DEF Undone, Phases
  <1>2. CASE CommitRelease(m)
    <2>1. /\ handover[m] = "started" /\ handover' = [handover EXCEPT ![m] = "committed"]
          /\ active' = [active EXCEPT ![m] = "new"] /\ UNCHANGED handovers
      BY <1>2, Zenon DEF CommitRelease, Handover, Rewritten
    <2>2. active'[m] = "new" /\ "committed" \in Phases \ {"none", "started"} /\ handover[m] \notin Undone
      BY <2>1, Zenon DEF InstallTypes, Phases, Undone
    <2>3. HandoverGoes(m, "committed")
      BY <2>1, <2>2, Zenon DEF HandoverGoes
    <2> QED BY <2>2, <2>3, HandoverLasts, Zenon
  <1>3. CASE ReplaceProcess(m) \/ PassHandover(m)
    <2>1. PICK to \in {"replaced", "passed"} :
              /\ handover[m] \in {"committed", "replaced"} /\ handover' = [handover EXCEPT ![m] = to]
              /\ UNCHANGED <<active, handovers>>
      BY <1>3, Zenon DEF ReplaceProcess, PassHandover, Handover
    <2>2. to \in Phases \ {"none", "started", "withdrawn"} /\ handover[m] \notin Undone \cup {"none"}
      BY <2>1, Zenon DEF Phases, Undone
    <2>3. HandoverGoes(m, to)
      BY <2>1, <2>2, Zenon DEF HandoverGoes
    <2> QED BY <2>2, <2>3, HandoverLasts, Zenon
  <1>4. CASE RestoreState(m) \/ RestartOld(m)
    <2>1. PICK to \in Undone : handover' = [handover EXCEPT ![m] = to]
      BY <1>1, <1>4, Zenon DEF RestoreState, RestartOld, Undoes, Handover
    <2>2. handover[m] \in {"committed", "replaced", "failed"} /\ UNCHANGED handovers
      BY <1>4, Zenon DEF RestoreState, RestartOld, Undoes, Handover
    <2>3. UNCHANGED active \/ \E a : active' = [active EXCEPT ![m] = a]
      BY <1>4, Zenon DEF RestoreState, RestartOld, Rewritten
    <2>4. to # "withdrawn" /\ to \in Phases \ {"none", "started"} /\ handover[m] # "none"
      BY <1>1, <2>1, <2>2, Zenon DEF Undone
    <2>5. HandoverGoes(m, to)
      BY <2>1, <2>2, <2>3, <2>4, Zenon DEF HandoverGoes
    <2> QED BY <2>4, <2>5, HandoverLasts, Zenon
  <1>5. CASE (m = "node" /\ BrokerWithdraws) \/ (m = "windows" /\ SwitchWithdraws)
    <2>1. /\ handover[m] = "started" /\ handover' = [handover EXCEPT ![m] = "withdrawn"]
          /\ UNCHANGED <<active, handovers>>
      BY <1>5, Zenon DEF BrokerWithdraws, SwitchWithdraws, Handover
    <2>2. "withdrawn" \in Phases \ {"none", "started"} /\ handover[m] \notin Undone
      BY <2>1, Zenon DEF Phases, Undone
    <2>3. HandoverGoes(m, "withdrawn")
      BY <2>1, <2>2, Zenon DEF HandoverGoes
    <2> QED BY <2>2, <2>3, HandoverLasts, Zenon
  <1> QED BY <1>2, <1>3, <1>4, <1>5, Zenon DEF HandoverStep, HandoverRestart

\* The contract that the broker rolls back is that of a handover that it gave up.
LEMMA EdgeLasts ==
    ASSUME InstallTypes, HandoverInv, EdgeMoves
    PROVE  Lasting /\ HandoverInv'
  <1>1. CASE EdgeMoves /\ UNCHANGED installVars
    <2>1. UNCHANGED <<active, handover, handovers>>
      BY <1>1, Zenon DEF installVars, releases
    <2>2. \A m \in Machines : Switched(m) => Switched(m)'
      BY <2>1, Zenon DEF Switched
    <2>3. Switched("node") /\ Served => Served'
      <3>1. CASE EdgePrepares
        BY <2>1, <3>1, Zenon DEF EdgePrepares, Served
      <3>2. CASE PromoteContract
        BY <3>2, Zenon DEF PromoteContract, Served
      <3>3. CASE RollbackContract
        <4>1. handover["node"] \in {"withdrawn", "failed"}
          BY <3>3, Zenon DEF RollbackContract
        <4> QED BY <2>1, <4>1, Zenon DEF Switched, Served, HandoverInv, Undone
      <3> QED BY <1>1, <3>1, <3>2, <3>3, Zenon DEF EdgeMoves
    <2>4. HandoverInv'
      BY <2>1, Zenon DEF HandoverInv
    <2> QED BY <2>2, <2>3, <2>4, Zenon DEF Lasting
  <1>2. CASE PromoteContract /\ BrokerWithdraws
    BY <1>2, HandoverMoves, Zenon DEF PromoteContract, Machines
  <1> QED BY <1>1, <1>2, Zenon DEF EdgeMoves, EdgePrepares, PromoteContract, RollbackContract

\* What is installed is undone by a failed handover only.
LEMMA NextActive ==
    ASSUME Base, WorkflowInv, HandoverInv, \A m \in Machines : handovers'[m] <= 1, Next
    PROVE  Lasting /\ HandoverInv'
  <1>1. InstallTypes /\ FollowInv
    BY Zenon DEF Base, WorkflowInv
  <1>2. CASE UNCHANGED <<releases, edge>>
    BY <1>2, RestLasts, Zenon DEF releases
  <1>3. CASE NodeMoves
    BY <1>1, <1>2, <1>3, NodeAlone, Zenon
  <1>4. CASE CompanionMoves
    BY <1>2, <1>4, CompanionAlone, Zenon DEF world
  <1>5. ASSUME NEW m \in Machines, MachineStep(m), UNCHANGED <<world, relay, resumes>>
        PROVE  Lasting /\ HandoverInv'
    <2>1. edge' = edge
      BY <1>5, Zenon DEF world
    <2>2. CASE HandoverStep(m)
      BY <1>1, <2>1, <2>2, HandoverMoves, Zenon
    <2>3. CASE PromoteRelease(m)
      <3>1. CASE /\ handover' = [handover EXCEPT ![m] = "started"] /\ UNCHANGED active
                 /\ handovers' = [handovers EXCEPT ![m] = @ + 1]
        BY <1>1, <2>1, <3>1, PromoteLasts, Zenon
      <3> QED BY <1>2, <2>1, <2>3, <3>1, Zenon DEF PromoteRelease
    <2>4. CASE ~ HandoverStep(m) /\ ~ PromoteRelease(m)
      <3>1. UNCHANGED <<active, handover, handovers>>
        BY <1>5, <2>4, Zenon
           DEF MachineStep, PrepareRelease, PrepareAnswered, AwaitTask, AwaitSwitch, GiveUp, Leave, TaskEnds, releases
      <3> QED BY <2>1, <3>1, RestLasts, Zenon
    <2> QED BY <2>2, <2>3, <2>4, Zenon
  <1>6. ASSUME NEW m \in Machines, Dies(m) \/ HandoverRestart(m), Disconnected(m)
        PROVE  Lasting /\ HandoverInv'
    <2>1. edge' = edge
      BY <1>6, Zenon DEF Disconnected, world
    <2>2. CASE Dies(m)
      BY <1>2, <2>1, <2>2, Zenon DEF Dies
    <2> QED BY <1>1, <1>6, <2>1, <2>2, HandoverMoves, Zenon
  <1>7. CASE NodeReads \/ SkipWorkflow \/ AwaitEdge \/ InstallHere \/ OracleVerify \/ PollWindows \/ NodeGivesUp
             \/ CompanionReads \/ Install \/ CompanionGivesUp
    <2>1. UNCHANGED <<releases, edge>>
      BY <1>7, Zenon DEF NodeReads, SkipWorkflow, AwaitEdge, InstallHere, OracleVerify, PollWindows, NodeGivesUp,
         CompanionReads, Install, CompanionGivesUp, world
    <2> QED BY <1>2, <2>1, Zenon
  <1>8. CASE ObserveCompanion \/ \E k \in Workflows : WorkflowEnds(k)
    <2>1. UNCHANGED <<releases, edge>>
      BY <1>8, Zenon DEF ObserveCompanion, WorkflowEnds, installVars, world
    <2> QED BY <1>2, <2>1, Zenon
  <1>9. CASE EdgeMoves
    BY <1>1, <1>9, EdgeLasts, Zenon
  <1> QED BY <1>3, <1>4, <1>5, <1>6, <1>7, <1>8, <1>9, Zenon DEF Next, NodeMoves, CompanionMoves, EdgeMoves

\* What the companion reports.
LEMMA ReportProgress ==
    ASSUME Base, WorkflowInv, CompanionProgress, Lasting, Next, NEW q \in Record, toNode' \in Sent(toNode, statusOf(q)),
           q.state = "succeeded" => Switched("windows")'
    PROVE  \A i \in 1..Len(toNode') : toNode'[i].state = "succeeded" => Switched("windows")'
  <1>1. toNode \in Seq(Answers) /\ statusOf(q).state = q.state
    BY Zenon DEF Base, WorldTypes, statusOf
  <1>2. toNode' = toNode \/ toNode' = Append(toNode, statusOf(q))
    BY Zenon DEF Sent
  <1>3. Switched("windows") => Switched("windows")'
    BY Zenon DEF Lasting, Machines
  <1>4. \A a : \A i \in 1..Len(Append(toNode, a)) :
           \/ i \in 1..Len(toNode) /\ Append(toNode, a)[i] = toNode[i]
           \/ Append(toNode, a)[i] = a
    BY <1>1
  <1> QED BY <1>1, <1>2, <1>3, <1>4, Zenon DEF CompanionProgress

\* The companion's update, and every answer about it, says that it succeeded only when it did.
LEMMA NextCompanion ==
    ASSUME Base, WorkflowInv, CompanionProgress, Lasting, Next
    PROVE  CompanionProgress'
  <1> DEFINE r == disk["windows"]
             v == drv["windows"]
  <1>1. "windows" \in Machines /\ InstallTypes /\ DriverInv("windows") /\ FollowInv /\ toNode \in Seq(Answers)
    BY Zenon DEF Base, Machines, WorkflowInv, WorldTypes
  <1>2. Switched("windows") => Switched("windows")'
    BY <1>1, Zenon DEF Lasting
  <1>3. NoAnswer.state # "succeeded"
    BY Zenon DEF NoAnswer
  <1>4. CASE NodeMoves
    BY <1>1, <1>2, <1>3, <1>4, NodeAlone DEF CompanionProgress
  <1>5. CASE Handle
    <2>1. PICK q \in Record :
              /\ Writes("windows", q) /\ toNode' \in Sent(toNode, statusOf(q))
              /\ drv' = IF q.state = "running" THEN DriveIn(drv, "windows") ELSE drv
              /\ q = r \/ (q.state = "running" /\ r.state # "running")
      <3>1. NoRecord.state = "none"
        BY NoRecordFields, Zenon
      <3> QED BY <1>5, <3>1, HandleEffect, Zenon
    <2>2. q.state = "succeeded" => Switched("windows")'
      BY <1>2, <2>1, Zenon DEF CompanionProgress
    <2>3. \A i \in 1..Len(toNode') : toNode'[i].state = "succeeded" => Switched("windows")'
      BY <2>1, <2>2, ReportProgress, Zenon
    <2>4. drv'["windows"].pc = "returned" => v.pc = "returned"
      BY <1>1, <2>1, DriveFacts, Zenon
    <2>5. v.pc = "returned" => q = r
      BY <1>1, <2>1, Driven, Zenon
    <2>6. answer' = answer /\ disk'["windows"] = q
      BY <1>5, <2>1, CompanionAlone, Zenon DEF CompanionMoves, Writes
    <2> QED BY <1>2, <2>2, <2>3, <2>4, <2>5, <2>6, Zenon DEF CompanionProgress
  <1>6. CASE CompanionStops \/ EndPhase \/ AlreadyInstalled
    <2>1. PICK q \in Record : /\ Writes("windows", q) /\ Loop("windows", q) /\ toNode' \in Sent(toNode, statusOf(q))
                              /\ q.state = "succeeded" => Switched("windows")
      <3>1. CASE CompanionStops
        <4>1. PICK q \in Record : /\ Writes("windows", q) /\ Loop("windows", q) /\ q.state # "succeeded"
          BY <1>1, <3>1, StopsEffect, Zenon
        <4>2. toNode' \in Sent(toNode, statusOf(q))
          BY <1>1, <3>1, <4>1, Zenon DEF CompanionStops, Report, Save, Writes, InstallTypes
        <4> QED BY <4>1, <4>2, Zenon
      <3>2. CASE EndPhase \/ AlreadyInstalled
        <4>1. PICK q \in Record :
                  /\ Writes("windows", q) /\ Loop("windows", q) /\ InStep("windows")
                  /\ toNode' \in Sent(toNode, statusOf(q))
                  /\ \/ q.state = v.rec.state
                     \/ v.pc = "returned" /\ v.rec.step # "prepare"
                     \/ Switched("windows")
          BY <1>1, <3>2, PhaseEffect, Zenon DEF Switched
        <4>2. v.rec.state = "running" /\ v.rec.step = r.step /\ r.step \in {"prepare", "promote"}
          BY <1>1, <4>1, Driven, Zenon DEF InStep, Inside, StepsOf
        <4> QED BY <4>1, <4>2, Zenon DEF CompanionProgress
      <3> QED BY <1>6, <3>1, <3>2, Zenon
    <2>2. \A i \in 1..Len(toNode') : toNode'[i].state = "succeeded" => Switched("windows")'
      BY <1>2, <2>1, ReportProgress, Zenon
    <2>3. drv'["windows"].pc # "returned"
      BY <1>1, <2>1, LoopFacts, Zenon
    <2>4. answer' = answer /\ disk'["windows"] = q
      BY <1>6, <2>1, CompanionAlone, Zenon DEF CompanionMoves, Writes
    <2> QED BY <1>2, <2>1, <2>2, <2>3, <2>4, Zenon DEF CompanionProgress
  <1>7. CASE ~ NodeMoves /\ ~ CompanionMoves
    <2>1. Ordinary("windows")
      BY <1>1, <1>7, NextOrdinary, Zenon
    <2>2. disk'["windows"].state = "succeeded" => Switched("windows")
      BY <2>1 DEF Ordinary, Notes, CompanionProgress
    <2>3. drv'["windows"].pc = "returned" /\ disk'["windows"].step = "promote" => Switched("windows")
      BY <2>1, Zenon DEF Ordinary, Notes, Earned, PromoteStep, CompanionProgress, Switched
    <2>4. CASE ObserveCompanion
      <3>1. toNode # <<>> /\ answer' = Head(toNode) /\ toNode' = Tail(toNode)
        BY <2>4, Zenon DEF ObserveCompanion
      <3>2. 1 \in 1..Len(toNode) /\ Head(toNode) = toNode[1]
        BY <1>1, <3>1
      <3>3. \A i \in 1..Len(toNode') : toNode'[i] = toNode[i + 1] /\ i + 1 \in 1..Len(toNode)
        BY <1>1, <3>1
      <3> QED BY <1>2, <2>2, <2>3, <3>1, <3>2, <3>3, Zenon DEF CompanionProgress
    <2>5. CASE ~ ObserveCompanion
      <3>1. /\ answer' \in {answer, NoAnswer} /\ toNode' = toNode
        <4>1. CASE EdgeMoves
          BY <4>1, EdgeEffect, Zenon
        <4>2. CASE ~ EdgeMoves
          BY <1>7, <2>5, <4>2, Zenon
             DEF Next, NodeMoves, CompanionMoves, NodeReads, SkipWorkflow, AwaitEdge, InstallHere, OracleVerify,
               PollWindows, NodeGivesUp, CompanionReads, Install, CompanionGivesUp, EdgeMoves, WorkflowEnds,
               Disconnected, relay
        <4> QED BY <4>1, <4>2, Zenon
      <3> QED BY <1>2, <1>3, <2>2, <2>3, <3>1 DEF CompanionProgress
    <2> QED BY <2>4, <2>5, Zenon
  <1> QED BY <1>4, <1>5, <1>6, <1>7, Zenon DEF CompanionMoves

\* A step after which the node's update is past no step that it was not past before.
LEMMA ProgressStays ==
    ASSUME Base, WorkflowInv, ProgressInv, Lasting, Next,
           disk'["node"].step \in {disk["node"].step, "precheck", "edge_stage"},
           drv'["node"].pc = "returned" => disk'["node"].step = "precheck" \/ drv["node"].pc = "returned",
           disk'["node"].state = "succeeded" => disk["node"].state = "succeeded" /\ disk'["node"].step = disk["node"].step
    PROVE  NodeProgress'
  <1>1. /\ Switched("node") => Switched("node")'
        /\ Switched("windows") => Switched("windows")'
        /\ Switched("node") /\ Served => Served'
    BY Zenon DEF Lasting, Machines
  <1>2. /\ Released("bootstrap") => Released("bootstrap")'
        /\ Released("release") => Released("release")'
        /\ published => published'
    BY NextReleased, Zenon DEF ProgressInv, Workflows
  <1>3. \A s \in {"precheck", "edge_stage"} :
           s \notin FromPrepare("node") \cup Promoted \cup WindowsSteps \cup {"connector_tag", "connector_release"}
    BY Zenon DEF FromPrepare, FromPromote, PrepareStep, PromoteStep, Promoted, WindowsSteps
  <1>4. ASSUME NEW s, NEW later, Passed(s, later)', s \notin {"precheck", "edge_stage"},
               \A t \in {"precheck", "edge_stage"} : t \notin later
        PROVE  Passed(s, later)
    BY <1>4, Zenon DEF Passed
  <1>5. /\ Passed("connector_tag", FromPrepare("node") \cup {"connector_release"})'
              => Passed("connector_tag", FromPrepare("node") \cup {"connector_release"})
        /\ Passed("connector_release", FromPrepare("node"))' => Passed("connector_release", FromPrepare("node"))
        /\ Passed("oracle_promote", Promoted)' => Passed("oracle_promote", Promoted)
        /\ Passed("oracle_verify", Promoted \ {"oracle_verify"})' => Passed("oracle_verify", Promoted \ {"oracle_verify"})
        /\ Passed("companion_release", WindowsSteps)' => Passed("companion_release", WindowsSteps)
        /\ Passed("windows_promote", {})' => Passed("windows_promote", {})
    BY <1>3, <1>4, Zenon
  <1>6. disk'["node"].state = "succeeded" => disk'["node"].step = "windows_promote" /\ Switched("windows")'
    BY <1>1, Zenon DEF ProgressInv, NodeProgress
  <1>7. Passed("oracle_verify", Promoted \ {"oracle_verify"}) => Passed("oracle_promote", Promoted)
    BY Zenon DEF Passed, Promoted
  <1> QED BY <1>1, <1>2, <1>5, <1>6, <1>7, Zenon DEF ProgressInv, NodeProgress

\* The node's update is past a step only when what the step is for has come about.
LEMMA NextNode ==
    ASSUME Base, WorkflowInv, ProgressInv, Lasting, Next
    PROVE  NodeProgress'
  <1> DEFINE d == disk["node"]
             v == drv["node"]
  <1>1. /\ "node" \in Machines /\ InstallTypes /\ WorldTypes /\ DriverInv("node") /\ FollowInv
        /\ "running" # "succeeded"
    BY Zenon DEF Base, Machines, WorkflowInv
  <1>2. /\ Switched("node") => Switched("node")'
        /\ Switched("windows") => Switched("windows")'
        /\ Switched("node") /\ Served => Served'
    BY Zenon DEF Lasting, Machines
  <1>3. /\ Released("bootstrap") => Released("bootstrap")'
        /\ Released("release") => Released("release")'
        /\ published => published'
    BY NextReleased, Zenon DEF ProgressInv, Workflows
  <1>4. CASE Start \/ Confirm \/ Resume
    <2>1. PICK q \in Record : /\ Save("node", q) /\ q.state = "running" /\ d.state # "running"
                              /\ q.step \in {d.step, "precheck", "edge_stage"}
      BY <1>1, <1>4, CallsEffect, Zenon
    <2>2. disk'["node"] = q
      BY <1>1, <2>1, SaveFacts, Zenon
    <2>3. drv' = DriveIn(drv, "node")
      BY <1>4, Zenon DEF Start, Confirm, Resume
    <2>4. drv'["node"].pc # "returned"
      BY <2>1, <2>3, CalledDriver, Zenon
    <2> QED BY <2>1, <2>2, <2>4, ProgressStays, Zenon
  <1>5. CASE NodeStops
    <2>1. PICK q \in Record : Writes("node", q) /\ Loop("node", q) /\ q.step = d.step /\ q.state # "succeeded"
      BY <1>1, <1>5, StopsEffect, Zenon
    <2>2. drv'["node"].pc # "returned"
      BY <1>1, <2>1, LoopFacts, Zenon
    <2> QED BY <2>1, <2>2, ProgressStays, Zenon DEF Writes
  <1>6. CASE Precheck
    <2>1. d.step = "precheck" /\ disk' = disk
      BY <1>6, PrecheckEffect, Zenon
    <2> QED BY <2>1, ProgressStays, Zenon
  <1>7. CASE BeginWorkflow
    <2>1. PICK k \in Workflows : k = STEP_RUN[d.step]
      BY <1>7, BeginEffect, Zenon
    <2>2. disk' = disk \/ \E q \in Record : Writes("node", q) /\ Notes("node", q, v.rec)
      BY <1>7, BeginEffect, Zenon
    <2>3. disk'["node"].step = d.step /\ (disk'["node"] = d \/ disk'["node"].state = "running")
      BY <2>2, Zenon DEF Writes, Notes
    <2>4. v.rec \in Record /\ v.rec.run[k] \in Nat /\ Len(wf[k]) + 1 \in Nat /\ "dispatch" \in Places /\ "follow" \in Places
      BY <1>1, MachineTypes DEF WorldTypes, Places
    <2>5. Goto("node", "dispatch", v.rec, Len(wf[k]) + 1) \/ Goto("node", "follow", v.rec, v.rec.run[k])
      BY <1>7, <2>1, BeginEffect, Zenon
    <2>6. drv'["node"].pc \in {"dispatch", "follow"}
      BY <1>1, <2>4, <2>5, GotoFacts
    <2> QED BY <1>1, <2>3, <2>6, ProgressStays, Zenon
  <1>8. CASE Dispatch
    <2>1. v.rec \in Record /\ v.op \in Nat /\ "follow" \in Places /\ "other" \in Errors /\ 0 \in Nat
      BY <1>1, MachineTypes, Zenon DEF Places, Errors
    <2>2. disk' = disk /\ (Goto("node", "follow", v.rec, v.op) \/ Throw("node", "other", 0))
      BY <1>8, Zenon DEF Dispatch, Rec
    <2>3. drv'["node"].pc \in {"follow", "stopped"}
      BY <1>1, <2>1, <2>2, GotoFacts, ThrowFacts
    <2> QED BY <2>2, <2>3, ProgressStays, Zenon
  <1>13. Passed("oracle_verify", Promoted \ {"oracle_verify"})' => Passed("oracle_promote", Promoted)'
    BY Zenon DEF Passed, Promoted
  <1>9. CASE Advance
    <2>1. PICK q \in Record :
              /\ Writes("node", q) /\ Loop("node", q) /\ v.pc = "returned" /\ InStep("node")
              /\ q.state = IF v.rec.step = "windows_promote" THEN "succeeded" ELSE v.rec.state
              /\ q.step = IF v.rec.step = "windows_promote" THEN v.rec.step ELSE NextOf[v.rec.step]
      BY <1>1, <1>9, AdvanceEffect, Zenon
    <2>2. v.rec.step = d.step /\ d.step \in NodeSteps /\ v.rec.state = "running" /\ disk'["node"] = q
      BY <1>1, <2>1, Driven, NodeInStep, Zenon DEF Writes
    <2>3. drv'["node"].pc # "returned"
      BY <1>1, <2>1, LoopFacts, Zenon
    <2>4. /\ q.step \in FromPrepare("node") \cup {"connector_release"}
                => d.step \in FromPrepare("node") \cup {"connector_release", "connector_tag"}
          /\ q.step \in FromPrepare("node") => d.step \in FromPrepare("node") \cup {"connector_release"}
          /\ q.step \in Promoted => d.step \in Promoted \cup {"oracle_promote"}
          /\ q.step \in Promoted \ {"oracle_verify"} => d.step \in Promoted
          /\ q.step \in WindowsSteps => d.step \in WindowsSteps \cup {"companion_release"}
      <3>1. /\ NextOf["precheck"] = "edge_stage" /\ NextOf["edge_stage"] = "edge_activate"
            /\ NextOf["edge_activate"] = "connector_tag" /\ NextOf["connector_tag"] = "connector_release"
            /\ NextOf["connector_release"] = "oracle_prepare" /\ NextOf["oracle_prepare"] = "oracle_promote"
            /\ NextOf["oracle_promote"] = "oracle_verify" /\ NextOf["oracle_verify"] = "companion_release"
            /\ NextOf["companion_release"] = "windows_prepare" /\ NextOf["windows_prepare"] = "windows_promote"
        BY Zenon DEF NextOf
      <3>2. \/ d.step = "precheck" /\ q.step = "edge_stage"
            \/ d.step = "edge_stage" /\ q.step = "edge_activate"
            \/ d.step = "edge_activate" /\ q.step = "connector_tag"
            \/ d.step = "connector_tag" /\ q.step = "connector_release"
            \/ d.step = "connector_release" /\ q.step = "oracle_prepare"
            \/ d.step = "oracle_prepare" /\ q.step = "oracle_promote"
            \/ d.step = "oracle_promote" /\ q.step = "oracle_verify"
            \/ /\ d.step \in Promoted /\ q.step \in Promoted \ {"oracle_verify"}
               /\ q.step \in WindowsSteps => d.step # "oracle_verify"
        BY <2>1, <2>2, <3>1 DEF NodeSteps, Promoted, WindowsSteps
      <3> QED
        BY <3>2, Zenon DEF FromPrepare, FromPromote, PrepareStep, PromoteStep, Promoted, WindowsSteps
    <2>5. /\ Passed("connector_tag", FromPrepare("node") \cup {"connector_release"})' => Released("bootstrap")
          /\ Passed("connector_release", FromPrepare("node"))' => Released("release")
          /\ Passed("oracle_promote", Promoted)' => Switched("node")
          /\ Passed("oracle_verify", Promoted \ {"oracle_verify"})' => Served
          /\ Passed("companion_release", WindowsSteps)' => published
          /\ ~ Passed("windows_promote", {})'
      BY <2>1, <2>2, <2>3, <2>4, Zenon DEF ProgressInv, NodeProgress, Passed
    <2>6. q.state = "succeeded" => q.step = "windows_promote" /\ Switched("windows")
      BY <2>1, <2>2, Zenon DEF ProgressInv, NodeProgress, Passed
    <2> QED BY <1>2, <1>3, <1>13, <2>2, <2>5, <2>6, Zenon DEF NodeProgress
  <1>10. ASSUME disk'["node"].step = d.step, disk'["node"] = d \/ disk'["node"].state = "running",
                /\ d.step = "connector_tag" => Released("bootstrap")
                /\ d.step = "connector_release" => Released("release")
                /\ d.step = "oracle_promote" => Switched("node")
                /\ d.step = "oracle_verify" => Served
                /\ d.step = "companion_release" => published
                /\ d.step = "windows_promote" => Switched("windows")
         PROVE  NodeProgress'
    <2>1. /\ Passed("connector_tag", FromPrepare("node") \cup {"connector_release"})' => Released("bootstrap")
          /\ Passed("connector_release", FromPrepare("node"))' => Released("release")
          /\ Passed("oracle_promote", Promoted)' => Switched("node")
          /\ Passed("oracle_verify", Promoted \ {"oracle_verify"})' => Served
          /\ Passed("companion_release", WindowsSteps)' => published
          /\ Passed("windows_promote", {})' => Switched("windows")
      BY <1>10, Zenon DEF ProgressInv, NodeProgress, Passed
    <2>2. disk'["node"].state = "succeeded" => d.step = "windows_promote" /\ Switched("windows")
      BY <1>1, <1>10, Zenon DEF ProgressInv, NodeProgress
    <2> QED BY <1>2, <1>3, <1>10, <1>13, <2>1, <2>2, Zenon DEF NodeProgress
  <1>11. CASE FollowWorkflow
    <2>1. PICK k \in Workflows : k = STEP_RUN[d.step]
      BY <1>11, FollowEffect, Zenon
    <2>2. PICK n : n = v.op
      BY Zenon
    <2>3. /\ InStep("node") /\ v.pc = "follow" /\ d.step \in RunSteps /\ disk' = disk
          /\ \/ wf[k][n] = "success"
             \/ k = "companion" /\ published
             \/ Throw("node", "workflow_failed", 0)
      BY <1>11, <2>1, <2>2, FollowEffect, Zenon
    <2>4. n = d.run[k] /\ n \in 1..Len(wf[k])
      BY <2>1, <2>2, <2>3, RunTypes, Zenon DEF WorkflowInv, FollowInv
    <2>5. wf[k][n] = "success" => Released(k)
      BY <2>4, Zenon DEF Released
    <2>6. CASE wf[k][n] = "success" \/ (k = "companion" /\ published)
      <3>1. /\ d.step = "connector_tag" => Released("bootstrap")
            /\ d.step = "connector_release" => Released("release")
            /\ d.step = "companion_release" => published
        BY <2>1, <2>5, <2>6, StepRuns, Zenon DEF ProgressInv
      <3>2. d.step \notin {"oracle_promote", "oracle_verify", "windows_promote"}
        BY <2>3, Zenon DEF RunSteps
      <3> QED BY <1>10, <2>3, <3>1, <3>2, Zenon
    <2>7. CASE Throw("node", "workflow_failed", 0)
      <3>1. drv'["node"].pc = "stopped"
        BY <1>1, <2>7, ThrowFacts, Zenon DEF Errors
      <3> QED BY <2>3, <3>1, ProgressStays, Zenon
    <2> QED BY <2>3, <2>6, <2>7, Zenon
  <1>12. CASE ~ NodeMoves
    <2>1. Ordinary("node")
      <3>1. CASE CompanionMoves
        BY <3>1, CompanionAlone, Zenon DEF Ordinary
      <3> QED BY <1>1, <1>12, <3>1, NextOrdinary, Zenon
    <2>2. disk'["node"].step = d.step /\ (disk'["node"] = d \/ disk'["node"].state = "running")
      BY <2>1, Zenon DEF Ordinary, Notes
    <2>3. CASE drv'["node"].pc = "returned" /\ v.pc # "returned"
      <3>1. PICK r : Earned("node", r)
        BY <2>1, <2>3, Zenon DEF Ordinary
      <3>2. answer.state = "succeeded" => Switched("windows")
        BY Zenon DEF ProgressInv, CompanionProgress
      <3> QED BY <1>10, <2>2, <3>1, <3>2, Zenon DEF Earned, PromoteStep, Switched, Served
    <2>4. CASE ~ (drv'["node"].pc = "returned" /\ v.pc # "returned")
      BY <1>1, <2>2, <2>4, ProgressStays, Zenon
    <2> QED BY <2>3, <2>4, Zenon
  <1> QED BY <1>4, <1>5, <1>6, <1>7, <1>8, <1>9, <1>11, <1>12, Zenon DEF NodeMoves
-----------------------------------------------------------------------------
(* The theorems.                                                           *)

\* The update before it is started.
LEMMA InitUpdate ==
    ASSUME Init
    PROVE  UpdateInv
  <1>1. PICK out \in AlreadyOut :
            /\ active = [node |-> "old", windows |-> IF "windows" \in out THEN "new" ELSE "old"]
            /\ candidate = [node |-> IF "candidate" \in out THEN "new" ELSE "none", windows |-> "none"]
            /\ edge = IF "edge" \in out THEN "target" ELSE "previous"
            /\ contractPromoted = FALSE /\ published = ("release" \in out)
    BY Zenon DEF Init
  <1>2. /\ disk = [m \in Machines |-> NoRecord] /\ drv = [m \in Machines |-> Idle]
        /\ tasks = [m \in Machines |-> <<>>]
        /\ handover = [m \in Machines |-> "none"] /\ handovers = [m \in Machines |-> 0]
        /\ issued = 0 /\ pending = [m \in Machines |-> {}] /\ wf = [k \in Workflows |-> <<>>]
        /\ answer = NoAnswer /\ toCompanion = <<>> /\ toNode = <<>>
    BY Zenon DEF Init
  <1>3. /\ Idle \in Drivers /\ Idle.pc = "idle" /\ Idle.rec = NoRecord /\ Idle.asks = 0 /\ Idle.err = "none"
    BY NoRecordFields, Zenon DEF Idle, Driver, Drivers, Places, Errors
  <1>4. InstallTypes
    <2>1. active \in [Machines -> {"old", "new"}] /\ candidate \in [Machines -> {"none", "new"}]
      BY <1>1 DEF Machines
    <2>2. <<>> \in Seq({"running", "succeeded", "failed"})
      OBVIOUS
    <2> QED BY <1>2, <1>3, <2>1, <2>2, NoRecordFields, Zenon DEF InstallTypes, Phases
  <1>5. WorldTypes
    <2>1. NoAnswer \in Answers /\ <<>> \in Seq(Answers) /\ <<>> \in Seq(Requests) /\ <<>> \in Seq(Runs)
      BY DEF NoAnswer, Answers, States
    <2>2. edge \in {"previous", "candidate", "target"} /\ published \in BOOLEAN
      BY <1>1
    <2>3. contractPromoted \in BOOLEAN
      BY <1>1, Zenon
    <2> QED BY <1>2, <2>1, <2>2, <2>3, Zenon DEF WorldTypes
  <1>6. /\ "node" \in Machines /\ "windows" \in Machines
        /\ \A m \in Machines : /\ disk[m] = NoRecord /\ drv[m].pc = "idle" /\ drv[m].rec = NoRecord
                               /\ drv[m].asks = 0 /\ drv[m].err = "none"
        /\ \A k \in Workflows : Len(wf[k]) = 0
    BY <1>2, <1>3, Zenon DEF Machines
  <1>7. \A m \in Machines : DriverInv(m)
    BY <1>6, NoRecordFields, Zenon DEF DriverInv, InStep, Inside
  <1>8. ASSUME NEW m \in Machines
        PROVE  InstallInv(m)
    <2>1. Approvals(m) = {}
      BY <1>6, NoRecordFields, Zenon DEF Approvals
    <2>2. Len(tasks[m]) = 0 /\ handovers[m] = 0 /\ pending[m] = {} /\ Quota(m) = 0
      BY <1>2, <1>6, NoRecordFields, Zenon DEF Quota
    <2> QED BY <2>1, <2>2 DEF InstallInv
  <1>9. AttemptInv
    BY <1>2, <1>6, NoRecordFields DEF AttemptInv
  <1>10. \A k \in Workflows : RunInv(k)
    BY <1>6, NoRecordFields DEF RunInv
  <1>11. FollowInv
    BY <1>6, NoRecordFields, Zenon DEF FollowInv, InStep, Inside
  <1>12. ProgressInv
    <2>1. NodeProgress
      BY <1>6, NoRecordFields, Zenon
         DEF NodeProgress, Passed, FromPrepare, FromPromote, PrepareStep, PromoteStep, Promoted,
           WindowsSteps
    <2>2. CompanionProgress
      BY <1>2, <1>6, NoRecordFields DEF CompanionProgress, NoAnswer
    <2>3. ~ Released("companion")
      BY <1>6 DEF Released, Workflows
    <2> QED BY <2>1, <2>2, <2>3, Zenon DEF ProgressInv
  <1>13. HandoverInv
    BY <1>1, <1>2 DEF HandoverInv, Machines
  <1> QED BY <1>4, <1>5, <1>7, <1>8, <1>9, <1>10, <1>11, <1>12, <1>13, Zenon DEF UpdateInv

\* Every step of the update, of the world around it and of the machines keeps the invariant.
LEMMA NextUpdate ==
    ASSUME UpdateInv, [Next]_vars
    PROVE  UpdateInv'
  <1>1. Base /\ WorkflowInv /\ FollowInv /\ \A m \in Machines : InstallInv(m)
    BY Zenon DEF UpdateInv, Base, WorkflowInv
  <1>2. AttemptInv /\ HandoverInv /\ ProgressInv /\ CompanionProgress /\ (Released("companion") => published)
    BY Zenon DEF UpdateInv, ProgressInv
  <1>3. CASE Next
    <2>1. Base' /\ \A m \in Machines : InstallInv(m)'
      BY <1>1, <1>3, NextInstall, Zenon
    <2>2. WorkflowInv'
      BY <1>1, <1>3, NextFollow, Zenon
    <2>3. AttemptInv'
      BY <1>1, <1>2, <1>3, NextAttempt, Zenon
    <2>4. Lasting /\ HandoverInv'
      <3>1. \A m \in Machines : handovers'[m] <= 1
        BY <2>1, Zenon DEF InstallInv
      <3> QED BY <1>1, <1>2, <1>3, <3>1, NextActive, Zenon
    <2>5. ProgressInv'
      BY <1>1, <1>2, <1>3, <2>4, NextNode, NextCompanion, NextReleased, Zenon DEF ProgressInv
    <2> QED BY <2>1, <2>2, <2>3, <2>4, <2>5, Zenon DEF UpdateInv, Base, WorkflowInv
  <1>4. CASE UNCHANGED vars
    <2>1. UNCHANGED <<disk, drv, tasks, active, candidate, handover, handovers, issued, pending>>
      BY <1>4, Zenon DEF vars, installVars, releases, confirmations
    <2>2. UNCHANGED <<wf, edge, contractPromoted, published, answer, toCompanion, toNode>>
      BY <1>4, Zenon DEF vars, world, relay
    <2>3. InstallTypes' /\ WorldTypes' /\ AttemptInv' /\ HandoverInv'
      BY <2>1, <2>2, Zenon DEF UpdateInv, InstallTypes, WorldTypes, AttemptInv, HandoverInv
    <2>4. \A m \in Machines : DriverInv(m)' /\ InstallInv(m)'
      <3>1. \A m \in Machines : DriverInv(m)'
        BY <2>1, DriverStays, Zenon DEF UpdateInv
      <3>2. ASSUME NEW m \in Machines PROVE InstallInv(m)'
        <4>1. InstallInv(m) /\ Approvals(m)' = Approvals(m) /\ Quota(m)' = Quota(m)
          BY <2>1, Zenon DEF UpdateInv, Approvals, Quota
        <4> QED BY <2>1, <4>1, Zenon DEF InstallInv
      <3> QED BY <3>1, <3>2, Zenon
    <2>5. (\A k \in Workflows : RunInv(k)') /\ FollowInv'
      BY <2>1, <2>2, Zenon DEF UpdateInv, RunInv, FollowInv, InStep, Ended
    <2>6. ProgressInv'
      BY <2>1, <2>2, Zenon DEF UpdateInv, ProgressInv, NodeProgress, CompanionProgress, Passed, Released,
         Switched, Served
    <2> QED BY <2>3, <2>4, <2>5, <2>6, Zenon DEF UpdateInv
  <1> QED BY <1>3, <1>4, Zenon

\* The invariant of mcp_update: what run() holds in either process is what its record says, a call
\* that was made is on record before it is made, and a step that has returned has brought its
\* effect about, which only a handover that fails after its commit takes back.
THEOREM UpdateInvHolds == Spec => []UpdateInv
  <1>1. Init => UpdateInv
    BY InitUpdate, Zenon
  <1>2. UpdateInv /\ [Next]_vars => UpdateInv'
    BY NextUpdate, Zenon
  <1> QED BY <1>1, <1>2, PTL DEF Spec

\* "Prepare and promote are each requested once" (prepareOnce and promoteOnce of
\* release-install.ts): for every number of crashes and resumes, on either machine one
\* handover at most and one prepare, but for a resume that retries a failed one on Windows.
THEOREM InstalledOnceHolds == Spec => []InstalledOnce
  <1>1. UpdateInv => InstalledOnce
    <2> SUFFICES ASSUME UpdateInv
                 PROVE  InstalledOnce
      BY Zenon
    <2>1. "node" \in Machines /\ "windows" \in Machines /\ InstallTypes
      BY Zenon DEF UpdateInv, Machines
    <2>2. /\ Quota("node") = 0 /\ Quota("windows") = disk["windows"].attempt
          /\ disk["windows"].attempt \in Nat /\ disk["node"].attempt \in Nat
          /\ disk["windows"].attempt <= disk["node"].attempt
      BY <2>1, MachineTypes, Zenon DEF UpdateInv, AttemptInv, Quota
    <2>3. /\ \A m \in Machines : handovers[m] <= 1
          /\ Len(tasks["node"]) <= Quota("node") + 1 /\ Len(tasks["windows"]) <= Quota("windows") + 1
      BY <2>1, Zenon DEF UpdateInv, InstallInv
    <2>4. Len(tasks["node"]) \in Nat /\ Len(tasks["windows"]) \in Nat
      BY <2>1 DEF InstallTypes
    <2> QED BY <2>2, <2>3, <2>4 DEF InstalledOnce
  <1> QED BY <1>1, UpdateInvHolds, PTL

\* "A dispatch is never repeated (an uncertain one is only reconciled)" (workflow() of
\* mcp-update-runner.ts): whatever dies, gives up or is resumed, and whether the dispatch
\* answered, no workflow but the stage has two runs of which neither failed.
THEOREM DispatchedOnceHolds == Spec => []DispatchedOnce
  <1>1. UpdateInv => DispatchedOnce
    <2> DEFINE standing(k) == {n \in DOMAIN wf[k] :
                                  wf[k][n] \in {"running"} \cup (IF k = "stage" THEN {} ELSE {"success"})}
    <2> SUFFICES ASSUME UpdateInv, NEW k \in Workflows
                 PROVE  \A i, j \in standing(k) : i = j
      BY Zenon DEF DispatchedOnce
    <2>1. DOMAIN wf[k] = 1..Len(wf[k])
      BY DEF UpdateInv, WorldTypes
    <2>2. standing(k) \subseteq {disk["node"].run[k]}
      BY <2>1, Zenon DEF UpdateInv, RunInv, Over
    <2> QED BY <2>2, Zenon
  <1> QED BY <1>1, UpdateInvHolds, PTL

\* An update that succeeded is installed: the companion's release is published, and on either
\* machine the new release is active and the Edge serves MAIN's contract, whatever was lost,
\* repeated or late on the way and whichever process was replaced, but where a handover failed
\* after its commit and was undone (run() and windows() of mcp-update-runner.ts, handle() of
\* companion-update-runner.ts, the catch blocks of the cutover broker and of the switch script).
THEOREM SucceededIsInstalledHolds == Spec => []SucceededIsInstalled
  <1>1. UpdateInv => SucceededIsInstalled
    <2> DEFINE undone == {m \in Machines : handover[m] \in Undone}
    <2> SUFFICES ASSUME UpdateInv, disk["node"].state = "succeeded"
                 PROVE  /\ published /\ (edge = "target" \/ "node" \in undone)
                        /\ \A m \in Machines \ undone : active[m] = "new"
                        /\ \A k \in {"bootstrap", "release"} : \E n \in DOMAIN wf[k] : wf[k][n] = "success"
      BY Zenon DEF SucceededIsInstalled, Undone
    <2>1. NodeProgress
      BY Zenon DEF UpdateInv, ProgressInv
    <2>2. disk["node"].step = "windows_promote" /\ Switched("windows")
      BY <2>1, Zenon DEF NodeProgress
    <2>3. /\ Passed("connector_tag", FromPrepare("node") \cup {"connector_release"})
          /\ Passed("connector_release", FromPrepare("node"))
          /\ Passed("oracle_promote", Promoted)
          /\ Passed("oracle_verify", Promoted \ {"oracle_verify"})
          /\ Passed("companion_release", WindowsSteps)
      BY <2>2, Zenon DEF Passed, FromPrepare, FromPromote, Promoted, WindowsSteps
    <2>4. /\ Released("bootstrap") /\ Released("release") /\ Switched("node")
          /\ Served /\ published
      BY <2>1, <2>3, Zenon DEF NodeProgress
    <2>5. \A k \in {"bootstrap", "release"} : DOMAIN wf[k] = 1..Len(wf[k])
      BY DEF UpdateInv, WorldTypes, Workflows
    <2>6. "node" \in Machines /\ \A m \in Machines : Switched(m)
      BY <2>2, <2>4, Zenon DEF Machines
    <2> QED BY <2>4, <2>5, <2>6, Zenon DEF Released, Switched, Served
  <1> QED BY <1>1, UpdateInvHolds, PTL
=============================================================================

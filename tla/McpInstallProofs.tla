-------------------------- MODULE McpInstallProofs --------------------------
(***************************************************************************)
(* What every step of an mcp_update does to the record and to the run() of *)
(* one machine, for every number of crashes, resumes and messages in       *)
(* transit: the types hold, run() stays in step with its record, and       *)
(* prepare and promote are asked for once.                                 *)
(***************************************************************************)
EXTENDS McpUpdate, TLAPS

States == {"none", "running", "needs_confirmation", "failed", "succeeded"}
NodeSteps == {"precheck", "edge_stage", "edge_activate", "connector_tag", "connector_release",
              "oracle_prepare", "oracle_promote", "oracle_verify", "companion_release",
              "windows_prepare", "windows_promote"}
RunSteps == {"edge_stage", "edge_activate", "connector_tag", "connector_release", "companion_release"}
StepsOf(m) == IF m = "node" THEN NodeSteps ELSE {"prepare", "promote"}
Errors == {"none", "other", "workflow_failed"}
Record == [state : States, step : NodeSteps \cup {"none", "prepare", "promote"}, ask : Nat,
           approved : Nat, prep : BOOLEAN, task : Nat, prom : BOOLEAN, attempt : Nat, err : Errors,
           skipped : BOOLEAN, known : BOOLEAN, run : [Workflows -> Nat]]
Places == {"idle", "read", "step", "returned", "stopped", "leaving", "dispatch", "follow",
           "wait_edge", "prepare", "prepared", "wait_task", "promote", "wait_switch"}
Drivers == [pc : Places, rec : Record, op : Nat, err : Errors, asks : Nat]
Answers == [state : States, step : NodeSteps \cup {"none", "prepare", "promote"}, ask : Nat]
Requests == [approved : Nat, attempt : Nat]
Runs == {"unsent", "running", "success", "failure"}

Phases == {"none", "started", "committed", "replaced", "passed", "withdrawn", "failed", "rolled_back"}

InstallTypes ==
    /\ disk \in [Machines -> Record] /\ drv \in [Machines -> Drivers]
    /\ tasks \in [Machines -> Seq({"running", "succeeded", "failed"})]
    /\ active \in [Machines -> {"old", "new"}] /\ candidate \in [Machines -> {"none", "new"}]
    /\ handover \in [Machines -> Phases] /\ handovers \in [Machines -> Nat]
    /\ issued \in Nat /\ pending \in [Machines -> SUBSET (1..issued)]

WorldTypes ==
    /\ wf \in [Workflows -> Seq(Runs)]
    /\ edge \in {"previous", "candidate", "target"} /\ contractPromoted \in BOOLEAN /\ published \in BOOLEAN
    /\ answer \in Answers /\ toCompanion \in Seq(Requests) /\ toNode \in Seq(Answers)
-----------------------------------------------------------------------------
(* One machine: its record on disk and the run() that drives it.           *)

\* The step of prepare_release and that of promote_release, and the steps from each on.
PrepareStep(m) == IF m = "node" THEN "oracle_prepare" ELSE "prepare"
PromoteStep(m) == IF m = "node" THEN "oracle_promote" ELSE "promote"
Promoted == {"oracle_verify", "companion_release", "windows_prepare", "windows_promote"}
FromPromote(m) == {PromoteStep(m)} \cup Promoted
FromPrepare(m) == {PrepareStep(m)} \cup FromPromote(m)

\* run() holds a record while it is in a step.
Inside == Places \ {"idle", "leaving", "read", "stopped"}
InStep(m) == drv[m].pc \in Inside

Mirrors(r, d) ==
    /\ r.state = d.state /\ r.step = d.step /\ r.ask = d.ask /\ r.err = d.err
    /\ r.prep = d.prep /\ r.prom = d.prom /\ r.attempt = d.attempt

\* It is driven while the record is running, and what it holds is what is on disk but for
\* what the step has learnt.
DriverInv(m) ==
    /\ disk[m].state # "none" => disk[m].step \in StepsOf(m)
    /\ disk[m].state = "none" => disk[m] = NoRecord
    /\ drv[m].pc \notin {"idle", "leaving"} => disk[m].state = "running"
    /\ IF InStep(m)
       THEN Mirrors(drv[m].rec, disk[m])
       ELSE drv[m].rec = NoRecord
    /\ drv[m].pc \in {"prepare", "prepared", "wait_task"} => disk[m].step = PrepareStep(m)
    /\ drv[m].pc = "prepare" => disk[m].prep /\ disk[m].approved \in {0, drv[m].rec.approved}
    /\ drv[m].pc \in {"promote", "wait_switch"} => disk[m].step = PromoteStep(m)
    /\ drv[m].pc = "promote" => disk[m].prom /\ disk[m].approved \in {0, drv[m].rec.approved}
    /\ drv[m].pc \in {"dispatch", "follow", "wait_edge"} => m = "node" /\ disk[m].step \in RunSteps
    /\ drv[m].pc = "wait_edge" => disk[m].step = "edge_activate"
    /\ drv[m].asks # 0 \/ drv[m].err # "none" => drv[m].pc = "stopped"
    /\ disk[m].ask # 0 => disk[m].state = "needs_confirmation"

\* The confirmations that a machine's update waits for or was given.
Approvals(m) == {disk[m].ask, disk[m].approved, drv[m].rec.approved, drv[m].asks} \ {0}

\* The prepares a machine may be asked for: a resumed update of Windows asks again.
Quota(m) == IF m = "node" THEN 0 ELSE disk[m].attempt

\* A call that was made is on record, and no confirmation is left that would repeat it.
InstallInv(m) ==
    /\ m \notin Guarded => pending[m] = {}
    /\ m \notin Guarded /\ disk[m].step \in {PrepareStep(m), PromoteStep(m)} => Approvals(m) = {}
    /\ Len(tasks[m]) <= Quota(m) + 1 /\ handovers[m] <= 1
    /\ Len(tasks[m]) > Quota(m) =>
          /\ disk[m].prep /\ disk[m].step \in FromPrepare(m)
          /\ disk[m].step = PrepareStep(m) => Approvals(m) \cap pending[m] = {}
          /\ drv[m].pc = "prepare" => drv[m].rec.approved # 0
    /\ handovers[m] > 0 =>
          /\ disk[m].prom /\ disk[m].step \in FromPromote(m)
          /\ disk[m].step = PromoteStep(m) => Approvals(m) \cap pending[m] = {}
          /\ drv[m].pc = "promote" => drv[m].rec.approved # 0
-----------------------------------------------------------------------------
(* The workflows.                                                          *)

\* The workflow k has ended, as the record on disk names it.
Ended(k, ends) == disk["node"].run[k] # 0 /\ wf[k][disk["node"].run[k]] \in ends

\* What run() holds of the workflows, and where a failed one leaves the update.
FollowInv ==
    LET rec == drv["node"].rec
        pc == drv["node"].pc
        step == disk["node"].step
    IN  /\ InStep("node") =>
              \A k \in Workflows :
                  \/ rec.run[k] = disk["node"].run[k]
                  \/ /\ rec.run[k] = 0
                     /\ \/ pc \in {"dispatch", "follow"} /\ step \in RunSteps /\ STEP_RUN[step] = k
                        \/ pc = "returned" /\ Ended(k, {"failure"})
        /\ InStep("node") /\ pc # "returned" => rec.skipped = disk["node"].skipped
        /\ pc \in {"dispatch", "follow"} =>
              /\ drv["node"].op # 0 /\ drv["node"].op = disk["node"].run[STEP_RUN[step]]
              /\ pc = "dispatch" => Ended(STEP_RUN[step], {"unsent"})
              /\ step = "edge_activate" => Ended("stage", {"success"})
        /\ pc = "returned" /\ step = "edge_stage" => rec.skipped \/ Ended("stage", {"success"})
        /\ step = "edge_activate" /\ ~ disk["node"].skipped => Ended("stage", {"success"})
        /\ "workflow_failed" \in {disk["node"].err, drv["node"].err} =>
              /\ step \in RunSteps /\ Ended(STEP_RUN[step], {"failure"})
              /\ step = "edge_activate" => Ended("stage", {"success"})
        /\ disk["node"].err = "workflow_failed" => disk["node"].state = "failed"
-----------------------------------------------------------------------------
(* Records and drivers.                                                    *)

\* What was asked for and dispatched is the same in q and in r.
Same(q, r) ==
    /\ q.prep = r.prep /\ q.prom = r.prom /\ q.attempt = r.attempt
    /\ q.skipped = r.skipped /\ q.run = r.run

\* The record before there is one.
LEMMA NoRecordFields ==
    /\ NoRecord \in Record /\ NoRecord.state = "none" /\ NoRecord.step = "none" /\ NoRecord.ask = 0
    /\ NoRecord.approved = 0 /\ ~ NoRecord.prep /\ ~ NoRecord.prom /\ NoRecord.attempt = 0
    /\ NoRecord.err = "none" /\ \A k \in Workflows : NoRecord.run[k] = 0
  BY Zenon DEF NoRecord, Record, States, Errors

\* A new record of start() or accept().
LEMMA StartedFields ==
    ASSUME NEW s \in {"precheck", "prepare"}
    PROVE  LET q == [NoRecord EXCEPT !.state = "running", !.step = s] IN
           /\ q \in Record /\ q.state = "running" /\ q.step = s /\ q.ask = 0 /\ q.approved = 0
           /\ q.err = "none" /\ q.attempt = 0 /\ ~ q.prep /\ ~ q.prom /\ q.run = NoRecord.run
  BY Zenon DEF NoRecord, Record, States, Errors, NodeSteps

\* A record that is confirmed.
LEMMA ConfirmedFields ==
    ASSUME NEW r \in Record
    PROVE  LET q == [r EXCEPT !.state = "running", !.approved = r.ask, !.ask = 0] IN
           /\ q \in Record /\ q.state = "running" /\ q.approved = r.ask /\ q.ask = 0
           /\ q.step = r.step /\ q.err = r.err /\ Same(q, r)
  BY Zenon DEF Record, States, Same

\* A record that goes on, without the confirmation.
LEMMA AdvancedFields ==
    ASSUME NEW r \in Record, NEW st \in States, NEW sp \in NodeSteps \cup {"promote"}
    PROVE  /\ LET q == [[r EXCEPT !.approved = 0] EXCEPT !.state = st] IN
                /\ q \in Record /\ q.state = st /\ q.approved = 0 /\ q.ask = r.ask
                /\ q.step = r.step /\ q.err = r.err /\ Same(q, r)
           /\ LET q == [[r EXCEPT !.approved = 0] EXCEPT !.step = sp] IN
                /\ q \in Record /\ q.state = r.state /\ q.approved = 0 /\ q.ask = r.ask
                /\ q.step = sp /\ q.err = r.err /\ Same(q, r)
           /\ LET q == [r EXCEPT !.state = st, !.approved = 0] IN
                /\ q \in Record /\ q.state = st /\ q.approved = 0 /\ q.ask = r.ask
                /\ q.step = r.step /\ q.err = r.err /\ Same(q, r)
           /\ [r EXCEPT !.approved = 0].step = r.step
  BY Zenon DEF Record, Same

\* Nothing that stops or drives the update differs.
Kept(q, r) ==
    /\ q.state = r.state /\ q.step = r.step /\ q.approved = r.approved /\ q.ask = r.ask
    /\ q.err = r.err /\ q.attempt = r.attempt

\* A record that notes a run down.
LEMMA RunFields ==
    ASSUME NEW r \in Record, NEW k \in Workflows, NEW n \in Nat
    PROVE  \E q \in Record : /\ q = [r EXCEPT !.run[k] = n] /\ Kept(q, r) /\ q.prep = r.prep /\ q.prom = r.prom
                             /\ q.skipped = r.skipped /\ q.run = [r.run EXCEPT ![k] = n]
  <1> DEFINE q == [r EXCEPT !.run[k] = n]
  <1>1. /\ q \in Record /\ Kept(q, r) /\ q.prep = r.prep /\ q.prom = r.prom
        /\ q.skipped = r.skipped /\ q.run = [r.run EXCEPT ![k] = n]
    BY Zenon DEF Record, Kept
  <1> QED BY <1>1, Zenon

\* What the phases of an installation note down.
LEMMA AskedFields ==
    ASSUME NEW r \in Record, NEW n \in Nat
    PROVE  /\ LET q == [r EXCEPT !.prep = TRUE] IN
                /\ q \in Record /\ Kept(q, r) /\ q.prep /\ q.prom = r.prom
                /\ q.skipped = r.skipped /\ q.run = r.run
           /\ LET q == [r EXCEPT !.prom = TRUE] IN
                /\ q \in Record /\ Kept(q, r) /\ q.prep = r.prep /\ q.prom
                /\ q.skipped = r.skipped /\ q.run = r.run
           /\ LET q == [r EXCEPT !.task = n] IN q \in Record /\ Kept(q, r) /\ Same(q, r)
           /\ LET q == [r EXCEPT !.known = TRUE] IN q \in Record /\ Kept(q, r) /\ Same(q, r)
  BY Zenon DEF Record, Kept, Same

\* The record as it is saved before a call.
LEMMA SavedFields ==
    ASSUME NEW r \in Record, NEW m \in Machines
    PROVE  LET q == Saved(m, r) IN
           /\ q \in Record /\ q.state = r.state /\ q.step = r.step /\ q.approved \in {0, r.approved}
           /\ q.ask = r.ask /\ q.err = r.err /\ Same(q, r)
  BY Zenon DEF Record, Saved, Same

\* The record that resume() saves.
LEMMA ResumedFields ==
    ASSUME NEW r \in Record
    PROVE  LET q == Resumed(r) IN
           /\ q \in Record /\ q.state = "running" /\ q.err = "none"
           /\ q.approved = r.approved /\ q.ask = r.ask /\ q.prep = r.prep /\ q.prom = r.prom
           /\ q.skipped = r.skipped /\ q.step = IF "stage" \in Forgets(r) THEN "edge_stage" ELSE r.step
           /\ q.attempt >= r.attempt
           /\ q.run = [k \in Workflows |-> IF k \in Forgets(r) THEN 0 ELSE r.run[k]]
  <1>1. PICK f : f = [k \in Workflows |-> IF k \in Forgets(r) THEN 0 ELSE r.run[k]]
    BY Zenon
  <1>2. f \in [Workflows -> Nat]
    BY <1>1, Zenon DEF Record
  <1>3. PICK s \in NodeSteps \cup {"none", "prepare", "promote"} :
            s = IF "stage" \in Forgets(r) THEN "edge_stage" ELSE r.step
    BY Zenon DEF Record, NodeSteps
  <1>4. PICK a \in Nat : a = (IF r.step \in WindowsSteps THEN r.attempt + 1 ELSE r.attempt) /\ a >= r.attempt
    BY DEF Record
  <1>5. Resumed(r) = [r EXCEPT !.state = "running", !.err = "none", !.run = f, !.step = s, !.attempt = a]
    BY <1>1, <1>3, <1>4, Zenon DEF Resumed
  <1>6. LET q == [r EXCEPT !.state = "running", !.err = "none", !.run = f, !.step = s, !.attempt = a] IN
        /\ q \in Record /\ q.state = "running" /\ q.err = "none" /\ q.run = f /\ q.step = s
        /\ q.attempt = a /\ q.approved = r.approved /\ q.ask = r.ask /\ q.prep = r.prep
        /\ q.prom = r.prom /\ q.skipped = r.skipped
    BY <1>2, Zenon DEF Record, States, Errors
  <1> QED BY <1>1, <1>3, <1>4, <1>5, <1>6, Zenon

\* What accept() makes of the companion's record.
LEMMA AcceptedFields ==
    ASSUME NEW r \in Record, NEW request \in Requests
    PROVE  LET q == Accepted(r, request) IN
           /\ q \in Record
           /\ \/ q = r
              \/ /\ r.state = "none" /\ q.state = "running" /\ q.step = "prepare" /\ q.ask = 0 /\ q.approved = 0
                 /\ q.err = "none" /\ q.attempt = 0 /\ ~ q.prep /\ ~ q.prom
              \/ /\ r.state = "needs_confirmation" /\ q.state = "running" /\ q.approved = r.ask /\ q.ask = 0
                 /\ q.step = r.step /\ q.err = r.err /\ Same(q, r)
              \/ /\ r.state = "failed" /\ q.state = "running" /\ q.approved = r.approved /\ q.ask = r.ask
                 /\ q.step = r.step /\ q.err = r.err /\ q.prom = r.prom
                 /\ q.attempt = request.attempt /\ request.attempt > r.attempt
                 /\ q.step # "prepare" => q.prep = r.prep
  <1>1. CASE r.state = "none"
    BY <1>1, StartedFields, Zenon DEF Accepted
  <1>2. CASE r.state = "needs_confirmation"
    BY <1>2, ConfirmedFields, Zenon DEF Accepted
  <1>3. CASE r.state = "failed" /\ request.attempt > r.attempt
    <2>1. request.attempt \in Nat
      BY Zenon DEF Requests
    <2>2. CASE r.step = "prepare"
      <3>1. Accepted(r, request) = [r EXCEPT !.state = "running", !.attempt = request.attempt,
                                             !.prep = FALSE, !.task = 0]
        BY <1>3, <2>2, Zenon DEF Accepted
      <3>2. PICK a \in Nat : a = request.attempt
        BY <2>1, Zenon
      <3>3. LET q == [r EXCEPT !.state = "running", !.attempt = a, !.prep = FALSE, !.task = 0] IN
            /\ q \in Record /\ q.state = "running" /\ q.approved = r.approved /\ q.ask = r.ask
            /\ q.step = r.step /\ q.err = r.err /\ q.prom = r.prom /\ q.attempt = a
        BY Zenon DEF Record, States
      <3> QED BY <1>3, <2>2, <3>1, <3>2, <3>3, Zenon
    <2>3. CASE r.step # "prepare"
      <3>1. Accepted(r, request) = [r EXCEPT !.state = "running", !.attempt = request.attempt]
        BY <1>3, <2>3, Zenon DEF Accepted
      <3> QED BY <1>3, <2>1, <3>1, Zenon DEF Record, States
    <2> QED BY <2>2, <2>3, Zenon
  <1>4. CASE r.state \notin {"none", "needs_confirmation"} /\ ~ (r.state = "failed" /\ request.attempt > r.attempt)
    BY <1>4, Zenon DEF Accepted
  <1> QED BY <1>1, <1>2, <1>3, <1>4, Zenon

\* What is written to a machine's record.
LEMMA SaveFacts ==
    ASSUME InstallTypes, NEW m \in Machines, NEW r \in Record, Save(m, r)
    PROVE  /\ disk' \in [Machines -> Record] /\ disk'[m] = r
           /\ \A u \in Machines \ {m} : disk'[u] = disk[u]
  BY Zenon DEF InstallTypes, Save

\* Where a driver goes.
LEMMA GotoFacts ==
    ASSUME InstallTypes, NEW m \in Machines, NEW r \in Record, NEW pc \in Places, NEW op \in Nat,
           Goto(m, pc, r, op)
    PROVE  /\ drv' \in [Machines -> Drivers]
           /\ drv'[m].pc = pc /\ drv'[m].rec = r /\ drv'[m].op = op /\ drv'[m].err = "none" /\ drv'[m].asks = 0
           /\ \A u \in Machines \ {m} : drv'[u] = drv[u]
  BY Zenon DEF InstallTypes, Goto, Driver, Drivers, Errors

\* How a step is left by a throw.
LEMMA ThrowFacts ==
    ASSUME InstallTypes, NEW m \in Machines, NEW err \in Errors, NEW asks \in Nat, Throw(m, err, asks)
    PROVE  /\ drv' \in [Machines -> Drivers]
           /\ drv'[m].pc = "stopped" /\ drv'[m].rec = NoRecord /\ drv'[m].err = err /\ drv'[m].asks = asks
           /\ \A u \in Machines \ {m} : drv'[u] = drv[u]
  BY NoRecordFields, Zenon DEF InstallTypes, Throw, Stopped, Drivers, Places

\* run()'s loop.
LEMMA LoopFacts ==
    ASSUME InstallTypes, NEW m \in Machines, NEW r \in Record, Loop(m, r)
    PROVE  /\ drv' \in [Machines -> Drivers]
           /\ drv'[m].op = 0 /\ drv'[m].err = "none" /\ drv'[m].asks = 0
           /\ IF r.state = "running" THEN drv'[m].pc = "step" /\ drv'[m].rec = r
                                     ELSE drv'[m].pc = "leaving" /\ drv'[m].rec = NoRecord
           /\ \A u \in Machines \ {m} : drv'[u] = drv[u]
  BY NoRecordFields, Zenon DEF InstallTypes, Loop, Driver, Drivers, Places, Errors

\* drive().
LEMMA DriveFacts ==
    ASSUME InstallTypes, NEW m \in Machines, drv' = DriveIn(drv, m)
    PROVE  /\ drv' \in [Machines -> Drivers]
           /\ \/ drv'[m] = drv[m] /\ drv[m].pc # "idle"
              \/ /\ drv[m].pc = "idle" /\ drv'[m].pc = "read" /\ drv'[m].rec = NoRecord
                 /\ drv'[m].err = "none" /\ drv'[m].asks = 0
           /\ \A u \in Machines \ {m} : drv'[u] = drv[u]
  BY NoRecordFields, Zenon DEF InstallTypes, DriveIn, Driver, Drivers, Places, Errors

\* A process that is replaced.
LEMMA RestartFacts ==
    ASSUME InstallTypes, NEW m \in Machines, Restarted(m)
    PROVE  /\ drv' \in [Machines -> Drivers] /\ disk' = disk /\ issued' = issued
           /\ drv'[m].rec = NoRecord /\ drv'[m].err = "none" /\ drv'[m].asks = 0
           /\ \/ drv'[m].pc = "idle"
              \/ drv'[m].pc = "read" /\ disk[m].state = "running"
           /\ pending' = [pending EXCEPT ![m] = {}]
           /\ \A u \in Machines \ {m} : drv'[u] = drv[u]
  BY NoRecordFields, Zenon DEF InstallTypes, Restarted, Idle, Driver, Drivers, Places, Errors
-----------------------------------------------------------------------------
(* The types, and DriverInv.                                               *)

\* The workflow of each step.
LEMMA StepRuns ==
    /\ DOMAIN STEP_RUN = RunSteps /\ \A s \in RunSteps : STEP_RUN[s] \in Workflows
    /\ STEP_RUN["edge_stage"] = "stage" /\ STEP_RUN["edge_activate"] = "activate"
    /\ STEP_RUN["connector_tag"] = "bootstrap" /\ STEP_RUN["connector_release"] = "release"
    /\ STEP_RUN["companion_release"] = "companion"
  BY DEF STEP_RUN, RunSteps, Workflows

\* A machine whose record and driver stay.
LEMMA DriverStays ==
    ASSUME NEW u, DriverInv(u), disk'[u] = disk[u], drv'[u] = drv[u]
    PROVE  DriverInv(u)'
  BY DEF DriverInv, InStep, Mirrors

\* A step throws.
LEMMA DriverThrows ==
    ASSUME InstallTypes, NEW m \in Machines, DriverInv(m), InStep(m), disk'[m] = disk[m],
           NEW err \in Errors, NEW asks \in Nat, Throw(m, err, asks)
    PROVE  DriverInv(m)'
  <1>1. drv'[m].pc = "stopped" /\ drv'[m].rec = NoRecord
    BY ThrowFacts, Zenon
  <1> QED BY <1>1, Zenon DEF DriverInv, InStep, Inside, Places

\* A step goes on, having noted something down or not.
LEMMA DriverGoes ==
    ASSUME InstallTypes, NEW m \in Machines, DriverInv(m), InStep(m),
           NEW d \in Record, disk'[m] = d, d.state = "running", d.step = disk[m].step, d.ask = disk[m].ask,
           NEW r \in Record, NEW pc \in Inside, NEW op \in Nat, Goto(m, pc, r, op), Mirrors(r, d),
           pc \in {"prepare", "prepared", "wait_task"} => d.step = PrepareStep(m),
           pc \in {"promote", "wait_switch"} => d.step = PromoteStep(m),
           pc = "prepare" => d.prep /\ d.approved \in {0, r.approved},
           pc = "promote" => d.prom /\ d.approved \in {0, r.approved},
           pc \in {"dispatch", "follow", "wait_edge"} => m = "node" /\ d.step \in RunSteps,
           pc = "wait_edge" => d.step = "edge_activate"
    PROVE  DriverInv(m)'
  <1>1. drv'[m].pc = pc /\ drv'[m].rec = r /\ drv'[m].err = "none" /\ drv'[m].asks = 0
    BY GotoFacts DEF Inside
  <1>2. pc \notin {"idle", "leaving", "read", "stopped"}
    BY Zenon DEF Inside
  <1>3. disk[m].state = "running" /\ disk[m].ask = 0 /\ disk[m].step \in StepsOf(m)
    BY Zenon DEF DriverInv, InStep, Inside
  <1>4. InStep(m)' /\ Mirrors(drv[m].rec, disk[m])'
    BY <1>1, Zenon DEF InStep, Mirrors
  <1> QED BY <1>1, <1>2, <1>3, <1>4, Zenon DEF DriverInv

\* run() reads or saves the record and looks whether it is running.
LEMMA DriverLoops ==
    ASSUME InstallTypes, NEW m \in Machines, DriverInv(m), NEW r \in Record, disk'[m] = r, Loop(m, r),
           r.state # "none", r.step \in StepsOf(m), r.ask # 0 => r.state = "needs_confirmation"
    PROVE  DriverInv(m)'
  <1>1. /\ drv'[m].err = "none" /\ drv'[m].asks = 0
        /\ IF r.state = "running" THEN drv'[m].pc = "step" /\ drv'[m].rec = r
                                  ELSE drv'[m].pc = "leaving" /\ drv'[m].rec = NoRecord
    BY LoopFacts, Zenon
  <1> QED BY <1>1, Zenon DEF DriverInv, InStep, Inside, Places, Mirrors

\* A call makes the update run.
LEMMA DriverWakes ==
    ASSUME InstallTypes, NEW m \in Machines, DriverInv(m), disk[m].state # "running",
           NEW r \in Record, disk'[m] = r, r.state = "running", r.step \in StepsOf(m), r.ask = 0,
           drv' = DriveIn(drv, m)
    PROVE  DriverInv(m)'
  <1>1. drv[m].pc \in {"idle", "leaving"} /\ drv[m].rec = NoRecord /\ drv[m].asks = 0 /\ drv[m].err = "none"
    BY Zenon DEF DriverInv, InStep, Inside
  <1>2. /\ drv'[m].rec = NoRecord /\ drv'[m].asks = 0 /\ drv'[m].err = "none"
        /\ drv'[m].pc \in {"leaving", "read"}
    BY <1>1, DriveFacts, Zenon
  <1> QED BY <1>2, Zenon DEF DriverInv, InStep, Inside, Places

\* The driver is another process's.
LEMMA DriverRestarts ==
    ASSUME InstallTypes, NEW m \in Machines, DriverInv(m), Restarted(m)
    PROVE  DriverInv(m)'
  <1>1. /\ drv'[m].rec = NoRecord /\ drv'[m].err = "none" /\ drv'[m].asks = 0 /\ disk' = disk
        /\ \/ drv'[m].pc = "idle"
           \/ drv'[m].pc = "read" /\ disk[m].state = "running"
    BY RestartFacts, Zenon
  <1> QED BY <1>1, Zenon DEF DriverInv, InStep, Inside, Places

\* The step that follows each.
NextOf == [precheck |-> "edge_stage", edge_stage |-> "edge_activate", edge_activate |-> "connector_tag",
           connector_tag |-> "connector_release", connector_release |-> "oracle_prepare",
           oracle_prepare |-> "oracle_promote", oracle_promote |-> "oracle_verify",
           oracle_verify |-> "companion_release", companion_release |-> "windows_prepare",
           windows_prepare |-> "windows_promote"]
IndexOf(s) == CHOOSE i \in DOMAIN MCP_UPDATE_STEPS : MCP_UPDATE_STEPS[i] = s

\* advance() finds it by the index of the one before.
LEMMA StepOrder ==
    /\ Len(MCP_UPDATE_STEPS) = 11
    /\ \A s \in NodeSteps :
          IF s = "windows_promote" THEN IndexOf(s) = 11
          ELSE /\ IndexOf(s) # 11 /\ MCP_UPDATE_STEPS[IndexOf(s) + 1] = NextOf[s]
               /\ NextOf[s] \in NodeSteps
  <1>1. DOMAIN MCP_UPDATE_STEPS = 1..11 /\ Len(MCP_UPDATE_STEPS) = 11
    BY DEF MCP_UPDATE_STEPS
  <1>2. /\ MCP_UPDATE_STEPS[1] = "precheck" /\ MCP_UPDATE_STEPS[2] = "edge_stage"
        /\ MCP_UPDATE_STEPS[3] = "edge_activate" /\ MCP_UPDATE_STEPS[4] = "connector_tag"
        /\ MCP_UPDATE_STEPS[5] = "connector_release" /\ MCP_UPDATE_STEPS[6] = "oracle_prepare"
        /\ MCP_UPDATE_STEPS[7] = "oracle_promote" /\ MCP_UPDATE_STEPS[8] = "oracle_verify"
        /\ MCP_UPDATE_STEPS[9] = "companion_release" /\ MCP_UPDATE_STEPS[10] = "windows_prepare"
        /\ MCP_UPDATE_STEPS[11] = "windows_promote"
    BY Zenon DEF MCP_UPDATE_STEPS
  <1>3. ASSUME NEW s \in NodeSteps
        PROVE  IndexOf(s) \in 1..11 /\ MCP_UPDATE_STEPS[IndexOf(s)] = s
    <2>1. \E i \in 1..11 : MCP_UPDATE_STEPS[i] = s
      BY <1>2 DEF NodeSteps
    <2> QED BY <1>1, <2>1, Zenon DEF IndexOf
  <1>4. \A i \in 1..11 : \/ i = 1 \/ i = 2 \/ i = 3 \/ i = 4 \/ i = 5 \/ i = 6 \/ i = 7 \/ i = 8 \/ i = 9
                         \/ i = 10 \/ i = 11
    OBVIOUS
  <1>5. ASSUME NEW s \in NodeSteps
        PROVE  IF s = "windows_promote" THEN IndexOf(s) = 11
               ELSE /\ IndexOf(s) # 11 /\ MCP_UPDATE_STEPS[IndexOf(s) + 1] = NextOf[s]
                    /\ NextOf[s] \in NodeSteps
    BY <1>2, <1>3, <1>4 DEF NextOf, NodeSteps
  <1> QED BY <1>1, <1>5, Zenon

\* The types and the drivers.
Base == InstallTypes /\ WorldTypes /\ \A m \in Machines : DriverInv(m)

\* A step that saves and moves a driver, and nothing else.
LEMMA QuietTypes ==
    ASSUME InstallTypes, WorldTypes, disk' \in [Machines -> Record], drv' \in [Machines -> Drivers],
           UNCHANGED <<releases, confirmations>>
    PROVE  InstallTypes' /\ (UNCHANGED <<world, relay>> => WorldTypes')
  BY Zenon DEF InstallTypes, WorldTypes, releases, confirmations, world, relay

\* Two machines.
LEMMA BothMachines ==
    ASSUME NEW m \in Machines, DriverInv(m)', \A u \in Machines \ {m} : DriverInv(u)',
           InstallTypes', WorldTypes'
    PROVE  Base'
  BY Zenon DEF Base

\* A record q is written for m, and no other.
Writes(m, q) ==
    /\ disk' \in [Machines -> Record] /\ disk'[m] = q
    /\ \A u \in Machines \ {m} : disk'[u] = disk[u]

\* What the types say of a machine.
LEMMA MachineTypes ==
    ASSUME InstallTypes, NEW m \in Machines
    PROVE  /\ disk[m] \in Record /\ drv[m] \in Drivers /\ drv[m].rec \in Record /\ drv[m].asks \in Nat
           /\ drv[m].err \in Errors /\ drv[m].op \in Nat /\ drv[m].pc \in Places
           /\ disk[m].ask \in Nat /\ disk[m].approved \in Nat /\ disk[m].attempt \in Nat
           /\ drv[m].rec.approved \in Nat /\ disk[m].step \in NodeSteps \cup {"none", "prepare", "promote"}
           /\ disk[m].run \in [Workflows -> Nat] /\ drv[m].rec.run \in [Workflows -> Nat]
           /\ disk[m].state \in States
  <1>1. disk[m] \in Record /\ drv[m] \in Drivers
    BY Zenon DEF InstallTypes
  <1>2. /\ drv[m].rec \in Record /\ drv[m].asks \in Nat /\ drv[m].err \in Errors /\ drv[m].op \in Nat
        /\ drv[m].pc \in Places
    BY <1>1, Zenon DEF Drivers
  <1> QED BY <1>1, <1>2, Zenon DEF Record

\* While run() is in it, the record is running.
LEMMA Driven ==
    ASSUME NEW m, DriverInv(m), drv[m].pc \notin {"idle", "leaving"}
    PROVE  /\ disk[m].state = "running" /\ disk[m].step \in StepsOf(m) /\ disk[m].ask = 0
           /\ InStep(m) => /\ drv[m].rec.state = "running" /\ drv[m].rec.step = disk[m].step
                           /\ drv[m].rec.ask = 0 /\ drv[m].rec.err = disk[m].err
                           /\ drv[m].rec.prep = disk[m].prep /\ drv[m].rec.prom = disk[m].prom
                           /\ drv[m].rec.attempt = disk[m].attempt
           /\ ~ InStep(m) => drv[m].rec = NoRecord
  BY Zenon DEF DriverInv, Mirrors

\* What the catch of run() saves on the node, and on Windows.
LEMMA StopsEffect ==
    ASSUME InstallTypes, NEW m \in Machines,
           (m = "node" /\ NodeStops) \/ (m = "windows" /\ CompanionStops)
    PROVE  \E q \in Record :
              /\ Writes(m, q) /\ Loop(m, q) /\ drv[m].pc = "stopped"
              /\ q.state = (IF drv[m].asks # 0 THEN "needs_confirmation" ELSE "failed")
              /\ q.ask = drv[m].asks /\ q.approved = 0 /\ q.step = disk[m].step /\ Same(q, disk[m])
              /\ m = "node" => q.err = IF drv[m].asks # 0 THEN "none" ELSE drv[m].err
              /\ m = "windows" => q.err = disk[m].err
  <1>1. disk[m] \in Record /\ drv[m].asks \in Nat /\ drv[m].err \in Errors
    BY MachineTypes, Zenon
  <1>2. PICK st \in States : st = IF drv[m].asks # 0 THEN "needs_confirmation" ELSE "failed"
    BY Zenon DEF States
  <1>3. PICK e \in Errors : e = IF drv[m].asks # 0 THEN "none" ELSE drv[m].err
    BY <1>1, Zenon DEF Errors
  <1>4. PICK a \in Nat : a = drv[m].asks
    BY <1>1, Zenon
  <1>5. PICK r \in Record : r = disk[m]
    BY <1>1, Zenon
  <1>6. CASE m = "node" /\ NodeStops
    <2> DEFINE q == [r EXCEPT !.state = st, !.ask = a, !.approved = 0, !.err = e]
    <2>1. Save(m, q) /\ Loop(m, q) /\ drv[m].pc = "stopped"
      BY <1>2, <1>3, <1>4, <1>5, <1>6, Zenon DEF NodeStops, At
    <2>2. /\ q \in Record /\ q.state = st /\ q.approved = 0 /\ q.ask = a /\ q.step = r.step /\ q.err = e
          /\ Same(q, r)
      BY Zenon DEF Record, Same
    <2> HIDE DEF q
    <2>3. Writes(m, q)
      BY <2>1, <2>2, SaveFacts, Zenon DEF Writes
    <2> QED BY <1>2, <1>3, <1>4, <1>5, <1>6, <2>1, <2>2, <2>3, Zenon
  <1>7. CASE m = "windows" /\ CompanionStops
    <2> DEFINE q == [r EXCEPT !.state = st, !.ask = a, !.approved = 0]
    <2>1. Save(m, q) /\ Loop(m, q) /\ drv[m].pc = "stopped"
      BY <1>2, <1>4, <1>5, <1>7, Zenon DEF CompanionStops, At
    <2>2. /\ q \in Record /\ q.state = st /\ q.approved = 0 /\ q.ask = a /\ q.step = r.step /\ q.err = r.err
          /\ Same(q, r)
      BY Zenon DEF Record, Same
    <2> HIDE DEF q
    <2>3. Writes(m, q)
      BY <2>1, <2>2, SaveFacts, Zenon DEF Writes
    <2> QED BY <1>2, <1>4, <1>5, <1>7, <2>1, <2>2, <2>3, Zenon
  <1> QED BY <1>6, <1>7, Zenon

\* What advance() saves.
LEMMA AdvanceEffect ==
    ASSUME InstallTypes, DriverInv("node"), Advance
    PROVE  \E q \in Record :
              LET r == drv["node"].rec IN
              /\ Writes("node", q) /\ Loop("node", q) /\ drv["node"].pc = "returned" /\ InStep("node")
              /\ r.step \in NodeSteps
              /\ q.state = IF r.step = "windows_promote" THEN "succeeded" ELSE r.state
              /\ q.step = IF r.step = "windows_promote" THEN r.step ELSE NextOf[r.step]
              /\ q.step \in NodeSteps
              /\ q.ask = r.ask /\ q.approved = 0 /\ q.err = r.err /\ Same(q, r)
  <1>1. "node" \in Machines /\ drv["node"].pc = "returned" /\ InStep("node")
    BY Zenon DEF Advance, At, InStep, Inside, Places, Machines
  <1>2. PICK r \in Record : r = drv["node"].rec
    BY <1>1, MachineTypes, Zenon
  <1>3. r.step \in NodeSteps
    BY <1>1, <1>2, Driven, Zenon DEF StepsOf
  <1>4. "succeeded" \in States /\ "promote" \in NodeSteps \cup {"promote"}
    BY Zenon DEF States
  <1>5. [r EXCEPT !.approved = 0].step = r.step
    BY <1>4, AdvancedFields, Zenon
  <1>6. CASE r.step = "windows_promote"
    <2> DEFINE q == [[r EXCEPT !.approved = 0] EXCEPT !.state = "succeeded"]
    <2>1. IndexOf(r.step) = 11 /\ Len(MCP_UPDATE_STEPS) = 11
      BY <1>3, <1>6, StepOrder, Zenon
    <2>2. Save("node", q) /\ Loop("node", q)
      BY <1>2, <1>5, <2>1, Zenon DEF Advance, Rec, IndexOf
    <2>3. /\ q \in Record /\ q.state = "succeeded" /\ q.approved = 0 /\ q.ask = r.ask /\ q.step = r.step
          /\ q.err = r.err /\ Same(q, r)
      BY <1>4, AdvancedFields, Zenon
    <2> HIDE DEF q
    <2>4. Writes("node", q)
      BY <1>1, <2>2, <2>3, SaveFacts, Zenon DEF Writes
    <2> QED BY <1>1, <1>2, <1>3, <1>6, <2>2, <2>3, <2>4, Zenon
  <1>7. CASE r.step # "windows_promote"
    <2>1. IndexOf(r.step) # 11 /\ Len(MCP_UPDATE_STEPS) = 11
      BY <1>3, <1>7, StepOrder, Zenon
    <2>2. PICK sp \in NodeSteps : sp = NextOf[r.step] /\ sp = MCP_UPDATE_STEPS[IndexOf(r.step) + 1]
      BY <1>3, <1>7, StepOrder, Zenon
    <2> DEFINE q == [[r EXCEPT !.approved = 0] EXCEPT !.step = sp]
    <2>3. Save("node", q) /\ Loop("node", q)
      BY <1>2, <1>5, <2>1, <2>2, Zenon DEF Advance, Rec, IndexOf
    <2>4. /\ q \in Record /\ q.state = r.state /\ q.approved = 0 /\ q.ask = r.ask /\ q.step = sp
          /\ q.err = r.err /\ Same(q, r)
      BY Zenon DEF Record, Same
    <2> HIDE DEF q
    <2>5. Writes("node", q)
      BY <1>1, <2>3, <2>4, SaveFacts, Zenon DEF Writes
    <2> QED BY <1>1, <1>2, <1>3, <1>7, <2>2, <2>3, <2>4, <2>5, Zenon
  <1> QED BY <1>6, <1>7, Zenon

\* What the companion saves when a phase has ended, or when there is nothing to install.
LEMMA PhaseEffect ==
    ASSUME InstallTypes, EndPhase \/ AlreadyInstalled
    PROVE  \E q \in Record :
              LET r == drv["windows"].rec IN
              /\ Writes("windows", q) /\ Loop("windows", q) /\ InStep("windows")
              /\ toNode' \in Sent(toNode, statusOf(q))
              /\ \/ /\ drv["windows"].pc = "returned" /\ r.step = "prepare"
                    /\ q.step = "promote" /\ q.state = r.state
                 \/ /\ drv["windows"].pc = "returned" /\ r.step # "prepare"
                    /\ q.step = r.step /\ q.state = "succeeded"
                 \/ active["windows"] = "new" /\ q.step = r.step /\ q.state = "succeeded"
              /\ q.ask = r.ask /\ q.approved = 0 /\ q.err = r.err /\ Same(q, r)
  <1>1. "windows" \in Machines /\ InStep("windows")
    BY Zenon DEF EndPhase, AlreadyInstalled, At, InStep, Inside, Places, Machines
  <1>2. PICK r \in Record : r = drv["windows"].rec
    BY <1>1, MachineTypes, Zenon
  <1>3. "succeeded" \in States /\ "promote" \in NodeSteps \cup {"promote"}
    BY Zenon DEF States
  <1>4. [r EXCEPT !.approved = 0].step = r.step
    BY <1>3, AdvancedFields, Zenon
  <1>5. CASE EndPhase /\ r.step = "prepare"
    <2> DEFINE q == [[r EXCEPT !.approved = 0] EXCEPT !.step = "promote"]
    <2>1. Save("windows", q) /\ Loop("windows", q) /\ Report(q) /\ drv["windows"].pc = "returned"
      BY <1>2, <1>4, <1>5, Zenon DEF EndPhase, Rec, At
    <2>2. /\ q \in Record /\ q.state = r.state /\ q.approved = 0 /\ q.ask = r.ask /\ q.step = "promote"
          /\ q.err = r.err /\ Same(q, r)
      BY Zenon DEF Record, Same
    <2> HIDE DEF q
    <2>3. Writes("windows", q)
      BY <1>1, <2>1, <2>2, SaveFacts, Zenon DEF Writes
    <2> QED BY <1>1, <1>2, <1>5, <2>1, <2>2, <2>3, Zenon DEF Report
  <1>6. CASE EndPhase /\ r.step # "prepare"
    <2> DEFINE q == [[r EXCEPT !.approved = 0] EXCEPT !.state = "succeeded"]
    <2>1. Save("windows", q) /\ Loop("windows", q) /\ Report(q) /\ drv["windows"].pc = "returned"
      BY <1>2, <1>4, <1>6, Zenon DEF EndPhase, Rec, At
    <2>2. /\ q \in Record /\ q.state = "succeeded" /\ q.approved = 0 /\ q.ask = r.ask /\ q.step = r.step
          /\ q.err = r.err /\ Same(q, r)
      BY <1>3, AdvancedFields, Zenon
    <2> HIDE DEF q
    <2>3. Writes("windows", q)
      BY <1>1, <2>1, <2>2, SaveFacts, Zenon DEF Writes
    <2> QED BY <1>1, <1>2, <1>6, <2>1, <2>2, <2>3, Zenon DEF Report
  <1>7. CASE AlreadyInstalled
    <2> DEFINE q == [r EXCEPT !.state = "succeeded", !.approved = 0]
    <2>1. Save("windows", q) /\ Loop("windows", q) /\ Report(q) /\ active["windows"] = "new"
      BY <1>2, <1>7, Zenon DEF AlreadyInstalled, Rec
    <2>2. /\ q \in Record /\ q.state = "succeeded" /\ q.approved = 0 /\ q.ask = r.ask /\ q.step = r.step
          /\ q.err = r.err /\ Same(q, r)
      BY <1>3, AdvancedFields, Zenon
    <2> HIDE DEF q
    <2>3. Writes("windows", q)
      BY <1>1, <2>1, <2>2, SaveFacts, Zenon DEF Writes
    <2> QED BY <1>1, <1>2, <2>1, <2>2, <2>3, Zenon DEF Report
  <1> QED BY <1>5, <1>6, <1>7, Zenon

\* What is kept, on m, of what was asked for and of the confirmations, by a step that neither
\* asks for anything nor is answered.
Calm(m) ==
    /\ Quota(m)' >= Quota(m)
    /\ Quota(m)' = Quota(m) /\ disk[m].prep /\ disk[m].step \in FromPrepare(m) =>
          disk'[m].prep /\ disk'[m].step \in FromPrepare(m)
    /\ disk[m].prom /\ disk[m].step \in FromPromote(m) => disk'[m].prom /\ disk'[m].step \in FromPromote(m)
    /\ \/ disk'[m].step \notin {PrepareStep(m), PromoteStep(m)}
       \/ Approvals(m)' = {}
       \/ disk'[m].step = disk[m].step /\ Approvals(m)' \subseteq Approvals(m)
    /\ drv'[m].pc = "prepare" => drv'[m].rec.approved # 0 \/ ~ disk[m].prep \/ drv'[m] = drv[m]
    /\ drv'[m].pc = "promote" => drv'[m].rec.approved # 0 \/ ~ disk[m].prom \/ drv'[m] = drv[m]

Keeps == Base' /\ \A m \in Machines : Calm(m)

\* A machine that is left alone.
LEMMA CalmStays ==
    ASSUME InstallTypes, NEW u \in Machines, disk'[u] = disk[u], drv'[u] = drv[u]
    PROVE  Calm(u)
  <1>1. Quota(u) \in Nat /\ Quota(u)' = Quota(u)
    BY MachineTypes, Zenon DEF Quota
  <1>2. Approvals(u)' = Approvals(u)
    BY Zenon DEF Approvals
  <1> QED BY <1>1, <1>2 DEF Calm

\* A step of one machine.
LEMMA OneMoves ==
    ASSUME Base, NEW m \in Machines, DriverInv(m)', Calm(m), InstallTypes', WorldTypes',
           \A u \in Machines \ {m} : disk'[u] = disk[u] /\ drv'[u] = drv[u]
    PROVE  Keeps
  <1>1. \A u \in Machines \ {m} : DriverInv(u)' /\ Calm(u)
    BY DriverStays, CalmStays, Zenon DEF Base
  <1> QED BY <1>1, BothMachines, Zenon DEF Keeps

\* A step throws.
LEMMA StepThrows ==
    ASSUME Base, NEW m \in Machines, InStep(m), UNCHANGED <<disk, releases, confirmations>>, WorldTypes',
           NEW err \in Errors, NEW asks \in Nat, Throw(m, err, asks),
           asks # 0 => disk[m].step \notin {PrepareStep(m), PromoteStep(m)}
    PROVE  Keeps
  <1>1. InstallTypes /\ WorldTypes /\ DriverInv(m)
    BY Zenon DEF Base
  <1>2. /\ drv' \in [Machines -> Drivers] /\ drv'[m].pc = "stopped" /\ drv'[m].rec = NoRecord
        /\ drv'[m].asks = asks /\ \A u \in Machines \ {m} : drv'[u] = drv[u]
    BY <1>1, ThrowFacts
  <1>3. DriverInv(m)'
    BY <1>1, DriverThrows, Zenon
  <1>4. InstallTypes'
    BY <1>1, <1>2, QuietTypes, Zenon DEF InstallTypes
  <1>5. Quota(m) \in Nat /\ Quota(m)' = Quota(m)
    BY <1>1, MachineTypes, Zenon DEF Quota
  <1>6. asks = 0 => Approvals(m)' \subseteq Approvals(m)
    BY <1>2, NoRecordFields, Zenon DEF Approvals
  <1>7. Calm(m)
    BY <1>2, <1>5, <1>6 DEF Calm
  <1> QED BY <1>2, <1>3, <1>4, <1>7, OneMoves, Zenon

\* A step goes on with the record r, and d is on disk: what it may have noted down.
Notes(m, d, r) ==
    /\ d.state = "running" /\ d.step = disk[m].step /\ d.ask = disk[m].ask /\ d.attempt = disk[m].attempt
    /\ d.err = disk[m].err /\ (disk[m].prep => d.prep) /\ (disk[m].prom => d.prom)
    /\ r.approved = drv[m].rec.approved /\ d.approved \in {0, disk[m].approved, r.approved}
    /\ Mirrors(r, d)

\* Where it may go.
Fits(m, pc, d, r) ==
    /\ pc \in {"prepare", "prepared", "wait_task"} => d.step = PrepareStep(m)
    /\ pc \in {"promote", "wait_switch"} => d.step = PromoteStep(m)
    /\ pc = "prepare" => d.prep /\ d.approved \in {0, r.approved} /\ (disk[m].prep => r.approved # 0)
    /\ pc = "promote" => d.prom /\ d.approved \in {0, r.approved} /\ (disk[m].prom => r.approved # 0)
    /\ pc \in {"dispatch", "follow", "wait_edge"} => m = "node" /\ d.step \in RunSteps
    /\ pc = "wait_edge" => d.step = "edge_activate"

\* A step goes on.
LEMMA StepGoes ==
    ASSUME Base, NEW m \in Machines, InStep(m), UNCHANGED <<releases, confirmations>>, WorldTypes',
           NEW d \in Record, Writes(m, d), NEW r \in Record, NEW pc \in Inside, NEW op \in Nat,
           Goto(m, pc, r, op), Notes(m, d, r), Fits(m, pc, d, r)
    PROVE  Keeps
  <1>1. InstallTypes /\ WorldTypes /\ DriverInv(m)
    BY Zenon DEF Base
  <1>2. /\ drv' \in [Machines -> Drivers] /\ drv'[m].pc = pc /\ drv'[m].rec = r
        /\ drv'[m].asks = 0 /\ \A u \in Machines \ {m} : drv'[u] = drv[u]
    BY <1>1, GotoFacts DEF Inside
  <1>3. disk' \in [Machines -> Record] /\ disk'[m] = d /\ \A u \in Machines \ {m} : disk'[u] = disk[u]
    BY Zenon DEF Writes
  <1>4. DriverInv(m)'
    BY <1>1, <1>3, DriverGoes, Zenon DEF Notes, Fits
  <1>5. InstallTypes'
    BY <1>1, <1>2, <1>3, QuietTypes, Zenon
  <1>6. Quota(m) \in Nat /\ Quota(m)' = Quota(m)
    BY <1>1, <1>3, MachineTypes, Zenon DEF Quota, Notes
  <1>7. Approvals(m)' \subseteq Approvals(m)
    BY <1>2, <1>3, Zenon DEF Approvals, Notes
  <1>8. Calm(m)
    BY <1>2, <1>3, <1>6, <1>7 DEF Calm, Notes, Fits
  <1> QED BY <1>2, <1>3, <1>4, <1>5, <1>8, OneMoves, Zenon

\* run() loops.
LEMMA StepLoops ==
    ASSUME Base, NEW m \in Machines, UNCHANGED <<releases, confirmations>>, WorldTypes',
           NEW r \in Record, Writes(m, r), Loop(m, r),
           r.state # "none", r.step \in StepsOf(m), r.ask # 0 => r.state = "needs_confirmation",
           r.attempt = disk[m].attempt, r.prep = disk[m].prep, r.prom = disk[m].prom,
           disk[m].step \in FromPrepare(m) => r.step \in FromPrepare(m),
           disk[m].step \in FromPromote(m) => r.step \in FromPromote(m),
           \/ r.approved = 0 /\ r.ask = 0
           \/ r.step = disk[m].step /\ {r.ask, r.approved} \subseteq {0} \cup Approvals(m)
    PROVE  Keeps
  <1>1. InstallTypes /\ WorldTypes /\ DriverInv(m)
    BY Zenon DEF Base
  <1>2. /\ drv' \in [Machines -> Drivers] /\ drv'[m].asks = 0
        /\ drv'[m].pc \in {"step", "leaving"} /\ drv'[m].rec \in {r, NoRecord}
        /\ \A u \in Machines \ {m} : drv'[u] = drv[u]
    BY <1>1, LoopFacts, Zenon
  <1>3. disk' \in [Machines -> Record] /\ disk'[m] = r /\ \A u \in Machines \ {m} : disk'[u] = disk[u]
    BY Zenon DEF Writes
  <1>4. DriverInv(m)'
    BY <1>1, <1>3, DriverLoops, Zenon
  <1>5. InstallTypes'
    BY <1>1, <1>2, <1>3, QuietTypes, Zenon
  <1>6. Quota(m) \in Nat /\ Quota(m)' = Quota(m)
    BY <1>1, <1>3, MachineTypes, Zenon DEF Quota
  <1>7. Approvals(m)' = {r.ask, r.approved} \ {0}
    BY <1>2, <1>3, NoRecordFields DEF Approvals
  <1>8. Calm(m)
    BY <1>2, <1>3, <1>6, <1>7 DEF Calm
  <1> QED BY <1>2, <1>3, <1>4, <1>5, <1>8, OneMoves, Zenon

\* A call makes the update run.
LEMMA StepWakes ==
    ASSUME Base, NEW m \in Machines, UNCHANGED <<releases, confirmations>>, WorldTypes',
           disk[m].state # "running", NEW r \in Record, Writes(m, r), drv' = DriveIn(drv, m),
           r.state = "running", r.step \in StepsOf(m), r.ask = 0,
           r.attempt >= disk[m].attempt, disk[m].prom => r.prom,
           (disk[m].prep => r.prep) \/ (m # "node" /\ r.attempt > disk[m].attempt),
           disk[m].step \in FromPrepare(m) => r.step = disk[m].step,
           r.approved \in {0, disk[m].ask, disk[m].approved},
           r.step # disk[m].step => r.approved = 0 \/ r.step = "edge_stage"
    PROVE  Keeps
  <1>1. InstallTypes /\ WorldTypes /\ DriverInv(m)
    BY Zenon DEF Base
  <1>2. drv[m].pc \in {"idle", "leaving"} /\ drv[m].rec = NoRecord /\ drv[m].asks = 0
    BY <1>1, Zenon DEF DriverInv, InStep, Inside
  <1>3. /\ drv' \in [Machines -> Drivers] /\ drv'[m].asks = 0
        /\ drv'[m].pc \in {"read", "leaving"} /\ drv'[m].rec = NoRecord
        /\ \A u \in Machines \ {m} : drv'[u] = drv[u]
    BY <1>1, <1>2, DriveFacts, Zenon
  <1>4. disk' \in [Machines -> Record] /\ disk'[m] = r /\ \A u \in Machines \ {m} : disk'[u] = disk[u]
    BY Zenon DEF Writes
  <1>5. DriverInv(m)'
    BY <1>1, <1>4, DriverWakes, Zenon
  <1>6. InstallTypes'
    BY <1>1, <1>3, <1>4, QuietTypes, Zenon
  <1>7. /\ Quota(m) \in Nat /\ Quota(m)' >= Quota(m)
        /\ Quota(m)' = Quota(m) /\ disk[m].prep => r.prep
    BY <1>1, <1>4, MachineTypes DEF Quota, Record
  <1>8. Approvals(m)' = {r.approved} \ {0}
    BY <1>3, <1>4, NoRecordFields DEF Approvals
  <1>9. {r.approved} \ {0} \subseteq Approvals(m)
    BY Zenon DEF Approvals
  <1>10. "edge_stage" \notin {PrepareStep(m), PromoteStep(m)} /\ FromPromote(m) \subseteq FromPrepare(m)
    BY Zenon DEF PrepareStep, PromoteStep, FromPrepare
  <1>11. Calm(m)
    <2>1. disk[m].prom /\ disk[m].step \in FromPromote(m) => disk'[m].prom /\ disk'[m].step \in FromPromote(m)
      BY <1>4, <1>10, Zenon
    <2>2. \/ disk'[m].step \notin {PrepareStep(m), PromoteStep(m)}
          \/ Approvals(m)' = {}
          \/ disk'[m].step = disk[m].step /\ Approvals(m)' \subseteq Approvals(m)
      BY <1>4, <1>8, <1>9, <1>10, Zenon
    <2> QED BY <1>3, <1>4, <1>7, <2>1, <2>2, Zenon DEF Calm
  <1> QED BY <1>3, <1>4, <1>5, <1>6, <1>11, OneMoves, Zenon

\* What the companion answers, and what is in transit.
LEMMA SentTypes ==
    ASSUME NEW S, NEW q \in Seq(S), NEW msg \in S, NEW z \in Sent(q, msg)
    PROVE  z \in Seq(S)
  BY DEF Sent

\* The companion's report is a message of its type.
LEMMA ReportTypes ==
    ASSUME WorldTypes, NEW r \in Record, toNode' \in Sent(toNode, statusOf(r)),
           UNCHANGED <<world, answer>>, toCompanion' \in Seq(Requests)
    PROVE  WorldTypes'
  <1>1. statusOf(r) \in Answers
    BY Zenon DEF statusOf, Answers, Record
  <1>2. toNode' \in Seq(Answers)
    BY <1>1, SentTypes, Zenon DEF WorldTypes
  <1> QED BY <1>2, Zenon DEF WorldTypes, world

\* What start, confirm and resume save.
LEMMA CallsEffect ==
    ASSUME Base, FollowInv, Start \/ Confirm \/ Resume
    PROVE  LET r == disk["node"] IN
           \E q \in Record :
              /\ Save("node", q) /\ q.state = "running" /\ q.step \in StepsOf("node")
              /\ q.ask = 0 /\ r.state # "running" /\ q.attempt >= r.attempt
              /\ (r.prep => q.prep) /\ (r.prom => q.prom) /\ q.approved \in {0, r.ask, r.approved}
              /\ r.step \in FromPrepare("node") => q.step = r.step
              /\ q.step # r.step => q.approved = 0 \/ q.step = "edge_stage"
              /\ q.step \in {r.step, "precheck", "edge_stage"}
  <1> DEFINE r == disk["node"]
  <1>0. "node" \in Machines /\ InstallTypes /\ WorldTypes /\ DriverInv("node") /\ r \in Record
    BY Zenon DEF Base, Machines, InstallTypes
  <1>1. CASE Start
    <2>1. r = NoRecord
      BY <1>0, <1>1, Zenon DEF Start, DriverInv
    <2>2. "none" \notin FromPrepare("node")
      BY Zenon DEF FromPrepare, FromPromote, PrepareStep, PromoteStep, Promoted
    <2>3. PICK q \in Record :
              /\ q = [NoRecord EXCEPT !.state = "running", !.step = "precheck"]
              /\ q.state = "running" /\ q.step = "precheck" /\ q.ask = 0 /\ q.approved = 0 /\ q.attempt = 0
      BY StartedFields, Zenon
    <2>4. Save("node", q) /\ q.step \in StepsOf("node")
      BY <1>1, <2>3 DEF Start, StepsOf, NodeSteps
    <2>5. 0 >= 0
      OBVIOUS
    <2> QED BY <2>1, <2>2, <2>3, <2>4, <2>5, NoRecordFields, Zenon
  <1>2. CASE Confirm
    <2>1. r.attempt \in Nat
      BY <1>0, Zenon DEF Record
    <2>2. PICK q \in Record :
              /\ q = [r EXCEPT !.state = "running", !.approved = r.ask, !.ask = 0]
              /\ q.state = "running" /\ q.approved = r.ask /\ q.ask = 0 /\ q.step = r.step
              /\ q.prep = r.prep /\ q.prom = r.prom /\ q.attempt = r.attempt
      BY <1>0, ConfirmedFields, Zenon DEF Same
    <2>3. Save("node", q) /\ r.state = "needs_confirmation" /\ r.step \in StepsOf("node")
      BY <1>0, <1>2, <2>2, Zenon DEF Confirm, DriverInv
    <2>4. \A n \in Nat : n >= n
      OBVIOUS
    <2> QED BY <2>1, <2>2, <2>3, <2>4, Zenon
  <1>3. CASE Resume
    <2>1. "stage" \in Forgets(r) => r.step \in RunSteps
      BY <1>3, Zenon DEF Forgets, FollowInv
    <2>2. RunSteps \cap FromPrepare("node") = {"companion_release"}
      BY Zenon DEF RunSteps, FromPrepare, FromPromote, PrepareStep, PromoteStep, Promoted
    <2>3. r.step = "companion_release" => "stage" \notin Forgets(r)
      BY StepRuns, Zenon DEF Forgets
    <2>4. /\ Resumed(r) \in Record /\ Resumed(r).state = "running" /\ Resumed(r).ask = r.ask
          /\ Resumed(r).attempt >= r.attempt /\ Resumed(r).prep = r.prep /\ Resumed(r).prom = r.prom
          /\ Resumed(r).approved = r.approved
          /\ Resumed(r).step = IF "stage" \in Forgets(r) THEN "edge_stage" ELSE r.step
      BY <1>0, ResumedFields, Zenon
    <2>5. r.ask = 0 /\ r.step \in StepsOf("node") /\ r.state # "running" /\ Save("node", Resumed(r))
      BY <1>0, <1>3, Zenon DEF Resume, DriverInv
    <2> QED BY <2>1, <2>2, <2>3, <2>4, <2>5, Zenon DEF StepsOf, NodeSteps
  <1> QED BY <1>1, <1>2, <1>3, Zenon

\* start, confirm and resume.
LEMMA CallsKeep ==
    ASSUME Base, FollowInv, Start \/ Confirm \/ Resume
    PROVE  Keeps
  <1> DEFINE r == disk["node"]
  <1>1. "node" \in Machines /\ InstallTypes /\ WorldTypes
    BY Zenon DEF Base, Machines
  <1>2. PICK q \in Record :
            /\ Save("node", q) /\ q.state = "running" /\ q.step \in StepsOf("node")
            /\ q.ask = 0 /\ r.state # "running" /\ q.attempt >= r.attempt
            /\ (r.prep => q.prep) /\ (r.prom => q.prom) /\ q.approved \in {0, r.ask, r.approved}
            /\ r.step \in FromPrepare("node") => q.step = r.step
            /\ q.step # r.step => q.approved = 0 \/ q.step = "edge_stage"
    BY CallsEffect, Zenon
  <1>3. drv' = DriveIn(drv, "node") /\ UNCHANGED <<releases, confirmations, world, toCompanion, toNode>>
    BY Zenon DEF Start, Confirm, Resume, relay
  <1>4. Writes("node", q)
    BY <1>1, <1>2, SaveFacts, Zenon DEF Writes
  <1>5. WorldTypes'
    <2>1. answer' \in Answers
      BY <1>1 DEF Start, Confirm, Resume, relay, WorldTypes, NoAnswer, Answers, States
    <2> QED BY <1>1, <1>3, <2>1, Zenon DEF WorldTypes, world
  <1> QED BY <1>1, <1>2, <1>3, <1>4, <1>5, StepWakes, Zenon

\* run() reads the record.
LEMMA ReadsKeep ==
    ASSUME Base, NEW m \in Machines, At(m, "read"), Loop(m, disk[m]), UNCHANGED <<disk, releases, confirmations>>,
           WorldTypes'
    PROVE  Keeps
  <1>1. InstallTypes /\ DriverInv(m) /\ disk[m] \in Record
    BY MachineTypes, Zenon DEF Base
  <1>2. PICK r \in Record : r = disk[m]
    BY <1>1, Zenon
  <1>3. r.state = "running" /\ r.step \in StepsOf(m) /\ r.ask = 0
    BY <1>1, <1>2, Driven, Zenon DEF At
  <1>4. Writes(m, r)
    BY <1>1, <1>2, Zenon DEF Writes, InstallTypes
  <1>5. {r.ask, r.approved} \subseteq {0} \cup Approvals(m)
    BY <1>2, Zenon DEF Approvals
  <1> QED BY <1>2, <1>3, <1>4, <1>5, StepLoops, Zenon

\* run() stops.
LEMMA StopsKeep ==
    ASSUME Base, NEW m \in Machines, (m = "node" /\ NodeStops) \/ (m = "windows" /\ CompanionStops)
    PROVE  Keeps
  <1>1. InstallTypes /\ WorldTypes /\ DriverInv(m)
    BY Zenon DEF Base
  <1>2. PICK q \in Record :
            /\ Writes(m, q) /\ Loop(m, q) /\ drv[m].pc = "stopped"
            /\ q.state = (IF drv[m].asks # 0 THEN "needs_confirmation" ELSE "failed")
            /\ q.ask = drv[m].asks /\ q.approved = 0 /\ q.step = disk[m].step /\ Same(q, disk[m])
    BY <1>1, StopsEffect, Zenon
  <1>3. disk[m].step \in StepsOf(m)
    BY <1>1, <1>2, Driven, Zenon
  <1>4. UNCHANGED <<releases, confirmations>>
    BY Zenon DEF NodeStops, CompanionStops
  <1>5. WorldTypes'
    <2>1. CASE NodeStops
      BY <1>1, <2>1, Zenon DEF NodeStops, WorldTypes, world, relay
    <2>2. CASE m = "windows" /\ CompanionStops
      <3>1. disk' = [disk EXCEPT ![m] = disk'[m]] /\ toNode' \in Sent(toNode, statusOf(disk'[m]))
        BY <1>1, <2>2, Zenon DEF CompanionStops, Save, Report, InstallTypes
      <3>2. toNode' \in Sent(toNode, statusOf(q))
        BY <1>2, <3>1, Zenon DEF Writes
      <3> QED BY <1>1, <2>2, <3>2, ReportTypes, Zenon DEF CompanionStops, WorldTypes
    <2> QED BY <2>1, <2>2, Zenon
  <1>6. {q.ask, q.approved} \subseteq {0} \cup Approvals(m)
    BY <1>2, Zenon DEF Approvals
  <1> QED BY <1>2, <1>3, <1>4, <1>5, <1>6, StepLoops, Zenon DEF Same

\* The next step, of the node.
LEMMA AdvanceKeeps ==
    ASSUME Base, Advance
    PROVE  Keeps
  <1>1. "node" \in Machines /\ InstallTypes /\ WorldTypes /\ DriverInv("node")
    BY Zenon DEF Base, Machines
  <1> DEFINE r == drv["node"].rec
  <1>2. PICK q \in Record :
            /\ Writes("node", q) /\ Loop("node", q) /\ drv["node"].pc = "returned" /\ InStep("node")
            /\ r.step \in NodeSteps
            /\ q.state = IF r.step = "windows_promote" THEN "succeeded" ELSE r.state
            /\ q.step = IF r.step = "windows_promote" THEN r.step ELSE NextOf[r.step]
            /\ q.step \in NodeSteps
            /\ q.ask = r.ask /\ q.approved = 0 /\ q.err = r.err /\ Same(q, r)
    BY <1>1, AdvanceEffect, Zenon
  <1>3. /\ r.state = "running" /\ r.step = disk["node"].step /\ r.ask = 0
        /\ r.prep = disk["node"].prep /\ r.prom = disk["node"].prom /\ r.attempt = disk["node"].attempt
    BY <1>1, <1>2, Driven, Zenon
  <1>4. /\ r.step \in FromPrepare("node") => q.step \in FromPrepare("node")
        /\ r.step \in FromPromote("node") => q.step \in FromPromote("node")
    BY <1>2 DEF FromPrepare, FromPromote, Promoted, PrepareStep, PromoteStep, NextOf
  <1>5. UNCHANGED <<releases, confirmations>> /\ WorldTypes'
    BY <1>1, Zenon DEF Advance, WorldTypes, world, relay
  <1> HIDE DEF r
  <1> QED BY <1>1, <1>2, <1>3, <1>4, <1>5, StepLoops, Zenon DEF Same, StepsOf

\* The next phase, of the companion.
LEMMA PhaseKeeps ==
    ASSUME Base, EndPhase \/ AlreadyInstalled
    PROVE  Keeps
  <1>1. "windows" \in Machines /\ InstallTypes /\ WorldTypes /\ DriverInv("windows")
    BY Zenon DEF Base, Machines
  <1> DEFINE r == drv["windows"].rec
  <1>2. PICK q \in Record :
            /\ Writes("windows", q) /\ Loop("windows", q) /\ InStep("windows")
            /\ toNode' \in Sent(toNode, statusOf(q))
            /\ q.step \in {r.step, "promote"} /\ q.state \in {r.state, "succeeded"}
            /\ q.ask = r.ask /\ q.approved = 0 /\ q.err = r.err /\ Same(q, r)
    BY <1>1, PhaseEffect, Zenon
  <1>3. /\ r.state = "running" /\ r.step = disk["windows"].step /\ r.ask = 0
        /\ r.prep = disk["windows"].prep /\ r.prom = disk["windows"].prom
        /\ r.attempt = disk["windows"].attempt /\ r.step \in StepsOf("windows")
    BY <1>1, <1>2, Driven, Zenon DEF InStep, Inside
  <1>4. UNCHANGED <<releases, confirmations, world, answer, toCompanion>>
    BY Zenon DEF EndPhase, AlreadyInstalled
  <1>5. WorldTypes'
    BY <1>1, <1>2, <1>4, ReportTypes, Zenon DEF WorldTypes
  <1>6. "promote" \in FromPrepare("windows") /\ "promote" \in FromPromote("windows") /\ "promote" \in StepsOf("windows")
    BY Zenon DEF FromPrepare, FromPromote, PromoteStep, StepsOf
  <1> HIDE DEF r
  <1> QED BY <1>1, <1>2, <1>3, <1>4, <1>5, <1>6, StepLoops DEF Same

\* The workflows are those the step began with.
SameRuns(m, d, r) ==
    /\ r.run = drv[m].rec.run /\ r.skipped = drv[m].rec.skipped
    /\ \/ d.run = disk[m].run /\ d.skipped = disk[m].skipped
       \/ d.run = drv[m].rec.run /\ d.skipped = drv[m].rec.skipped

\* What a step has seen when it returns.
Earned(m, r) ==
    /\ disk[m].step = PromoteStep(m) => active[m] = "new"
    /\ disk[m].step = "edge_stage" => r.skipped
    /\ disk[m].step \notin {"connector_tag", "connector_release"}
    /\ disk[m].step = "oracle_verify" => edge = "target"
    /\ disk[m].step = "companion_release" => published
    /\ disk[m].step = "windows_promote" => answer.state = "succeeded"

\* A step that goes on with its record, or throws.
Plain(m) ==
    \/ Throw(m, "other", 0) /\ UNCHANGED disk
    \/ \E d, r \in Record, pc \in Inside \ {"dispatch", "follow", "wait_edge"}, op \in Nat :
          /\ Writes(m, d) /\ Goto(m, pc, r, op) /\ Notes(m, d, r) /\ Fits(m, pc, d, r) /\ SameRuns(m, d, r)
          /\ pc = "returned" => Earned(m, r)

\* So a plain step is calm.
LEMMA PlainKeeps ==
    ASSUME Base, NEW m \in Machines, InStep(m), UNCHANGED <<releases, confirmations>>, WorldTypes', Plain(m)
    PROVE  Keeps
  <1>1. CASE Throw(m, "other", 0) /\ UNCHANGED disk
    BY <1>1, StepThrows, Zenon DEF Errors
  <1>2. CASE ~ (Throw(m, "other", 0) /\ UNCHANGED disk)
    BY <1>2, StepGoes, Zenon DEF Plain
  <1> QED BY <1>1, <1>2, Zenon

\* A step goes on and the record on disk is left alone.
LEMMA NothingNoted ==
    ASSUME InstallTypes, NEW m \in Machines, DriverInv(m), InStep(m), UNCHANGED disk, NEW r \in Record,
           Kept(r, drv[m].rec), r.prep = drv[m].rec.prep, r.prom = drv[m].rec.prom
    PROVE  /\ disk[m] \in Record /\ Writes(m, disk[m]) /\ Notes(m, disk[m], r)
           /\ drv[m].rec.step = disk[m].step
  <1>1. disk[m] \in Record /\ disk[m].state = "running"
    BY MachineTypes, Zenon DEF DriverInv, InStep, Inside
  <1>2. Mirrors(drv[m].rec, disk[m])
    BY Zenon DEF DriverInv
  <1>3. Writes(m, disk[m])
    BY Zenon DEF Writes, InstallTypes
  <1>4. Mirrors(r, disk[m])
    BY <1>2, Zenon DEF Mirrors, Kept
  <1> QED BY <1>1, <1>2, <1>3, <1>4, Zenon DEF Notes, Kept, Mirrors

\* A step returns the record it holds.
LEMMA PlainReturn ==
    ASSUME InstallTypes, NEW m \in Machines, DriverInv(m), InStep(m), UNCHANGED disk,
           NEW r \in Record, Kept(r, drv[m].rec), Same(r, drv[m].rec),
           NEW pc \in Inside \ {"dispatch", "follow", "wait_edge", "prepare", "promote"}, NEW op \in Nat,
           Goto(m, pc, r, op),
           pc \in {"prepared", "wait_task"} => disk[m].step = PrepareStep(m),
           pc = "wait_switch" => disk[m].step = PromoteStep(m),
           pc = "returned" => Earned(m, r)
    PROVE  Plain(m)
  <1>1. disk[m] \in Record /\ Writes(m, disk[m]) /\ Notes(m, disk[m], r)
    BY NothingNoted, Zenon DEF Same
  <1>2. SameRuns(m, disk[m], r)
    BY Zenon DEF SameRuns, Same
  <1>3. Fits(m, pc, disk[m], r)
    BY Zenon DEF Fits
  <1> QED BY <1>1, <1>2, <1>3, Zenon DEF Plain

\* A step saves its record before a call, and goes on.
LEMMA PlainSave ==
    ASSUME InstallTypes, NEW m \in Machines, DriverInv(m), InStep(m), NEW d \in Record, NEW r \in Record,
           Save(m, d), NEW pc \in Inside \ {"dispatch", "follow", "wait_edge", "returned"}, NEW op \in Nat,
           Goto(m, pc, r, op), Kept(r, drv[m].rec), d.approved \in {0, r.approved},
           d.state = r.state, d.step = r.step, d.ask = r.ask, d.err = r.err, Same(d, r),
           r.run = drv[m].rec.run, r.skipped = drv[m].rec.skipped,
           drv[m].rec.prep => r.prep, drv[m].rec.prom => r.prom,
           Fits(m, pc, d, r)
    PROVE  Plain(m)
  <1>1. Writes(m, d)
    BY SaveFacts, Zenon DEF Writes
  <1>2. disk[m].state = "running" /\ Mirrors(drv[m].rec, disk[m])
    BY Zenon DEF DriverInv, InStep, Inside
  <1>3. Mirrors(r, d)
    BY Zenon DEF Mirrors, Same
  <1>4. Notes(m, d, r)
    BY <1>2, <1>3, Zenon DEF Notes, Mirrors, Kept, Same
  <1>5. SameRuns(m, d, r)
    BY Zenon DEF SameRuns, Same
  <1> QED BY <1>1, <1>4, <1>5, Zenon DEF Plain

\* prepareOnce.
LEMMA PreparePlain ==
    ASSUME InstallTypes, NEW m \in Machines, DriverInv(m), At(m, "step"), Rec(m).step = PrepareStep(m),
           PrepareOnce(m)
    PROVE  Plain(m)
  <1>1. InStep(m) /\ disk[m].step = PrepareStep(m) /\ drv[m].rec.prep = disk[m].prep
    BY Driven, Zenon DEF InStep, Inside, At, Rec, Places
  <1>2. PICK rec \in Record : rec = drv[m].rec
    BY MachineTypes, Zenon
  <1>3. CASE rec.task # 0 /\ Goto(m, "wait_task", rec, rec.task) /\ UNCHANGED disk
    <2>1. Kept(rec, drv[m].rec) /\ Same(rec, drv[m].rec) /\ rec.task \in Nat
      BY <1>2, Zenon DEF Kept, Same, Record
    <2>2. "wait_task" \in Inside \ {"dispatch", "follow", "wait_edge", "prepare", "promote"}
      BY Zenon DEF Inside, Places
    <2> QED BY <1>1, <1>3, <2>1, <2>2, PlainReturn, Zenon
  <1>4. CASE Throw(m, "other", 0) /\ UNCHANGED disk
    BY <1>4, Zenon DEF Plain
  <1>5. CASE ~ rec.prep \/ rec.approved # 0
    <2> DEFINE r == [rec EXCEPT !.prep = TRUE]
               d == [Saved(m, rec) EXCEPT !.prep = TRUE]
    <2>1. /\ Saved(m, rec) \in Record /\ Saved(m, rec).approved \in {0, rec.approved}
          /\ Saved(m, rec).state = rec.state /\ Saved(m, rec).step = rec.step /\ Saved(m, rec).ask = rec.ask
          /\ Saved(m, rec).err = rec.err /\ Same(Saved(m, rec), rec)
      BY SavedFields, Zenon
    <2>2. r \in Record /\ Kept(r, rec) /\ r.prep /\ r.prom = rec.prom /\ r.skipped = rec.skipped /\ r.run = rec.run
      BY AskedFields, Zenon
    <2>3. /\ d \in Record /\ Kept(d, Saved(m, rec)) /\ d.prep /\ d.prom = Saved(m, rec).prom
          /\ d.skipped = Saved(m, rec).skipped /\ d.run = Saved(m, rec).run
      BY <2>1, AskedFields, Zenon
    <2> HIDE DEF d, r
    <2>4. /\ d.approved \in {0, r.approved} /\ d.state = r.state /\ d.step = r.step /\ d.ask = r.ask /\ d.err = r.err
          /\ d.prom = r.prom /\ d.attempt = r.attempt /\ d.skipped = r.skipped /\ d.run = r.run
      BY <2>1, <2>2, <2>3, Zenon DEF Kept, Same
    <2>5. Same(d, r)
      <3>1. d.prep = r.prep
        BY <2>2, <2>3, Zenon DEF Record
      <3> QED BY <2>4, <3>1, Zenon DEF Same
    <2>6. "prepare" \in Inside \ {"dispatch", "follow", "wait_edge", "returned"}
      BY Zenon DEF Inside, Places
    <2>7. Fits(m, "prepare", d, r)
      BY <1>1, <1>2, <1>5, <2>2, <2>3, <2>4, Zenon DEF Fits, Kept, Rec
    <2>8. CASE Save(m, d) /\ Goto(m, "prepare", r, 0)
      BY <1>1, <1>2, <2>2, <2>3, <2>4, <2>5, <2>6, <2>7, <2>8, PlainSave
    <2> QED BY <1>2, <1>3, <1>4, <2>8, Zenon DEF PrepareOnce, Rec, d, r
  <1> QED BY <1>2, <1>3, <1>4, <1>5, Zenon DEF PrepareOnce, Rec

\* promoteOnce.
LEMMA PromotePlain ==
    ASSUME InstallTypes, NEW m \in Machines, DriverInv(m), At(m, "step"), Rec(m).step = PromoteStep(m),
           PromoteOnce(m)
    PROVE  Plain(m)
  <1>1. InStep(m) /\ disk[m].step = PromoteStep(m) /\ drv[m].rec.prom = disk[m].prom
    BY Driven, Zenon DEF InStep, Inside, At, Rec, Places
  <1>2. PICK rec \in Record : rec = drv[m].rec
    BY MachineTypes, Zenon
  <1>3. CASE Goto(m, "wait_switch", rec, 0) /\ UNCHANGED disk
    <2>1. Kept(rec, drv[m].rec) /\ Same(rec, drv[m].rec)
      BY <1>2, Zenon DEF Kept, Same
    <2>2. "wait_switch" \in Inside \ {"dispatch", "follow", "wait_edge", "prepare", "promote"}
      BY Zenon DEF Inside, Places
    <2> QED BY <1>1, <1>3, <2>1, <2>2, PlainReturn, Zenon
  <1>4. CASE ~ rec.prom \/ rec.approved # 0
    <2> DEFINE r == [rec EXCEPT !.prom = TRUE]
               d == [Saved(m, rec) EXCEPT !.prom = TRUE]
    <2>1. /\ Saved(m, rec) \in Record /\ Saved(m, rec).approved \in {0, rec.approved}
          /\ Saved(m, rec).state = rec.state /\ Saved(m, rec).step = rec.step /\ Saved(m, rec).ask = rec.ask
          /\ Saved(m, rec).err = rec.err /\ Same(Saved(m, rec), rec)
      BY SavedFields, Zenon
    <2>2. r \in Record /\ Kept(r, rec) /\ r.prom /\ r.prep = rec.prep /\ r.skipped = rec.skipped /\ r.run = rec.run
      BY AskedFields, Zenon
    <2>3. /\ d \in Record /\ Kept(d, Saved(m, rec)) /\ d.prom /\ d.prep = Saved(m, rec).prep
          /\ d.skipped = Saved(m, rec).skipped /\ d.run = Saved(m, rec).run
      BY <2>1, AskedFields, Zenon
    <2> HIDE DEF d, r
    <2>4. /\ d.approved \in {0, r.approved} /\ d.state = r.state /\ d.step = r.step /\ d.ask = r.ask /\ d.err = r.err
          /\ d.prep = r.prep /\ d.attempt = r.attempt /\ d.skipped = r.skipped /\ d.run = r.run
      BY <2>1, <2>2, <2>3, Zenon DEF Kept, Same
    <2>5. Same(d, r)
      <3>1. d.prom = r.prom
        BY <2>2, <2>3, Zenon DEF Record
      <3> QED BY <2>4, <3>1, Zenon DEF Same
    <2>6. "promote" \in Inside \ {"dispatch", "follow", "wait_edge", "returned"}
      BY Zenon DEF Inside, Places
    <2>7. Fits(m, "promote", d, r)
      BY <1>1, <1>2, <1>4, <2>2, <2>3, <2>4, Zenon DEF Fits, Kept, Rec
    <2>8. Save(m, d) /\ Goto(m, "promote", r, 0)
      BY <1>2, <1>4, Zenon DEF PromoteOnce, Rec, d, r
    <2> QED BY <1>1, <1>2, <2>2, <2>3, <2>4, <2>5, <2>6, <2>7, <2>8, PlainSave
  <1> QED BY <1>2, <1>3, <1>4, Zenon DEF PromoteOnce, Rec

\* The waits of the two phases.
LEMMA WaitsPlain ==
    ASSUME InstallTypes, NEW m \in Machines, DriverInv(m),
           PrepareAnswered(m) \/ AwaitTask(m) \/ AwaitSwitch(m) \/ GiveUp(m)
    PROVE  Plain(m) /\ InStep(m)
  <1>1. InStep(m)
    BY Zenon DEF PrepareAnswered, AwaitTask, AwaitSwitch, GiveUp, At, InStep, Inside, Places
  <1>2. PICK rec \in Record : rec = drv[m].rec /\ Kept(rec, drv[m].rec) /\ Same(rec, drv[m].rec)
    BY MachineTypes, Zenon DEF Kept, Same
  <1>3. PICK n \in Nat : n = drv[m].op
    BY MachineTypes, Zenon
  <1> DEFINE r == [rec EXCEPT !.task = n]
  <1>4. r \in Record /\ Kept(r, rec) /\ Same(r, rec)
    BY AskedFields, Zenon
  <1>5. CASE Throw(m, "other", 0) /\ UNCHANGED disk
    BY <1>1, <1>5, Zenon DEF Plain
  <1>6. CASE PrepareAnswered(m)
    <2>1. Save(m, Saved(m, r)) /\ Goto(m, "wait_task", r, n) /\ drv[m].pc = "prepared"
      BY <1>2, <1>3, <1>6, Zenon DEF PrepareAnswered, Rec, At
    <2> HIDE DEF r
    <2>2. PICK d \in Record : d = Saved(m, r)
      BY <1>4, SavedFields, Zenon
    <2>3. /\ d.approved \in {0, r.approved} /\ d.state = r.state /\ d.step = r.step
          /\ d.ask = r.ask /\ d.err = r.err /\ Same(d, r)
      BY <1>4, <2>2, SavedFields, Zenon
    <2>4. disk[m].step = PrepareStep(m) /\ drv[m].rec.step = disk[m].step
      BY <2>1, <1>1, Zenon DEF DriverInv, Mirrors
    <2>5. Fits(m, "wait_task", d, r)
      BY <1>2, <1>4, <2>3, <2>4, Zenon DEF Fits, Kept
    <2>6. "wait_task" \in Inside \ {"dispatch", "follow", "wait_edge", "returned"}
      BY Zenon DEF Inside, Places
    <2>7. /\ Kept(r, drv[m].rec) /\ r.run = drv[m].rec.run /\ r.skipped = drv[m].rec.skipped
          /\ r.prep = drv[m].rec.prep /\ r.prom = drv[m].rec.prom
      BY <1>2, <1>4, Zenon DEF Same
    <2>8. Save(m, d)
      BY <2>1, <2>2, Zenon
    <2>9. Plain(m)
      BY <1>1, <1>4, <2>1, <2>3, <2>5, <2>6, <2>7, <2>8, PlainSave
    <2> QED BY <1>1, <2>9, Zenon
  <1>7. CASE AwaitTask(m) /\ ~ Throw(m, "other", 0)
    <2>1. Goto(m, "returned", r, 0) /\ drv[m].pc = "wait_task" /\ UNCHANGED disk
      BY <1>2, <1>3, <1>7, Zenon DEF AwaitTask, Rec, At, Return
    <2> HIDE DEF r
    <2>2. disk[m].step = PrepareStep(m) /\ Earned(m, r)
      BY <2>1, Zenon DEF DriverInv, PrepareStep, PromoteStep, Earned
    <2>3. Kept(r, drv[m].rec) /\ Same(r, drv[m].rec)
      BY <1>2, <1>4, Zenon
    <2>4. "returned" \in Inside \ {"dispatch", "follow", "wait_edge", "prepare", "promote"}
      BY Zenon DEF Inside, Places
    <2> QED BY <1>1, <1>4, <2>1, <2>2, <2>3, <2>4, PlainReturn, Zenon
  <1>8. CASE AwaitSwitch(m) /\ ~ Throw(m, "other", 0)
    <2>1. Goto(m, "returned", rec, 0) /\ active[m] = "new" /\ drv[m].pc = "wait_switch" /\ UNCHANGED disk
      BY <1>2, <1>8, Zenon DEF AwaitSwitch, Rec, Return, At
    <2>2. "returned" \in Inside \ {"dispatch", "follow", "wait_edge", "prepare", "promote"}
      BY Zenon DEF Inside, Places
    <2>3. Earned(m, rec)
      BY <2>1, Zenon DEF DriverInv, PromoteStep, Earned
    <2> QED BY <1>1, <1>2, <2>1, <2>2, <2>3, PlainReturn, Zenon
  <1> QED BY <1>5, <1>6, <1>7, <1>8, Zenon DEF AwaitTask, AwaitSwitch, GiveUp

\* The steps of the two runners that wait, skip, look or give up.
LEMMA QuietPlain ==
    ASSUME Base, NEW m \in Machines,
           \/ m = "node" /\ (AwaitEdge \/ SkipWorkflow \/ OracleVerify \/ NodeGivesUp)
           \/ m = "windows" /\ CompanionGivesUp
    PROVE  Plain(m) /\ InStep(m) /\ UNCHANGED <<disk, releases, confirmations, faults, world, relay, resumes>>
  <1>1. InStep(m)
    BY Zenon DEF AwaitEdge, SkipWorkflow, OracleVerify, NodeGivesUp, CompanionGivesUp, AtStep, At, InStep,
       Inside, Places
  <1>2. PICK rec \in Record : rec = drv[m].rec /\ Kept(rec, drv[m].rec) /\ Same(rec, drv[m].rec)
    BY MachineTypes, Zenon DEF Kept, Same, Base
  <1>3. UNCHANGED <<disk, releases, confirmations, faults, world, relay, resumes>>
    BY Zenon DEF AwaitEdge, SkipWorkflow, OracleVerify, NodeGivesUp, CompanionGivesUp
  <1>4. CASE Throw(m, "other", 0)
    BY <1>1, <1>3, <1>4, Zenon DEF Plain
  <1>5. CASE m = "node" /\ Return(m, rec)
                /\ (AwaitEdge \/ SkipWorkflow \/ OracleVerify)
    <2>1. DriverInv("node")
      BY <1>5, Zenon DEF Base
    <2>2. Earned(m, rec)
      <3>1. rec.step = disk[m].step /\ disk[m].step \in NodeSteps
        BY <1>1, <1>2, <1>5, <2>1, Driven, Zenon DEF StepsOf, InStep, Inside
      <3>2. CASE AwaitEdge
        BY <1>5, <2>1, <3>2, Zenon DEF AwaitEdge, At, DriverInv, PromoteStep, Earned
      <3>3. CASE SkipWorkflow
        BY <1>2, <1>5, <3>1, <3>3, Zenon DEF SkipWorkflow, EdgeSkipped, CompanionOut, Rec, PromoteStep, Earned
      <3>4. CASE OracleVerify
        <4>1. drv' = [drv EXCEPT !["node"] = Driver("returned", rec, 0)]
          BY <1>5, Zenon DEF Return, Goto
        <4>2. edge = "target"
          <5>1. Driver("returned", rec, 0) # Stopped("other", 0)
            BY Zenon DEF Driver, Stopped
          <5>2. "node" \in DOMAIN drv
            BY Zenon DEF Base, InstallTypes, Machines
          <5> QED BY <1>5, <3>4, <4>1, <5>1, <5>2, Zenon DEF OracleVerify, Throw
        <4> QED BY <1>2, <1>5, <3>1, <3>4, <4>2, Zenon DEF OracleVerify, AtStep, Rec, PromoteStep, Earned
      <3> QED BY <1>5, <3>2, <3>3, <3>4, Zenon
    <2>3. "returned" \in Inside \ {"dispatch", "follow", "wait_edge", "prepare", "promote"}
      BY Zenon DEF Inside, Places
    <2>4. Plain(m)
      BY <1>1, <1>2, <1>3, <1>5, <2>1, <2>2, <2>3, PlainReturn, Zenon DEF Return, Base
    <2> QED BY <1>1, <1>3, <2>4, Zenon
  <1> QED BY <1>2, <1>4, <1>5, Zenon
             DEF AwaitEdge, SkipWorkflow, OracleVerify, NodeGivesUp, CompanionGivesUp, Rec

\* What the node's driver holds in a step.
LEMMA NodeInStep ==
    ASSUME Base, InStep("node")
    PROVE  /\ "node" \in Machines /\ InstallTypes /\ WorldTypes /\ DriverInv("node")
           /\ drv["node"].rec \in Record /\ drv["node"].rec.step = disk["node"].step /\ disk["node"].step \in NodeSteps
           /\ disk["node"] \in Record /\ disk["node"].state = "running"
           /\ UNCHANGED disk => Writes("node", disk["node"]) /\ Notes("node", disk["node"], drv["node"].rec)
  <1>1. "node" \in Machines /\ InstallTypes /\ WorldTypes /\ DriverInv("node")
    BY Zenon DEF Base, Machines
  <1>2. drv["node"].rec \in Record /\ disk["node"] \in Record
    BY <1>1, MachineTypes, Zenon
  <1>3. drv["node"].rec.step = disk["node"].step /\ disk["node"].step \in NodeSteps /\ disk["node"].state = "running"
    BY <1>1, Driven, Zenon DEF InStep, Inside, StepsOf
  <1>4. Kept(drv["node"].rec, drv["node"].rec)
    BY Zenon DEF Kept
  <1> QED BY <1>1, <1>2, <1>3, <1>4, NothingNoted, Zenon

\* precheck.
LEMMA PrecheckEffect ==
    ASSUME Base, Precheck
    PROVE  /\ InStep("node") /\ disk["node"].step = "precheck" /\ drv["node"].pc = "step"
           /\ UNCHANGED <<disk, releases, confirmations, faults, world, relay, resumes>>
           /\ \/ Throw("node", "other", 0)
              \/ \E r \in Record : /\ Goto("node", "returned", r, 0) /\ Notes("node", disk["node"], r)
                                   /\ r.run = drv["node"].rec.run
  <1>1. InStep("node") /\ drv["node"].pc = "step" /\ drv["node"].rec.step = "precheck"
    BY Zenon DEF Precheck, AtStep, At, Rec, InStep, Inside, Places
  <1>2. PICK rec \in Record : rec = drv["node"].rec
    BY <1>1, NodeInStep, Zenon
  <1>3. PICK b \in BOOLEAN : b = (edge = "target")
    BY Zenon
  <1>4. PICK r \in Record : /\ r = [rec EXCEPT !.skipped = b]
                            /\ Kept(r, rec) /\ r.prep = rec.prep /\ r.prom = rec.prom /\ r.run = rec.run
    <2> DEFINE q == [rec EXCEPT !.skipped = b]
    <2>1. q \in Record /\ Kept(q, rec) /\ q.prep = rec.prep /\ q.prom = rec.prom /\ q.run = rec.run
      BY Zenon DEF Record, Kept
    <2> QED BY <2>1, Zenon
  <1>5. UNCHANGED <<disk, releases, confirmations, faults, world, relay, resumes>>
    BY Zenon DEF Precheck
  <1>6. Notes("node", disk["node"], r)
    BY <1>1, <1>2, <1>4, <1>5, NodeInStep, NothingNoted, Zenon
  <1>7. Goto("node", "returned", r, 0) \/ Throw("node", "other", 0)
    BY <1>2, <1>3, <1>4, Zenon DEF Precheck, Return, Rec
  <1>8. disk["node"].step = "precheck"
    BY <1>1, NodeInStep, Zenon
  <1> QED BY <1>1, <1>2, <1>4, <1>5, <1>6, <1>7, <1>8, Zenon

\* workflow(), up to its dispatch.
LEMMA BeginEffect ==
    ASSUME Base, BeginWorkflow
    PROVE  LET rec == drv["node"].rec
               k == STEP_RUN[disk["node"].step]
           IN  /\ InStep("node") /\ drv["node"].pc = "step" /\ disk["node"].step \in RunSteps /\ k \in Workflows
               /\ disk["node"].step = "edge_activate" => ~ rec.skipped
               /\ UNCHANGED <<releases, confirmations, faults, edge, contractPromoted, published, relay, resumes>>
               /\ \/ /\ rec.run[k] = 0 /\ wf' = [wf EXCEPT ![k] = Append(@, "unsent")]
                     /\ Goto("node", "dispatch", rec, Len(wf[k]) + 1)
                     /\ \E d \in Record : /\ Writes("node", d) /\ Notes("node", d, rec) /\ d.skipped = rec.skipped
                                          /\ d.err = rec.err
                                          /\ d.run = [rec.run EXCEPT ![k] = Len(wf[k]) + 1]
                  \/ rec.run[k] # 0 /\ UNCHANGED <<disk, wf>> /\ Goto("node", "follow", rec, rec.run[k])
  <1>1. InStep("node") /\ drv["node"].pc = "step" /\ drv["node"].rec.step \in RunSteps
    BY StepRuns, Zenon DEF BeginWorkflow, At, Rec, InStep, Inside, Places
  <1>2. /\ "node" \in Machines /\ InstallTypes /\ WorldTypes /\ DriverInv("node")
        /\ drv["node"].rec.step = disk["node"].step
    BY <1>1, NodeInStep, Zenon
  <1>3. PICK rec \in Record : rec = drv["node"].rec
    BY <1>1, NodeInStep, Zenon
  <1>4. PICK k \in Workflows : k = STEP_RUN[disk["node"].step] /\ k = STEP_RUN[rec.step]
    BY <1>1, <1>2, <1>3, StepRuns, Zenon
  <1>5. PICK op \in Nat : op = Len(wf[k]) + 1
    BY <1>2 DEF WorldTypes
  <1>6. PICK d \in Record : /\ d = [rec EXCEPT !.run[k] = op]
                            /\ Kept(d, rec) /\ d.prep = rec.prep /\ d.prom = rec.prom
                            /\ d.skipped = rec.skipped /\ d.run = [rec.run EXCEPT ![k] = op]
    BY RunFields
  <1>7. UNCHANGED <<releases, confirmations, faults, edge, contractPromoted, published, relay, resumes>>
    BY Zenon DEF BeginWorkflow
  <1>8. rec.step = "edge_activate" => ~ rec.skipped
    BY <1>3, Zenon DEF BeginWorkflow, EdgeSkipped, Rec
  <1>9. CASE rec.run[k] = 0
    <2>1. /\ Save("node", d) /\ wf' = [wf EXCEPT ![k] = Append(@, "unsent")]
          /\ Goto("node", "dispatch", rec, op)
      BY <1>3, <1>4, <1>5, <1>6, <1>9, Zenon DEF BeginWorkflow, Rec
    <2>2. Writes("node", d)
      BY <1>2, <2>1, SaveFacts, Zenon DEF Writes
    <2>3. Mirrors(rec, disk["node"]) /\ disk["node"].state = "running"
      BY <1>1, <1>2, <1>3, Zenon DEF DriverInv
    <2>4. Mirrors(rec, d)
      BY <1>6, Zenon DEF Mirrors, Kept
    <2>5. Notes("node", d, rec) /\ d.err = rec.err
      BY <1>3, <1>6, <2>3, <2>4, Zenon DEF Notes, Mirrors, Kept
    <2>6. \E e \in Record : /\ Writes("node", e) /\ Notes("node", e, rec) /\ e.skipped = rec.skipped
                            /\ e.err = rec.err /\ e.run = [rec.run EXCEPT ![k] = op]
      BY <1>6, <2>2, <2>5, Zenon
    <2> QED BY <1>1, <1>2, <1>3, <1>4, <1>5, <1>7, <1>8, <1>9, <2>1, <2>6, Zenon
  <1>10. CASE rec.run[k] # 0
    <2>1. UNCHANGED <<disk, wf>> /\ Goto("node", "follow", rec, rec.run[k])
      BY <1>3, <1>4, <1>10, Zenon DEF BeginWorkflow, Rec
    <2> QED BY <1>1, <1>2, <1>3, <1>4, <1>7, <1>8, <1>10, <2>1, Zenon
  <1> QED BY <1>9, <1>10, Zenon

\* workflow(), once the run is over.
LEMMA FollowEffect ==
    ASSUME Base, FollowWorkflow
    PROVE  LET rec == drv["node"].rec
               k == STEP_RUN[disk["node"].step]
               op == drv["node"].op
           IN  /\ InStep("node") /\ drv["node"].pc = "follow" /\ disk["node"].step \in RunSteps /\ k \in Workflows
               /\ UNCHANGED <<disk, releases, confirmations, faults, world, relay, resumes>>
               /\ \/ /\ wf[k][op] = "success"
                     /\ \E r \in Record :
                          /\ Notes("node", disk["node"], r) /\ r.skipped = rec.skipped
                          /\ r.run = [rec.run EXCEPT ![k] = op]
                          /\ \/ k = "activate" /\ Goto("node", "wait_edge", r, 0)
                             \/ k # "activate" /\ Goto("node", "returned", r, 0)
                  \/ /\ wf[k][op] = "failure" /\ k = "companion" /\ published
                     /\ Goto("node", "returned", rec, 0)
                  \/ wf[k][op] = "failure" /\ Throw("node", "workflow_failed", 0)
  <1>1. InStep("node") /\ drv["node"].pc = "follow"
    BY Zenon DEF FollowWorkflow, At, InStep, Inside, Places
  <1>2. /\ "node" \in Machines /\ InstallTypes /\ WorldTypes /\ DriverInv("node")
        /\ drv["node"].rec.step = disk["node"].step
    BY <1>1, NodeInStep, Zenon
  <1>3. disk["node"].step \in RunSteps
    BY <1>1, <1>2, Zenon DEF DriverInv
  <1>4. PICK rec \in Record : rec = drv["node"].rec
    BY <1>1, NodeInStep, Zenon
  <1>5. PICK k \in Workflows : k = STEP_RUN[disk["node"].step] /\ k = STEP_RUN[rec.step]
    BY <1>2, <1>3, <1>4, StepRuns, Zenon
  <1>6. PICK op \in Nat : op = drv["node"].op
    BY <1>2, MachineTypes, Zenon
  <1>7. PICK r \in Record : /\ r = [rec EXCEPT !.run[k] = op]
                            /\ Kept(r, rec) /\ r.prep = rec.prep /\ r.prom = rec.prom
                            /\ r.skipped = rec.skipped /\ r.run = [rec.run EXCEPT ![k] = op]
    BY RunFields
  <1>8. UNCHANGED <<disk, releases, confirmations, faults, world, relay, resumes>>
    BY Zenon DEF FollowWorkflow
  <1>9. Notes("node", disk["node"], r)
    BY <1>1, <1>2, <1>4, <1>7, <1>8, NothingNoted, Zenon
  <1>10. \/ wf[k][op] = "success" /\ k = "activate" /\ Goto("node", "wait_edge", r, 0)
         \/ wf[k][op] = "success" /\ k # "activate" /\ Goto("node", "returned", r, 0)
         \/ wf[k][op] = "failure" /\ k = "companion" /\ published /\ Goto("node", "returned", rec, 0)
         \/ wf[k][op] = "failure" /\ Throw("node", "workflow_failed", 0)
    BY <1>4, <1>5, <1>6, <1>7, Zenon DEF FollowWorkflow, Return, Rec
  <1> QED BY <1>1, <1>3, <1>4, <1>5, <1>6, <1>7, <1>8, <1>9, <1>10, Zenon

\* A run, or a task, that changes.
LEMMA SeqSet ==
    ASSUME NEW S, NEW s \in Seq(S), NEW n, NEW v \in S
    PROVE  LET z == [s EXCEPT ![n] = v] IN
           /\ z \in Seq(S) /\ Len(z) = Len(s) /\ DOMAIN z = DOMAIN s
           /\ \A i \in 1..Len(s) : z[i] = IF i = n THEN v ELSE s[i]
  <1>1. /\ s \in [1..Len(s) -> S] /\ DOMAIN s = 1..Len(s) /\ Len(s) \in Nat
    OBVIOUS
  <1>2. [s EXCEPT ![n] = v] \in [1..Len(s) -> S]
    BY <1>1, Zenon
  <1>3. [s EXCEPT ![n] = v] \in Seq(S) /\ Len([s EXCEPT ![n] = v]) = Len(s)
    BY <1>1, <1>2
  <1> QED BY <1>1, <1>3, Zenon

\* A run of a workflow that changes.
LEMMA RunSet ==
    ASSUME WorldTypes, NEW k \in Workflows, NEW n, NEW v \in Runs, wf' = [wf EXCEPT ![k][n] = v]
    PROVE  /\ wf' \in [Workflows -> Seq(Runs)] /\ Len(wf'[k]) = Len(wf[k])
           /\ \A i \in 1..Len(wf[k]) : wf'[k][i] = IF i = n THEN v ELSE wf[k][i]
           /\ \A j \in Workflows \ {k} : wf'[j] = wf[j]
  <1>1. wf \in [Workflows -> Seq(Runs)] /\ wf[k] \in Seq(Runs)
    BY Zenon DEF WorldTypes
  <1>2. PICK z : z = [wf[k] EXCEPT ![n] = v]
    BY Zenon
  <1>3. z \in Seq(Runs) /\ Len(z) = Len(wf[k]) /\ \A i \in 1..Len(wf[k]) : z[i] = IF i = n THEN v ELSE wf[k][i]
    BY <1>1, <1>2, SeqSet
  <1>4. wf' = [wf EXCEPT ![k] = z]
    BY <1>2, Zenon
  <1> QED BY <1>1, <1>3, <1>4, Zenon

\* How many runs of a workflow were dispatched.
LEMMA RunCounts ==
    ASSUME WorldTypes
    PROVE  \A k \in Workflows : Len(wf[k]) \in Nat /\ Len(wf[k]) + 1 \in Nat
  <1>1. \A k \in Workflows : Len(wf[k]) \in Nat
    BY DEF WorldTypes
  <1> QED BY <1>1

\* The steps of the node that follow workflows.
LEMMA WorkflowStepsKeep ==
    ASSUME Base, Precheck \/ BeginWorkflow \/ Dispatch \/ FollowWorkflow
    PROVE  Keeps
  <1> DEFINE rec == drv["node"].rec
             k == STEP_RUN[disk["node"].step]
  <1>1. /\ "node" \in Machines /\ "other" \in Errors /\ "workflow_failed" \in Errors /\ 0 \in Nat
        /\ {"dispatch", "follow", "wait_edge", "returned"} \subseteq Inside
    BY Zenon DEF Machines, Errors, Inside, Places
  <1>2. CASE Precheck
    <2>1. /\ InStep("node") /\ UNCHANGED <<disk, releases, confirmations, faults, world, relay, resumes>>
          /\ \/ Throw("node", "other", 0)
             \/ \E r \in Record : Goto("node", "returned", r, 0) /\ Notes("node", disk["node"], r)
      BY <1>2, PrecheckEffect, Zenon
    <2>2. WorldTypes' /\ disk["node"] \in Record /\ Writes("node", disk["node"])
      BY <2>1, NodeInStep, Zenon DEF WorldTypes, world, relay
    <2>3. \A r : Fits("node", "returned", disk["node"], r)
      BY Zenon DEF Fits
    <2>4. CASE Throw("node", "other", 0)
      BY <1>1, <2>1, <2>2, <2>4, StepThrows, Zenon
    <2> QED BY <1>1, <2>1, <2>2, <2>3, <2>4, StepGoes, Zenon
  <1>3. CASE BeginWorkflow
    <2>1. /\ InStep("node") /\ disk["node"].step \in RunSteps /\ k \in Workflows
          /\ UNCHANGED <<releases, confirmations, faults, edge, contractPromoted, published, relay, resumes>>
          /\ \/ /\ wf' = [wf EXCEPT ![k] = Append(@, "unsent")]
                /\ Goto("node", "dispatch", rec, Len(wf[k]) + 1)
                /\ \E d \in Record : Writes("node", d) /\ Notes("node", d, rec)
             \/ UNCHANGED <<disk, wf>> /\ Goto("node", "follow", rec, rec.run[k])
      BY <1>3, BeginEffect, Zenon
    <2>2. /\ WorldTypes /\ rec \in Record /\ disk["node"] \in Record
          /\ UNCHANGED disk => Writes("node", disk["node"]) /\ Notes("node", disk["node"], rec)
      BY <2>1, NodeInStep, Zenon
    <2>3. rec.run[k] \in Nat
      BY <2>1, <2>2, Zenon DEF Record
    <2>4. Len(wf[k]) + 1 \in Nat
      BY <2>1, <2>2, RunCounts, Zenon
    <2>5. wf' \in [Workflows -> Seq(Runs)]
      <3>1. wf \in [Workflows -> Seq(Runs)] /\ "unsent" \in Runs
        BY <2>2, Zenon DEF WorldTypes, Runs
      <3>2. \A j \in Workflows : Append(wf[j], "unsent") \in Seq(Runs)
        BY <3>1
      <3> HIDE DEF k
      <3> QED BY <2>1, <3>1, <3>2, Zenon
    <2>6. WorldTypes'
      BY <2>1, <2>2, <2>5, Zenon DEF WorldTypes, relay
    <2> HIDE DEF rec, k
    <2>7. \A d : d.step = disk["node"].step => Fits("node", "dispatch", d, rec) /\ Fits("node", "follow", d, rec)
      BY <2>1, Zenon DEF Fits
    <2>8. CASE Goto("node", "dispatch", rec, Len(wf[k]) + 1) /\ \E d \in Record : Writes("node", d) /\ Notes("node", d, rec)
      <3>1. PICK d \in Record : Writes("node", d) /\ Notes("node", d, rec)
        BY <2>8, Zenon
      <3>2. Fits("node", "dispatch", d, rec)
        BY <2>7, <3>1, Zenon DEF Notes
      <3> QED BY <1>1, <2>1, <2>2, <2>4, <2>6, <2>8, <3>1, <3>2, StepGoes
    <2>9. CASE UNCHANGED <<disk, wf>> /\ Goto("node", "follow", rec, rec.run[k])
      BY <1>1, <2>1, <2>2, <2>3, <2>6, <2>7, <2>9, StepGoes
    <2> QED BY <2>1, <2>8, <2>9, Zenon
  <1>4. CASE Dispatch
    <2>1. InStep("node") /\ drv["node"].pc = "dispatch" /\ UNCHANGED <<disk, releases, confirmations, edge, contractPromoted, published, relay>>
      BY <1>4, Zenon DEF Dispatch, At, InStep, Inside, Places
    <2>2. /\ WorldTypes /\ rec \in Record /\ disk["node"] \in Record /\ InstallTypes /\ rec.step = disk["node"].step
          /\ Writes("node", disk["node"]) /\ Notes("node", disk["node"], rec) /\ DriverInv("node")
      BY <2>1, NodeInStep, Zenon
    <2>3. disk["node"].step \in RunSteps /\ k \in Workflows
      BY <2>1, <2>2, StepRuns, Zenon DEF DriverInv
    <2>4. wf' \in [Workflows -> Seq(Runs)]
      <3>1. "running" \in Runs /\ wf' \in {wf, [wf EXCEPT ![k][drv["node"].op] = "running"]}
        BY <1>4, <2>2, Zenon DEF Dispatch, Rec, Runs
      <3> QED BY <2>2, <2>3, <3>1, RunSet, Zenon DEF WorldTypes
    <2>5. WorldTypes'
      BY <2>1, <2>2, <2>4, Zenon DEF WorldTypes, relay
    <2>6. Fits("node", "follow", disk["node"], rec)
      BY <2>3, Zenon DEF Fits
    <2>7. drv["node"].op \in Nat
      BY <1>1, <2>2, MachineTypes, Zenon
    <2>8. CASE Throw("node", "other", 0)
      BY <1>1, <2>1, <2>5, <2>8, StepThrows, Zenon
    <2>9. CASE Goto("node", "follow", rec, drv["node"].op)
      BY <1>1, <2>1, <2>2, <2>5, <2>6, <2>7, <2>9, StepGoes, Zenon
    <2> QED BY <1>4, <2>8, <2>9, Zenon DEF Dispatch, Rec
  <1>5. CASE FollowWorkflow
    <2>1. /\ InStep("node") /\ disk["node"].step \in RunSteps
          /\ UNCHANGED <<disk, releases, confirmations, faults, world, relay, resumes>>
          /\ \/ \E r \in Record :
                   /\ Notes("node", disk["node"], r)
                   /\ \/ Goto("node", "wait_edge", r, 0) /\ k = "activate"
                      \/ Goto("node", "returned", r, 0)
             \/ Goto("node", "returned", rec, 0)
             \/ Throw("node", "workflow_failed", 0)
      BY <1>5, FollowEffect, Zenon
    <2>2. /\ rec \in Record /\ disk["node"] \in Record /\ WorldTypes' /\ Writes("node", disk["node"])
          /\ Notes("node", disk["node"], rec)
      BY <2>1, NodeInStep, Zenon DEF WorldTypes, world, relay
    <2> HIDE DEF rec, k
    <2>3. \A r : /\ k = "activate" => Fits("node", "wait_edge", disk["node"], r)
                /\ Fits("node", "returned", disk["node"], r)
      BY <2>1, StepRuns, Zenon DEF Fits, k, RunSteps
    <2>4. CASE Throw("node", "workflow_failed", 0)
      BY <1>1, <2>1, <2>2, <2>4, StepThrows, Zenon
    <2>5. ASSUME NEW r \in Record, Notes("node", disk["node"], r),
                 (Goto("node", "wait_edge", r, 0) /\ k = "activate") \/ Goto("node", "returned", r, 0)
          PROVE  Keeps
      BY <1>1, <2>1, <2>2, <2>3, <2>5, StepGoes, Zenon
    <2> QED BY <2>1, <2>2, <2>4, <2>5, Zenon
  <1> QED BY <1>2, <1>3, <1>4, <1>5, Zenon

\* The poll of the companion.
LEMMA PollKeeps ==
    ASSUME Base, PollWindows
    PROVE  Keeps
  <1> DEFINE rec == drv["node"].rec
  <1>1. InStep("node") /\ rec.step \in WindowsSteps /\ UNCHANGED <<disk, releases, confirmations, world, answer, toNode>>
    BY Zenon DEF PollWindows, At, Rec, InStep, Inside, Places
  <1>2. /\ "node" \in Machines /\ InstallTypes /\ WorldTypes /\ rec \in Record /\ rec.step = disk["node"].step
        /\ disk["node"] \in Record /\ Writes("node", disk["node"]) /\ Notes("node", disk["node"], rec)
    BY <1>1, NodeInStep, Zenon
  <1>3. WorldTypes'
    <2>1. [approved |-> rec.approved, attempt |-> rec.attempt] \in Requests
      BY <1>2, Zenon DEF Requests, Record
    <2>2. toCompanion' \in Seq(Requests)
      BY <1>2, <2>1, SentTypes, Zenon DEF PollWindows, Rec, WorldTypes
    <2> QED BY <1>1, <1>2, <2>2, Zenon DEF WorldTypes, world
  <1>4. /\ "other" \in Errors /\ 0 \in Nat /\ "returned" \in Inside /\ answer.ask \in Nat
        /\ disk["node"].step \notin {PrepareStep("node"), PromoteStep("node")}
    BY <1>1, <1>2, Zenon DEF Errors, Inside, Places, WorldTypes, Answers, WindowsSteps, PrepareStep, PromoteStep
  <1>5. Fits("node", "returned", disk["node"], rec)
    BY Zenon DEF Fits
  <1>6. ASSUME NEW asks \in {0, answer.ask}, Throw("node", "other", asks)
        PROVE  Keeps
    BY <1>1, <1>2, <1>3, <1>4, <1>6, StepThrows, Zenon
  <1>7. CASE Goto("node", "returned", rec, 0)
    BY <1>1, <1>2, <1>3, <1>4, <1>5, <1>7, StepGoes, Zenon
  <1>8. CASE UNCHANGED drv
    <2>1. \A u \in Machines : DriverInv(u)' /\ Calm(u)
      BY <1>1, <1>2, <1>8, DriverStays, CalmStays, Zenon DEF Base
    <2>2. InstallTypes'
      BY <1>1, <1>2, <1>8, QuietTypes, Zenon DEF InstallTypes
    <2> QED BY <1>3, <2>1, <2>2, Zenon DEF Keeps, Base
  <1> QED BY <1>6, <1>7, <1>8, Zenon DEF PollWindows, Rec, Return

\* A step that changes no record and no driver.
LEMMA StillKeeps ==
    ASSUME Base, UNCHANGED <<disk, drv>>, InstallTypes', WorldTypes'
    PROVE  Keeps
  <1>1. \A u \in Machines : DriverInv(u)' /\ Calm(u)
    BY DriverStays, CalmStays, Zenon DEF Base
  <1> QED BY <1>1, Zenon DEF Keeps, Base

\* The moves of the Edge's contract.
EdgeMoves == EdgePrepares \/ PromoteContract \/ RollbackContract

\* The steps of a handover that replace no process.
LEMMA HandoverEffect ==
    ASSUME InstallTypes, NEW m \in Machines, HandoverStep(m) \/ (m = "node" /\ BrokerWithdraws)
    PROVE  InstallTypes' /\ UNCHANGED <<disk, drv, tasks, handovers, issued, pending>>
  <1>1. UNCHANGED <<disk, drv, tasks, handovers, issued, pending>>
    BY Zenon DEF HandoverStep, CommitRelease, PassHandover, RestoreState, BrokerWithdraws, confirmations
  <1>2. PICK to \in Phases : handover' = [handover EXCEPT ![m] = to]
    BY Zenon DEF HandoverStep, CommitRelease, PassHandover, RestoreState, BrokerWithdraws, Undoes, Handover,
       Phases
  <1>3. \/ UNCHANGED <<active, candidate>>
        \/ \E a \in {"old", "new"}, c \in {"none", "new"} :
              active' = [active EXCEPT ![m] = a] /\ candidate' = [candidate EXCEPT ![m] = c]
    BY Zenon DEF HandoverStep, CommitRelease, PassHandover, RestoreState, BrokerWithdraws, Rewritten
  <1>4. /\ handover' \in [Machines -> Phases] /\ active' \in [Machines -> {"old", "new"}]
        /\ candidate' \in [Machines -> {"none", "new"}]
    BY <1>2, <1>3, Zenon DEF InstallTypes
  <1> QED BY <1>1, <1>4, Zenon DEF InstallTypes

\* The steps that replace a process.
LEMMA HandoverRestarts ==
    ASSUME InstallTypes, NEW m \in Machines, Dies(m) \/ HandoverRestart(m)
    PROVE  /\ Restarted(m) /\ UNCHANGED <<tasks, active, candidate, handovers>>
           /\ handover' \in [Machines -> Phases]
  <1>1. Restarted(m) /\ UNCHANGED <<tasks, active, candidate, handovers>>
    BY Zenon DEF Dies, HandoverRestart, ReplaceProcess, SwitchWithdraws, RestartOld, releases
  <1>2. handover' = handover \/ \E to \in Phases : handover' = [handover EXCEPT ![m] = to]
    BY Zenon DEF Dies, HandoverRestart, ReplaceProcess, SwitchWithdraws, RestartOld, Undoes, Handover, Phases,
       releases
  <1> QED BY <1>1, <1>2, Zenon DEF InstallTypes

\* The relay, GitHub, the Edge and the tasks.
LEMMA WorldKeeps ==
    ASSUME Base, \/ ObserveCompanion \/ EdgeMoves
                 \/ \E k \in Workflows : WorkflowEnds(k)
                 \/ \E m \in Machines : (TaskEnds(m) \/ HandoverStep(m)) /\ UNCHANGED <<world, relay>>
    PROVE  Keeps
  <1>1. InstallTypes /\ WorldTypes
    BY Zenon DEF Base
  <1>2. CASE ObserveCompanion
    <2>1. InstallTypes' /\ UNCHANGED <<disk, drv>>
      BY <1>1, <1>2, Zenon DEF ObserveCompanion, installVars, releases, confirmations, InstallTypes
    <2>2. answer' \in Answers /\ toNode' \in Seq(Answers)
      BY <1>1, <1>2 DEF ObserveCompanion, WorldTypes
    <2>3. WorldTypes'
      BY <1>1, <1>2, <2>2, Zenon DEF ObserveCompanion, WorldTypes, world
    <2> QED BY <2>1, <2>3, StillKeeps, Zenon
  <1>3. CASE EdgeMoves
    <2>1. InstallTypes' /\ UNCHANGED <<disk, drv>>
      <3>1. CASE UNCHANGED installVars
        BY <1>1, <3>1, Zenon DEF installVars, releases, confirmations, InstallTypes
      <3>2. CASE BrokerWithdraws
        BY <1>1, <3>2, HandoverEffect, Zenon DEF Machines
      <3> QED BY <1>3, <3>1, <3>2, Zenon DEF EdgeMoves, EdgePrepares, PromoteContract, RollbackContract
    <2>2. edge' \in {"previous", "candidate", "target"} /\ contractPromoted' \in BOOLEAN
      BY <1>1, <1>3, Zenon DEF EdgeMoves, EdgePrepares, PromoteContract, RollbackContract, WorldTypes
    <2>3. UNCHANGED <<wf, published, relay>>
      BY <1>3, Zenon DEF EdgeMoves, EdgePrepares, PromoteContract, RollbackContract
    <2>4. WorldTypes'
      BY <1>1, <2>2, <2>3, Zenon DEF WorldTypes, relay
    <2> QED BY <2>1, <2>4, StillKeeps, Zenon
  <1>4. ASSUME NEW k \in Workflows, WorkflowEnds(k)
        PROVE  Keeps
    <2>1. InstallTypes' /\ UNCHANGED <<disk, drv>>
      BY <1>1, <1>4 DEF WorkflowEnds, installVars, releases, confirmations, InstallTypes
    <2>2. wf' \in [Workflows -> Seq(Runs)]
      <3>1. PICK n \in DOMAIN wf[k], end \in {"success", "failure"} : wf' = [wf EXCEPT ![k][n] = end]
        BY <1>4, Zenon DEF WorkflowEnds
      <3>2. end \in Runs
        BY Zenon DEF Runs
      <3> QED BY <1>1, <3>1, <3>2, RunSet, Zenon
    <2>3. published' \in BOOLEAN
      BY <1>1, <1>4, Zenon DEF WorkflowEnds, WorldTypes
    <2>4. WorldTypes'
      BY <1>1, <1>4, <2>2, <2>3, Zenon DEF WorkflowEnds, WorldTypes, relay
    <2> QED BY <2>1, <2>4, StillKeeps, Zenon
  <1>5. ASSUME NEW m \in Machines, TaskEnds(m), UNCHANGED <<world, relay>>
        PROVE  Keeps
    <2>1. PICK n \in DOMAIN tasks[m], end \in {"succeeded", "failed"} : tasks' = [tasks EXCEPT ![m][n] = end]
      BY <1>5, Zenon DEF TaskEnds
    <2>2. tasks' \in [Machines -> Seq({"running", "succeeded", "failed"})]
      <3>1. PICK z : z = [tasks[m] EXCEPT ![n] = end]
        BY Zenon
      <3>2. z \in Seq({"running", "succeeded", "failed"})
        BY <1>1, <3>1, SeqSet, Zenon DEF InstallTypes
      <3>3. tasks' = [tasks EXCEPT ![m] = z]
        BY <2>1, <3>1, Zenon
      <3> QED BY <1>1, <3>2, <3>3, Zenon DEF InstallTypes
    <2>3. candidate' \in [Machines -> {"none", "new"}]
      BY <1>1, <1>5 DEF TaskEnds, InstallTypes
    <2>4. UNCHANGED <<disk, drv, active, handover, handovers, issued, pending>>
      BY <1>5, Zenon DEF TaskEnds, confirmations
    <2>5. InstallTypes'
      BY <1>1, <2>2, <2>3, <2>4, Zenon DEF InstallTypes
    <2>6. WorldTypes'
      BY <1>1, <1>5, Zenon DEF WorldTypes, world, relay
    <2> QED BY <2>4, <2>5, <2>6, StillKeeps, Zenon
  <1>6. ASSUME NEW m \in Machines, HandoverStep(m), UNCHANGED <<world, relay>>
        PROVE  Keeps
    <2>1. InstallTypes' /\ UNCHANGED <<disk, drv>>
      BY <1>1, <1>6, HandoverEffect, Zenon
    <2>2. WorldTypes'
      BY <1>1, <1>6, Zenon DEF WorldTypes, world, relay
    <2> QED BY <2>1, <2>2, StillKeeps, Zenon
  <1> QED BY <1>2, <1>3, <1>4, <1>5, <1>6, Zenon

\* prepareOnce and promoteOnce, up to their calls, on either machine.
LEMMA InstallPlain ==
    ASSUME Base, NEW m \in Machines, (m = "node" /\ InstallHere) \/ (m = "windows" /\ Install)
    PROVE  Plain(m) /\ InStep(m) /\ drv[m].pc = "step"
  <1>1. InstallTypes /\ DriverInv(m) /\ InStep(m) /\ drv[m].pc = "step"
    BY Zenon DEF Base, InstallHere, Install, AtStep, At, InStep, Inside, Places
  <1>2. CASE m = "node" /\ InstallHere
    BY <1>1, <1>2, PreparePlain, PromotePlain, Zenon DEF InstallHere, AtStep, PrepareStep, PromoteStep
  <1>3. CASE m = "windows" /\ Install
    <2>1. PICK rec \in Record : rec = drv[m].rec
      BY <1>1, MachineTypes, Zenon
    <2>2. CASE Goto(m, "step", [rec EXCEPT !.known = TRUE], 0) /\ UNCHANGED disk
      <3> DEFINE r == [rec EXCEPT !.known = TRUE]
      <3>1. 0 \in Nat /\ "step" \in Inside \ {"dispatch", "follow", "wait_edge", "prepare", "promote"}
        BY Zenon DEF Inside, Places
      <3>2. r \in Record /\ Kept(r, rec) /\ Same(r, rec)
        BY <3>1, AskedFields, Zenon
      <3> HIDE DEF r
      <3>3. Goto(m, "step", r, 0)
        BY <2>2, Zenon DEF r
      <3> QED BY <1>1, <2>1, <2>2, <3>1, <3>2, <3>3, PlainReturn, Zenon
    <2>3. CASE rec.step = "prepare" /\ PrepareOnce(m)
      BY <1>1, <1>3, <2>1, <2>3, PreparePlain, Zenon DEF At, Rec, PrepareStep
    <2>4. CASE rec.step = "promote" /\ PromoteOnce(m)
      BY <1>1, <1>3, <2>1, <2>4, PromotePlain, Zenon DEF At, Rec, PromoteStep
    <2> QED BY <1>1, <1>3, <2>1, <2>2, <2>3, <2>4 DEF Install, Rec
  <1> QED BY <1>1, <1>2, <1>3, Zenon

\* So they are calm.
LEMMA InstallKeeps ==
    ASSUME Base, InstallHere \/ Install
    PROVE  Keeps
  <1>1. WorldTypes' /\ UNCHANGED <<releases, confirmations>>
    BY Zenon DEF InstallHere, Install, Base, WorldTypes, world, relay
  <1>2. "node" \in Machines /\ "windows" \in Machines
    BY Zenon DEF Machines
  <1> QED BY <1>1, <1>2, InstallPlain, PlainKeeps, Zenon

\* The waits, what the runners look at, and the end of a run().
LEMMA QuietKeeps ==
    ASSUME Base, NEW m \in Machines,
           \/ (PrepareAnswered(m) \/ AwaitTask(m) \/ AwaitSwitch(m) \/ GiveUp(m) \/ Leave(m)) /\ UNCHANGED <<world, relay>>
           \/ m = "node" /\ (AwaitEdge \/ SkipWorkflow \/ OracleVerify \/ NodeGivesUp)
           \/ m = "windows" /\ CompanionGivesUp
    PROVE  Keeps
  <1>1. WorldTypes' /\ UNCHANGED <<releases, confirmations>>
    <2>1. UNCHANGED <<releases, confirmations, world, relay>>
      BY Zenon DEF PrepareAnswered, AwaitTask, AwaitSwitch, GiveUp, Leave, AwaitEdge, SkipWorkflow,
         OracleVerify,
             NodeGivesUp, CompanionGivesUp
    <2> QED BY <2>1, Zenon DEF Base, WorldTypes, world, relay
  <1>2. InstallTypes /\ DriverInv(m)
    BY Zenon DEF Base
  <1>3. CASE Leave(m)
    <2>1. /\ drv[m].pc = "leaving" /\ UNCHANGED disk /\ drv' \in [Machines -> Drivers]
          /\ drv'[m].pc = "idle" /\ drv'[m].rec = NoRecord /\ drv'[m].err = "none" /\ drv'[m].asks = 0
          /\ \A u \in Machines \ {m} : drv'[u] = drv[u]
      BY <1>2, <1>3, NoRecordFields, Zenon DEF Leave, At, Idle, Driver, InstallTypes, Drivers, Places, Errors
    <2>2. DriverInv(m)'
      BY <1>2, <2>1, Zenon DEF DriverInv, InStep, Inside
    <2>3. InstallTypes'
      BY <1>1, <1>2, <2>1, QuietTypes, Zenon DEF Base, InstallTypes
    <2>4. Quota(m) \in Nat /\ Quota(m)' = Quota(m)
      BY <1>2, <2>1, MachineTypes, Zenon DEF Quota
    <2>5. Approvals(m)' \subseteq Approvals(m)
      BY <2>1, NoRecordFields, Zenon DEF Approvals
    <2>6. Calm(m)
      BY <2>1, <2>4, <2>5 DEF Calm
    <2> QED BY <1>1, <2>1, <2>2, <2>3, <2>6, OneMoves, Zenon
  <1>4. CASE ~ Leave(m)
    BY <1>1, <1>2, <1>4, WaitsPlain, QuietPlain, PlainKeeps, Zenon
  <1> QED BY <1>3, <1>4, Zenon

\* handle().
LEMMA HandleEffect ==
    ASSUME Base, Handle
    PROVE  LET r == disk["windows"] IN
           \E q \in Record :
              /\ Writes("windows", q) /\ toNode' \in Sent(toNode, statusOf(q))
              /\ drv' = IF q.state = "running" THEN DriveIn(drv, "windows") ELSE drv
              /\ \/ q = r
                 \/ /\ r = NoRecord /\ q.state = "running" /\ q.step = "prepare" /\ q.ask = 0 /\ q.approved = 0
                    /\ q.attempt = 0
                 \/ /\ r.state = "needs_confirmation" /\ q.state = "running" /\ q.approved = r.ask /\ q.ask = 0
                    /\ q.step = r.step /\ Same(q, r)
                 \/ /\ r.state = "failed" /\ q.state = "running" /\ q.approved = r.approved /\ q.ask = r.ask
                    /\ q.step = r.step /\ q.prom = r.prom
                    /\ q.attempt = Head(toCompanion).attempt /\ q.attempt > r.attempt
  <1>1. "windows" \in Machines /\ InstallTypes /\ WorldTypes /\ DriverInv("windows")
    BY Zenon DEF Base, Machines
  <1>2. PICK request \in Requests : request = Head(toCompanion)
    BY <1>1 DEF Handle, WorldTypes
  <1>3. PICK r \in Record : r = disk["windows"]
    BY <1>1, MachineTypes, Zenon
  <1>4. PICK q : q = Accepted(r, request)
    BY Zenon
  <1>5. /\ q \in Record
        /\ \/ q = r
           \/ /\ r.state = "none" /\ q.state = "running" /\ q.step = "prepare" /\ q.ask = 0 /\ q.approved = 0
              /\ q.attempt = 0
           \/ /\ r.state = "needs_confirmation" /\ q.state = "running" /\ q.approved = r.ask /\ q.ask = 0
              /\ q.step = r.step /\ Same(q, r)
           \/ /\ r.state = "failed" /\ q.state = "running" /\ q.approved = r.approved /\ q.ask = r.ask
              /\ q.step = r.step /\ q.prom = r.prom
              /\ q.attempt = request.attempt /\ request.attempt > r.attempt
    BY <1>4, AcceptedFields
  <1>6. /\ Save("windows", q) /\ toNode' \in Sent(toNode, statusOf(q))
        /\ drv' = IF q.state = "running" THEN DriveIn(drv, "windows") ELSE drv
    BY <1>2, <1>3, <1>4, Zenon DEF Handle, Report
  <1>7. Writes("windows", q)
    BY <1>1, <1>5, <1>6, SaveFacts, Zenon DEF Writes
  <1>8. r.state = "none" => r = NoRecord
    BY <1>1, <1>3, Zenon DEF DriverInv
  <1> QED BY <1>2, <1>3, <1>5, <1>6, <1>7, <1>8, Zenon

\* A request that the companion handles.
LEMMA HandleKeeps ==
    ASSUME Base, Handle
    PROVE  Keeps
  <1> DEFINE r == disk["windows"]
  <1>1. "windows" \in Machines /\ InstallTypes /\ WorldTypes /\ DriverInv("windows") /\ r \in Record
    BY MachineTypes, Zenon DEF Base, Machines
  <1>2. PICK q \in Record :
              /\ Writes("windows", q) /\ toNode' \in Sent(toNode, statusOf(q))
              /\ drv' = IF q.state = "running" THEN DriveIn(drv, "windows") ELSE drv
              /\ \/ q = r
                 \/ /\ r = NoRecord /\ q.state = "running" /\ q.step = "prepare" /\ q.ask = 0 /\ q.approved = 0
                    /\ q.attempt = 0
                 \/ /\ r.state = "needs_confirmation" /\ q.state = "running" /\ q.approved = r.ask /\ q.ask = 0
                    /\ q.step = r.step /\ Same(q, r)
                 \/ /\ r.state = "failed" /\ q.state = "running" /\ q.approved = r.approved /\ q.ask = r.ask
                    /\ q.step = r.step /\ q.prom = r.prom
                    /\ q.attempt = Head(toCompanion).attempt /\ q.attempt > r.attempt
    BY HandleEffect, Zenon
  <1>3. UNCHANGED <<releases, confirmations, world, answer>> /\ toCompanion' \in Seq(Requests)
    BY <1>1 DEF Handle, WorldTypes
  <1>4. WorldTypes'
    BY <1>1, <1>2, <1>3, ReportTypes, Zenon
  <1>5. /\ disk' \in [Machines -> Record] /\ disk'["windows"] = q
        /\ \A u \in Machines \ {"windows"} : disk'[u] = disk[u]
    BY <1>2, Zenon DEF Writes
  <1>6. CASE q = r
    <2>1. drv' \in [Machines -> Drivers] /\ \A u \in Machines \ {"windows"} : drv'[u] = drv[u]
      BY <1>1, <1>2, DriveFacts, Zenon DEF InstallTypes
    <2>2. InstallTypes'
      BY <1>1, <1>3, <1>5, <2>1, QuietTypes, Zenon
    <2>3. DriverInv("windows")' /\ Calm("windows")
      <3>1. CASE drv'["windows"] = drv["windows"]
        BY <1>1, <1>5, <1>6, <3>1, DriverStays, CalmStays, Zenon
      <3>2. CASE drv'["windows"] # drv["windows"]
        <4>1. /\ q.state = "running" /\ drv["windows"].pc = "idle" /\ drv'["windows"].pc = "read"
              /\ drv'["windows"].rec = NoRecord /\ drv'["windows"].err = "none" /\ drv'["windows"].asks = 0
          BY <1>1, <1>2, <3>2, DriveFacts, Zenon
        <4>2. DriverInv("windows")'
          BY <1>1, <1>5, <1>6, <4>1 DEF DriverInv, InStep, Inside
        <4>3. Quota("windows") \in Nat /\ Quota("windows")' = Quota("windows")
          BY <1>1, <1>5, <1>6, MachineTypes, Zenon DEF Quota
        <4>4. Approvals("windows")' \subseteq Approvals("windows")
          BY <1>5, <1>6, <4>1, NoRecordFields DEF Approvals
        <4>5. Calm("windows")
          BY <1>5, <1>6, <4>1, <4>3, <4>4 DEF Calm
        <4> QED BY <4>2, <4>5, Zenon
      <3> QED BY <3>1, <3>2, Zenon
    <2> QED BY <1>1, <1>4, <1>5, <2>1, <2>2, <2>3, OneMoves, Zenon
  <1>7. CASE q # r
    <2>1. drv' = DriveIn(drv, "windows") /\ q.state = "running" /\ r.state # "running"
      BY <1>2, <1>7, NoRecordFields, Zenon
    <2>2. q.attempt >= r.attempt
      <3>1. q.attempt \in Nat /\ r.attempt \in Nat
        BY <1>1, <1>2, Zenon DEF Record
      <3>2. q.attempt = r.attempt \/ q.attempt > r.attempt
        BY <1>2, <1>7, NoRecordFields, Zenon DEF Same
      <3> QED BY <3>1, <3>2
    <2>3. /\ r.prom => q.prom
          /\ (r.prep => q.prep) \/ q.attempt > r.attempt
          /\ q.approved \in {0, r.ask, r.approved}
          /\ q.step # r.step => q.approved = 0
      BY <1>2, <1>7, NoRecordFields, Zenon DEF Same
    <2>4. q.step \in StepsOf("windows") /\ q.ask = 0
      BY <1>1, <1>2, <1>7, Zenon DEF DriverInv, StepsOf
    <2>5. r.step \in FromPrepare("windows") => q.step = r.step
      <3>1. "none" \notin FromPrepare("windows")
        BY Zenon DEF FromPrepare, FromPromote, Promoted, PrepareStep, PromoteStep
      <3> QED BY <1>2, <1>7, <3>1, NoRecordFields, Zenon
    <2> HIDE DEF r
    <2>6. "windows" # "node"
      BY Zenon
    <2> QED BY <1>1, <1>2, <1>3, <1>4, <2>1, <2>2, <2>3, <2>4, <2>5, <2>6, StepWakes DEF r
  <1> QED BY <1>6, <1>7, Zenon

\* A process is replaced.
LEMMA RestartKeeps ==
    ASSUME Base, NEW m \in Machines, (Dies(m) \/ HandoverRestart(m)) /\ Disconnected(m)
    PROVE  Keeps
  <1>1. InstallTypes /\ WorldTypes /\ DriverInv(m) /\ Restarted(m)
    BY HandoverRestarts, Zenon DEF Base
  <1>2. /\ drv' \in [Machines -> Drivers] /\ disk' = disk /\ issued' = issued
        /\ drv'[m].rec = NoRecord /\ drv'[m].asks = 0 /\ drv'[m].pc \in {"idle", "read"}
        /\ pending' = [pending EXCEPT ![m] = {}]
        /\ \A u \in Machines \ {m} : drv'[u] = drv[u]
    BY <1>1, RestartFacts, Zenon
  <1>3. DriverInv(m)'
    BY <1>1, DriverRestarts, Zenon
  <1>4. pending' \in [Machines -> SUBSET (1..issued')]
    BY <1>1, <1>2, Zenon DEF InstallTypes
  <1>5. /\ tasks' = tasks /\ handovers' = handovers /\ active' \in [Machines -> {"old", "new"}]
        /\ candidate' \in [Machines -> {"none", "new"}] /\ handover' \in [Machines -> Phases]
    BY <1>1, HandoverRestarts, Zenon DEF InstallTypes
  <1>6. InstallTypes'
    BY <1>1, <1>2, <1>4, <1>5, Zenon DEF InstallTypes
  <1>7. WorldTypes'
    <2>1. NoAnswer \in Answers
      BY DEF NoAnswer, Answers, States
    <2>2. answer' \in Answers /\ UNCHANGED <<toNode, toCompanion>>
      BY <1>1, <2>1, Zenon DEF Disconnected, WorldTypes
    <2>3. UNCHANGED world
      BY Zenon DEF Disconnected
    <2> QED BY <1>1, <2>2, <2>3, Zenon DEF WorldTypes, world
  <1>8. Quota(m) \in Nat /\ Quota(m)' = Quota(m)
    BY <1>1, <1>2, MachineTypes, Zenon DEF Quota
  <1>9. Approvals(m)' \subseteq Approvals(m)
    BY <1>2, NoRecordFields, Zenon DEF Approvals
  <1>10. Calm(m)
    BY <1>2, <1>8, <1>9 DEF Calm
  <1> QED BY <1>2, <1>3, <1>6, <1>7, <1>10, OneMoves, Zenon

\* The calls that prepare_release and promote_release answer.
LEMMA ReleaseEffect ==
    ASSUME Base, NEW m \in Machines, PrepareRelease(m) \/ PromoteRelease(m), UNCHANGED <<world, relay>>
    PROVE  /\ Base' /\ InStep(m) /\ disk' = disk
           /\ \A u \in Machines \ {m} : drv'[u] = drv[u] /\ pending'[u] = pending[u]
           /\ drv'[m].pc \in {"prepared", "wait_switch", "stopped"} /\ drv'[m].rec.approved \in {0, drv[m].rec.approved}
           /\ \/ /\ m \in Guarded /\ drv[m].rec.approved = 0 /\ drv'[m].asks = issued + 1
                 /\ UNCHANGED <<tasks, handovers>>
              \/ /\ Authorized(m) /\ drv'[m].asks = 0
              \/ drv'[m].asks = 0 /\ UNCHANGED <<tasks, handovers, pending>>
  <1>1. InstallTypes /\ WorldTypes /\ DriverInv(m) /\ issued \in Nat
    BY Zenon DEF Base, InstallTypes
  <1>2. InStep(m) /\ disk' = disk
    BY Zenon DEF PrepareRelease, PromoteRelease, At, InStep, Inside, Places
  <1>3. PICK rec \in Record : rec = drv[m].rec
    BY <1>1, MachineTypes, Zenon
  <1>4. disk[m] \in Record /\ Mirrors(rec, disk[m]) /\ disk[m].state = "running"
    BY <1>1, <1>2, <1>3, MachineTypes, Zenon DEF DriverInv, InStep, Inside
  <1>5. Len(tasks[m]) + 1 \in Nat /\ 0 \in Nat /\ issued + 1 \in Nat /\ "other" \in Errors
    BY <1>1 DEF InstallTypes, Errors
  <1>6. WorldTypes'
    BY <1>1, Zenon DEF WorldTypes, world, relay
  <1>7. ASSUME NEW a \in Nat, Throw(m, "other", a)
        PROVE  /\ drv' \in [Machines -> Drivers] /\ DriverInv(m)' /\ drv'[m].pc = "stopped"
               /\ drv'[m].rec.approved = 0 /\ drv'[m].asks = a /\ \A u \in Machines \ {m} : drv'[u] = drv[u]
    BY <1>1, <1>2, <1>5, <1>7, ThrowFacts, DriverThrows, NoRecordFields
  <1>8. ASSUME NEW pc \in {"prepared", "wait_switch"}, NEW op \in Nat, Goto(m, pc, rec, op),
               disk[m].step = IF pc = "prepared" THEN PrepareStep(m) ELSE PromoteStep(m)
        PROVE  /\ drv' \in [Machines -> Drivers] /\ DriverInv(m)' /\ drv'[m].pc = pc
               /\ drv'[m].rec.approved = rec.approved /\ drv'[m].asks = 0 /\ \A u \in Machines \ {m} : drv'[u] = drv[u]
    <2>1. pc \in Inside /\ pc \in Places
      BY Zenon DEF Inside, Places
    <2>2. /\ drv' \in [Machines -> Drivers] /\ drv'[m].pc = pc /\ drv'[m].rec = rec /\ drv'[m].asks = 0
          /\ \A u \in Machines \ {m} : drv'[u] = drv[u]
      BY <1>1, <1>8, <2>1, GotoFacts
    <2>3. DriverInv(m)'
      BY <1>1, <1>2, <1>4, <1>8, <2>1, DriverGoes, Zenon
    <2> QED BY <2>2, <2>3, Zenon
  <1>9. ASSUME InstallTypes', DriverInv(m)', \A u \in Machines \ {m} : drv'[u] = drv[u]
        PROVE  Base'
    BY <1>2, <1>6, <1>9, DriverStays, BothMachines, Zenon DEF Base
  <1>10. CASE AsksConfirmation(m) /\ UNCHANGED releases
    <2>1. /\ m \in Guarded /\ rec.approved = 0 /\ issued' = issued + 1
          /\ pending' = [pending EXCEPT ![m] = @ \cup {issued + 1}] /\ Throw(m, "other", issued + 1)
      BY <1>3, <1>10, Zenon DEF AsksConfirmation, Rec
    <2>2. 1..issued \subseteq 1..(issued + 1) /\ issued + 1 \in 1..(issued + 1)
      BY <1>1
    <2>3. /\ pending' \in [Machines -> SUBSET (1..issued')]
          /\ \A u \in Machines \ {m} : pending'[u] = pending[u]
      BY <1>1, <2>1, <2>2 DEF InstallTypes
    <2>4. InstallTypes'
      BY <1>1, <1>2, <1>5, <1>7, <1>10, <2>1, <2>3, Zenon DEF InstallTypes, releases
    <2> QED BY <1>2, <1>3, <1>5, <1>7, <1>9, <1>10, <2>1, <2>3, <2>4, Zenon DEF releases
  <1>11. CASE PrepareRelease(m) /\ Authorized(m) /\ tasks' = [tasks EXCEPT ![m] = Append(@, "running")]
                /\ (Goto(m, "prepared", rec, Len(tasks[m]) + 1) \/ Throw(m, "other", 0))
                /\ UNCHANGED <<active, candidate, handover, handovers>>
    <2>1. /\ pending' \in [Machines -> SUBSET (1..issued')] /\ issued' = issued
          /\ \A u \in Machines \ {m} : pending'[u] = pending[u]
      BY <1>1, <1>11, Zenon DEF InstallTypes, Authorized
    <2>2. Append(tasks[m], "running") \in Seq({"running", "succeeded", "failed"})
      BY <1>1 DEF InstallTypes
    <2>3. tasks' \in [Machines -> Seq({"running", "succeeded", "failed"})]
      BY <1>1, <1>11, <2>2, Zenon DEF InstallTypes
    <2>4. disk[m].step = PrepareStep(m)
      BY <1>1, <1>11, Zenon DEF PrepareRelease, At, DriverInv
    <2>5. /\ drv' \in [Machines -> Drivers] /\ DriverInv(m)' /\ drv'[m].pc \in {"prepared", "stopped"}
          /\ drv'[m].rec.approved \in {0, rec.approved} /\ drv'[m].asks = 0
          /\ \A u \in Machines \ {m} : drv'[u] = drv[u]
      BY <1>5, <1>7, <1>8, <1>11, <2>4, Zenon
    <2>6. InstallTypes'
      BY <1>1, <1>2, <1>11, <2>1, <2>3, <2>5, Zenon DEF InstallTypes
    <2> QED BY <1>2, <1>3, <1>9, <1>11, <2>1, <2>5, <2>6, Zenon
  <1>12. CASE PromoteRelease(m) /\ Authorized(m) /\ handovers' = [handovers EXCEPT ![m] = @ + 1]
                /\ handover' = [handover EXCEPT ![m] = "started"]
                /\ (Goto(m, "wait_switch", rec, 0) \/ Throw(m, "other", 0))
                /\ UNCHANGED <<tasks, active, candidate>>
    <2>1. /\ pending' \in [Machines -> SUBSET (1..issued')] /\ issued' = issued
          /\ \A u \in Machines \ {m} : pending'[u] = pending[u]
      BY <1>1, <1>12, Zenon DEF InstallTypes, Authorized
    <2>2. handovers' \in [Machines -> Nat] /\ handover' \in [Machines -> Phases]
      BY <1>1, <1>12 DEF InstallTypes, Phases
    <2>3. disk[m].step = PromoteStep(m)
      BY <1>1, <1>12, Zenon DEF PromoteRelease, At, DriverInv
    <2>4. /\ drv' \in [Machines -> Drivers] /\ DriverInv(m)' /\ drv'[m].pc \in {"wait_switch", "stopped"}
          /\ drv'[m].rec.approved \in {0, rec.approved} /\ drv'[m].asks = 0
          /\ \A u \in Machines \ {m} : drv'[u] = drv[u]
      BY <1>5, <1>7, <1>8, <1>12, <2>3, Zenon
    <2>5. InstallTypes'
      BY <1>1, <1>2, <1>12, <2>1, <2>2, <2>4 DEF InstallTypes
    <2> QED BY <1>2, <1>3, <1>9, <1>12, <2>1, <2>4, <2>5, Zenon
  <1>13. CASE Throw(m, "other", 0) /\ UNCHANGED <<releases, confirmations>>
    <2>1. /\ drv' \in [Machines -> Drivers] /\ DriverInv(m)' /\ drv'[m].pc = "stopped"
          /\ drv'[m].rec.approved = 0 /\ drv'[m].asks = 0 /\ \A u \in Machines \ {m} : drv'[u] = drv[u]
      BY <1>5, <1>7, <1>13, Zenon
    <2>2. InstallTypes'
      BY <1>1, <1>2, <1>13, <2>1, QuietTypes, Zenon DEF InstallTypes
    <2> QED BY <1>2, <1>9, <1>13, <2>1, <2>2, Zenon DEF releases, confirmations
  <1> QED BY <1>3, <1>10, <1>11, <1>12, <1>13, Zenon DEF PrepareRelease, PromoteRelease, Rec
-----------------------------------------------------------------------------
(* Prepare and promote are asked for once.                                 *)

\* What holds on any step that asks for nothing.
LEMMA CalmInstall ==
    ASSUME InstallTypes, InstallTypes', NEW m \in Machines, InstallInv(m), Calm(m),
           Len(tasks'[m]) = Len(tasks[m]), handovers'[m] = handovers[m], pending'[m] \subseteq pending[m]
    PROVE  InstallInv(m)'
  <1>1. Quota(m) \in Nat /\ Quota(m)' \in Nat /\ Len(tasks[m]) \in Nat /\ handovers[m] \in Nat
    <2>1. disk[m] \in Record /\ disk'[m] \in Record
      BY Zenon DEF InstallTypes
    <2> QED BY <2>1 DEF InstallTypes, Quota, Record
  <1>2. Quota(m)' >= Quota(m)
    BY Zenon DEF Calm
  <1>3. m \notin Guarded => pending'[m] = {}
    BY Zenon DEF InstallInv
  <1>4. m \notin Guarded /\ disk'[m].step \in {PrepareStep(m), PromoteStep(m)} => Approvals(m)' = {}
    BY Zenon DEF InstallInv, Calm
  <1>5. Len(tasks'[m]) <= Quota(m)' + 1 /\ handovers'[m] <= 1
    BY <1>1, <1>2 DEF InstallInv
  <1>6. ASSUME Len(tasks'[m]) > Quota(m)'
        PROVE  /\ disk'[m].prep /\ disk'[m].step \in FromPrepare(m)
               /\ disk'[m].step = PrepareStep(m) => Approvals(m)' \cap pending'[m] = {}
               /\ drv'[m].pc = "prepare" => drv'[m].rec.approved # 0
    <2>1. Quota(m)' = Quota(m) /\ Len(tasks[m]) > Quota(m)
      BY <1>1, <1>2, <1>6 DEF InstallInv
    <2>2. disk[m].prep /\ disk[m].step \in FromPrepare(m)
      BY <2>1, Zenon DEF InstallInv
    <2>3. disk'[m].prep /\ disk'[m].step \in FromPrepare(m)
      BY <2>1, <2>2, Zenon DEF Calm
    <2>4. disk'[m].step = PrepareStep(m) => Approvals(m)' \cap pending'[m] = {}
      BY <2>1, Zenon DEF InstallInv, Calm
    <2>5. drv'[m].pc = "prepare" => drv'[m].rec.approved # 0
      BY <2>1, <2>2, Zenon DEF InstallInv, Calm
    <2> QED BY <2>3, <2>4, <2>5, Zenon
  <1>7. ASSUME handovers'[m] > 0
        PROVE  /\ disk'[m].prom /\ disk'[m].step \in FromPromote(m)
               /\ disk'[m].step = PromoteStep(m) => Approvals(m)' \cap pending'[m] = {}
               /\ drv'[m].pc = "promote" => drv'[m].rec.approved # 0
    <2>1. handovers[m] > 0
      BY <1>7, Zenon
    <2>2. disk[m].prom /\ disk[m].step \in FromPromote(m)
      BY <2>1, Zenon DEF InstallInv
    <2>3. disk'[m].prom /\ disk'[m].step \in FromPromote(m)
      BY <2>2, Zenon DEF Calm
    <2>4. disk'[m].step = PromoteStep(m) => Approvals(m)' \cap pending'[m] = {}
      BY <2>1, Zenon DEF InstallInv, Calm
    <2>5. drv'[m].pc = "promote" => drv'[m].rec.approved # 0
      BY <2>1, <2>2, Zenon DEF InstallInv, Calm
    <2> QED BY <2>3, <2>4, <2>5, Zenon
  <1> QED BY <1>3, <1>4, <1>5, <1>6, <1>7, Zenon DEF InstallInv

\* The two steps differ, and a prepare comes before a promote.
LEMMA PhaseOrder ==
    ASSUME NEW m \in Machines
    PROVE  /\ PrepareStep(m) # PromoteStep(m) /\ PrepareStep(m) \notin FromPromote(m)
           /\ PrepareStep(m) \in FromPrepare(m) /\ PromoteStep(m) \in FromPrepare(m)
           /\ PromoteStep(m) \in FromPromote(m)
  BY Zenon DEF Machines, PrepareStep, PromoteStep, FromPromote, FromPrepare, Promoted

\* A call is authorized only when none was made before: what the record still holds of
\* confirmations was used up by that call.
LEMMA CallsInstall ==
    ASSUME Base, NEW m \in Machines, InstallInv(m), PrepareRelease(m) \/ PromoteRelease(m),
           UNCHANGED <<world, relay>>
    PROVE  InstallInv(m)'
  <1> DEFINE a == drv[m].rec.approved
  <1>1. InstallTypes /\ InstallTypes' /\ DriverInv(m) /\ disk' = disk /\ Quota(m)' = Quota(m)
    BY ReleaseEffect, Zenon DEF Base, Quota
  <1>2. /\ InStep(m) /\ drv'[m].pc \in {"prepared", "wait_switch", "stopped"} /\ drv'[m].rec.approved \in {0, a}
    BY ReleaseEffect, Zenon
  <1>3. Quota(m) \in Nat /\ Len(tasks[m]) \in Nat /\ handovers[m] \in Nat /\ issued \in Nat
    BY <1>1, MachineTypes DEF InstallTypes, Quota
  <1>4. disk[m].ask = 0
    BY <1>1, <1>2, Driven, Zenon DEF InStep, Inside
  <1>5. disk[m].approved \in {0, a}
    BY <1>1, Zenon DEF PrepareRelease, PromoteRelease, At, DriverInv
  <1>6. disk[m].step = IF PrepareRelease(m) THEN PrepareStep(m) ELSE PromoteStep(m)
    BY <1>1, Zenon DEF PrepareRelease, PromoteRelease, At, DriverInv
  <1>7. drv[m].pc = IF PrepareRelease(m) THEN "prepare" ELSE "promote"
    BY Zenon DEF PrepareRelease, PromoteRelease, At
  <1>8. PrepareRelease(m) => disk[m].prep /\ handovers[m] = 0
    BY <1>1, <1>3, <1>6, <1>7, PhaseOrder DEF DriverInv, InstallInv
  <1>9. PromoteRelease(m) => disk[m].prom
    BY <1>1, <1>7, Zenon DEF DriverInv, PrepareRelease, PromoteRelease, At
  <1>10. Approvals(m)' \subseteq {a, drv'[m].asks} \ {0}
    BY <1>1, <1>2, <1>4, <1>5, Zenon DEF Approvals
  <1>11. a # 0 => a \in Approvals(m)
    BY Zenon DEF Approvals
  <1>12. /\ PrepareRelease(m) /\ Len(tasks[m]) > Quota(m) => a # 0 /\ a \notin pending[m]
         /\ ~ PrepareRelease(m) /\ handovers[m] > 0 => a # 0 /\ a \notin pending[m]
    BY <1>6, <1>7, <1>11, Zenon DEF InstallInv
  <1>13. m \notin Guarded => a = 0 /\ Approvals(m) = {} /\ pending[m] = {}
    BY <1>6, <1>11, Zenon DEF InstallInv
  <1> HIDE DEF a
  <1>14. CASE m \in Guarded /\ a = 0 /\ drv'[m].asks = issued + 1 /\ UNCHANGED <<tasks, handovers>>
    <2>1. IF PrepareRelease(m) THEN Len(tasks[m]) <= Quota(m) ELSE handovers[m] = 0
      BY <1>3, <1>12, <1>14
    <2>2. CASE PrepareRelease(m)
      BY <1>1, <1>2, <1>3, <1>8, <1>14, <2>1, <2>2 DEF InstallInv
    <2>3. CASE ~ PrepareRelease(m)
      <3>1. disk[m].step = PromoteStep(m) /\ PrepareStep(m) # PromoteStep(m)
        BY <1>6, <2>3, PhaseOrder, Zenon
      <3> QED BY <1>1, <1>2, <1>3, <1>14, <2>1, <2>3, <3>1 DEF InstallInv
    <2> QED BY <2>2, <2>3, Zenon
  <1>15. CASE drv'[m].asks = 0 /\ UNCHANGED <<tasks, handovers, pending>>
    <2>1. Approvals(m)' \subseteq Approvals(m)
      BY <1>10, <1>11, <1>15, Zenon
    <2>2. Calm(m)
      BY <1>1, <1>2, <1>3, <2>1 DEF Calm
    <2> QED BY <1>1, <1>15, <2>2, CalmInstall, Zenon
  <1>16. CASE Authorized(m) /\ drv'[m].asks = 0 /\ ~ UNCHANGED <<tasks, handovers, pending>>
    <2>1. IF PrepareRelease(m) THEN Len(tasks[m]) <= Quota(m) ELSE handovers[m] = 0
      BY <1>3, <1>12, <1>13, <1>16 DEF Authorized, Rec, a
    <2>2. Approvals(m)' \cap pending'[m] = {} /\ pending'[m] \subseteq pending[m]
      <3>1. pending'[m] = pending[m] \ {a}
        BY <1>1, <1>16, Zenon DEF Authorized, Rec, a, InstallTypes
      <3> QED BY <1>10, <1>16, <3>1, Zenon
    <2>3. m \notin Guarded => pending'[m] = {} /\ Approvals(m)' = {}
      BY <1>10, <1>13, <1>16, <2>2, Zenon
    <2>4. CASE PrepareRelease(m)
      <3>1. /\ tasks' \in {tasks, [tasks EXCEPT ![m] = Append(@, "running")]} /\ handovers' = handovers
        BY <1>16, <2>4, Zenon DEF PrepareRelease, releases
      <3>2. Len(tasks'[m]) <= Quota(m) + 1
        BY <1>1, <1>3, <2>1, <2>4, <3>1 DEF InstallTypes
      <3>3. disk[m].step \in FromPrepare(m)
        BY <1>6, <2>4, PhaseOrder, Zenon
      <3> QED BY <1>1, <1>2, <1>3, <1>8, <2>2, <2>3, <2>4, <3>1, <3>2, <3>3 DEF InstallInv
    <2>5. CASE ~ PrepareRelease(m)
      <3>1. handovers' \in {handovers, [handovers EXCEPT ![m] = @ + 1]} /\ tasks' = tasks
        BY <1>16, <2>5, Zenon DEF PromoteRelease, releases
      <3>2. handovers'[m] <= 1
        BY <1>1, <1>3, <2>1, <2>5, <3>1 DEF InstallTypes
      <3>3. /\ disk[m].step = PromoteStep(m) /\ PrepareStep(m) # PromoteStep(m)
            /\ disk[m].step \in FromPromote(m) /\ disk[m].prom
        BY <1>6, <1>9, <2>5, PhaseOrder, Zenon
      <3> QED BY <1>1, <1>2, <1>3, <2>2, <2>3, <2>5, <3>1, <3>2, <3>3, Zenon DEF InstallInv
    <2> QED BY <2>4, <2>5, Zenon
  <1> QED BY <1>14, <1>15, <1>16, ReleaseEffect, Zenon DEF a

Quietly ==
    \A m \in Machines : /\ Len(tasks'[m]) = Len(tasks[m]) /\ handovers'[m] = handovers[m]
                        /\ pending'[m] \subseteq pending[m]

\* Every other step.
LEMMA NextCalm ==
    ASSUME Base, FollowInv, Next
    PROVE  \/ Keeps /\ Quietly
           \/ \E m \in Machines : (PrepareRelease(m) \/ PromoteRelease(m)) /\ UNCHANGED <<world, relay>>
  <1>1. InstallTypes /\ "node" \in Machines /\ "windows" \in Machines
    BY Zenon DEF Base, Machines
  <1>2. ASSUME UNCHANGED <<releases, confirmations>>
        PROVE  Quietly
    BY <1>2, Zenon DEF Quietly, releases, confirmations
  <1>3. CASE Start \/ Confirm \/ Resume
    <2>1. UNCHANGED <<releases, confirmations>>
      BY <1>3, Zenon DEF Start, Confirm, Resume
    <2> QED BY <1>2, <1>3, <2>1, CallsKeep, Zenon
  <1>4. CASE NodeReads \/ CompanionReads
    <2>1. UNCHANGED <<disk, releases, confirmations, world, relay>>
      BY <1>4, Zenon DEF NodeReads, CompanionReads
    <2>2. WorldTypes'
      BY <2>1, Zenon DEF Base, WorldTypes, world, relay
    <2>3. \E m \in Machines : At(m, "read") /\ Loop(m, disk[m])
      BY <1>1, <1>4, Zenon DEF NodeReads, CompanionReads
    <2>4. Keeps
      BY <2>1, <2>2, <2>3, ReadsKeep, Zenon
    <2> QED BY <1>2, <2>1, <2>4, Zenon
  <1>5. CASE NodeStops \/ CompanionStops \/ Advance \/ EndPhase \/ AlreadyInstalled
    <2>1. UNCHANGED <<releases, confirmations>>
      BY <1>5, Zenon DEF NodeStops, CompanionStops, Advance, EndPhase, AlreadyInstalled
    <2>2. Keeps
      BY <1>1, <1>5, StopsKeep, AdvanceKeeps, PhaseKeeps, Zenon
    <2> QED BY <1>2, <2>1, <2>2, Zenon
  <1>6. CASE Precheck \/ BeginWorkflow \/ Dispatch \/ FollowWorkflow \/ PollWindows \/ InstallHere \/ Install \/ Handle
    <2>1. UNCHANGED <<releases, confirmations>>
      BY <1>6, Zenon
         DEF Precheck, BeginWorkflow, Dispatch, FollowWorkflow, PollWindows, InstallHere, Install, Handle
    <2>2. Keeps
      BY <1>6, WorkflowStepsKeep, PollKeeps, InstallKeeps, HandleKeeps, Zenon
    <2> QED BY <1>2, <2>1, <2>2, Zenon
  <1>7. CASE AwaitEdge \/ SkipWorkflow \/ OracleVerify \/ NodeGivesUp \/ CompanionGivesUp
    <2>1. UNCHANGED <<releases, confirmations>>
      BY <1>7, Zenon DEF AwaitEdge, SkipWorkflow, OracleVerify, NodeGivesUp, CompanionGivesUp
    <2>2. Keeps
      BY <1>1, <1>7, QuietKeeps, Zenon
    <2> QED BY <1>2, <2>1, <2>2, Zenon
  <1>8. CASE ObserveCompanion \/ \E k \in Workflows : WorkflowEnds(k)
    <2>1. UNCHANGED <<releases, confirmations>>
      BY <1>8, Zenon DEF ObserveCompanion, WorkflowEnds, installVars
    <2>2. Keeps
      BY <1>8, WorldKeeps, Zenon
    <2> QED BY <1>2, <2>1, <2>2, Zenon
  <1>13. CASE EdgeMoves
    <2>1. UNCHANGED <<tasks, handovers, pending>>
      BY <1>1, <1>13, HandoverEffect, Zenon
         DEF EdgeMoves, EdgePrepares, PromoteContract, RollbackContract, installVars, releases, confirmations
    <2>2. Keeps
      BY <1>13, WorldKeeps, Zenon
    <2> QED BY <2>1, <2>2, Zenon DEF Quietly
  <1>9. ASSUME NEW m \in Machines, MachineStep(m), UNCHANGED <<world, relay>>,
               ~ (PrepareRelease(m) \/ PromoteRelease(m))
        PROVE  Keeps /\ Quietly
    <2>1. CASE PrepareAnswered(m) \/ AwaitTask(m) \/ AwaitSwitch(m) \/ GiveUp(m) \/ Leave(m)
      <3>1. UNCHANGED <<releases, confirmations>>
        BY <2>1, Zenon DEF PrepareAnswered, AwaitTask, AwaitSwitch, GiveUp, Leave
      <3>2. Keeps
        BY <1>9, <2>1, QuietKeeps, Zenon
      <3> QED BY <1>2, <3>1, <3>2, Zenon
    <2>2. CASE TaskEnds(m)
      <3>1. Keeps
        BY <1>9, <2>2, WorldKeeps, Zenon
      <3>2. PICK n \in DOMAIN tasks[m], end \in {"succeeded", "failed"} : tasks' = [tasks EXCEPT ![m][n] = end]
        BY <2>2, Zenon DEF TaskEnds
      <3>3. Len([tasks[m] EXCEPT ![n] = end]) = Len(tasks[m])
        BY <1>1, SeqSet DEF InstallTypes
      <3>4. \A u \in Machines : Len(tasks'[u]) = Len(tasks[u])
        BY <1>1, <3>2, <3>3, Zenon DEF InstallTypes
      <3>5. UNCHANGED <<handovers, pending>>
        BY <2>2, Zenon DEF TaskEnds, confirmations
      <3> QED BY <3>1, <3>4, <3>5, Zenon DEF Quietly
    <2>3. CASE HandoverStep(m)
      <3>1. Keeps
        BY <1>9, <2>3, WorldKeeps, Zenon
      <3>2. UNCHANGED <<tasks, handovers, pending>>
        BY <1>1, <2>3, HandoverEffect, Zenon
      <3> QED BY <3>1, <3>2, Zenon DEF Quietly
    <2> QED BY <1>9, <2>1, <2>2, <2>3, Zenon DEF MachineStep
  <1>10. ASSUME NEW m \in Machines, (Dies(m) \/ HandoverRestart(m)) /\ Disconnected(m)
         PROVE  Keeps /\ Quietly
    <2>1. Keeps
      BY <1>10, RestartKeeps, Zenon
    <2>2. UNCHANGED <<tasks, handovers>> /\ pending' = [pending EXCEPT ![m] = {}]
      BY <1>1, <1>10, HandoverRestarts, Zenon DEF Restarted
    <2>3. \A u \in Machines : pending'[u] \subseteq pending[u]
      BY <1>1, <2>2, Zenon DEF InstallTypes
    <2> QED BY <2>1, <2>2, <2>3, Zenon DEF Quietly
  <1>11. CASE \E m \in Machines : MachineStep(m) /\ UNCHANGED <<world, relay, resumes>>
    BY <1>9, <1>11, Zenon
  <1>12. CASE \E m \in Machines : (Dies(m) \/ HandoverRestart(m)) /\ Disconnected(m)
    BY <1>10, <1>12, Zenon
  <1> QED BY <1>3, <1>4, <1>5, <1>6, <1>7, <1>8, <1>11, <1>12, <1>13, Zenon DEF Next, EdgeMoves

\* So each phase is asked for once.
LEMMA NextInstall ==
    ASSUME Base, FollowInv, \A m \in Machines : InstallInv(m), Next
    PROVE  Base' /\ \A m \in Machines : InstallInv(m)'
  <1>1. CASE Keeps /\ Quietly
    <2>1. InstallTypes /\ InstallTypes' /\ Base'
      BY <1>1, Zenon DEF Keeps, Base
    <2> QED BY <1>1, <2>1, CalmInstall, Zenon DEF Keeps, Quietly
  <1>2. ASSUME NEW m \in Machines, PrepareRelease(m) \/ PromoteRelease(m), UNCHANGED <<world, relay>>
        PROVE  Base' /\ \A u \in Machines : InstallInv(u)'
    <2>1. /\ Base' /\ disk' = disk
          /\ \A u \in Machines \ {m} : drv'[u] = drv[u] /\ pending'[u] = pending[u]
      BY <1>2, ReleaseEffect, Zenon
    <2>2. InstallInv(m)'
      BY <1>2, CallsInstall, Zenon
    <2>3. ASSUME NEW u \in Machines \ {m}
          PROVE  InstallInv(u)'
      <3>1. InstallTypes /\ InstallTypes'
        BY <2>1, Zenon DEF Base
      <3>2. Calm(u)
        BY <2>1, <3>1, CalmStays, Zenon
      <3>3. tasks'[u] = tasks[u] /\ handovers'[u] = handovers[u]
        BY <1>2, <3>1 DEF PrepareRelease, PromoteRelease, releases, InstallTypes
      <3> QED BY <2>1, <3>1, <3>2, <3>3, CalmInstall, Zenon
    <2> QED BY <2>1, <2>2, <2>3, Zenon
  <1> QED BY <1>1, <1>2, NextCalm, Zenon
=============================================================================

--------------------------- MODULE ReleaseInstall ---------------------------
(***************************************************************************)
(* prepare_release and promote_release of one release on one machine, each *)
(* asked once (release-install.ts), for the execution node and for the     *)
(* Windows companion alike: what was asked is saved before the call, and   *)
(* the process that the promote replaces is followed by one that reads it. *)
(*                                                                         *)
(* disk[m] is the record of the update on machine m, drv[m] the run() that *)
(* drives it: where it is (pc), the record it holds in memory (rec), the   *)
(* workflow or task it follows (op) and why it stops (err, asks).  What    *)
(* the calls change outside is the machine's own releases, the task of a   *)
(* prepare, the handover of a promote and the confirmations the machine's  *)
(* process has issued, which are used once and die with it.  A handover is *)
(* started, committed, replaced and passed; or withdrawn before its commit *)
(* or, after it, failed and then rolled_back.                              *)
(*                                                                         *)
(* A record holds, on both machines: state, step, ask (the confirmation it *)
(* waits for), approved (the one the user gave), prep and prom (asked),    *)
(* task (of the prepare) and attempt (the resume it runs for).  The node's *)
(* also holds err (the code resume() looks at), skipped (the Edge steps    *)
(* are not needed) and run (the operation saved for each workflow), and    *)
(* the companion's known (it has read the release active before).          *)
(***************************************************************************)
EXTENDS Naturals, Sequences

CONSTANTS Guarded,      \* the machines whose workspace asks for confirmations
          MaxFaults     \* bound: processes that die on their own and handovers that fail

VARIABLES disk, drv, tasks, active, candidate, handover, handovers, issued, pending, faults

releases == <<tasks, active, candidate, handover, handovers>>
confirmations == <<issued, pending>>
installVars == <<disk, drv, releases, confirmations, faults>>

Machines == {"node", "windows"}

Workflows == {"stage", "activate", "bootstrap", "release", "companion"}

\* The record before there is one.
NoRecord == [state |-> "none", step |-> "none", ask |-> 0, approved |-> 0, prep |-> FALSE,
             task |-> 0, prom |-> FALSE, attempt |-> 0, err |-> "none", skipped |-> FALSE,
             known |-> FALSE, run |-> [k \in Workflows |-> 0]]

At(m, pc) == drv[m].pc = pc
Rec(m) == drv[m].rec

\* The driver of m goes to pc with the record rec, following op.
Driver(pc, rec, op) == [pc |-> pc, rec |-> rec, op |-> op, err |-> "none", asks |-> 0]
Goto(m, pc, rec, op) == drv' = [drv EXCEPT ![m] = Driver(pc, rec, op)]
Idle == Driver("idle", NoRecord, 0)

\* run()'s loop: another step while the record is running.
Loop(m, rec) ==
    drv' = [drv EXCEPT ![m] = IF rec.state = "running" THEN Driver("step", rec, 0)
                                                       ELSE Driver("leaving", NoRecord, 0)]

\* The step returns its record, or throws StopUpdate: with a code or with a confirmation.
Return(m, rec) == Goto(m, "returned", rec, 0)
Stopped(err, asks) == [pc |-> "stopped", rec |-> NoRecord, op |-> 0, err |-> err, asks |-> asks]
Throw(m, err, asks) == drv' = [drv EXCEPT ![m] = Stopped(err, asks)]

Save(m, rec) == disk' = [disk EXCEPT ![m] = rec]

\* drive(): one run() for the update; a call while one is still leaving starts none.
DriveIn(d, m) == IF d[m].pc = "idle" THEN [d EXCEPT ![m] = Driver("read", NoRecord, 0)] ELSE d

-----------------------------------------------------------------------------
\* What context.save writes before a call: the execution node has taken the approved
\* confirmation out of its record by then, the companion keeps it.
Saved(m, rec) == IF m = "node" THEN [rec EXCEPT !.approved = 0] ELSE rec

\* prepareOnce, up to its call: a task already started is only waited for, a request whose
\* answer was lost is not repeated, and the request is saved before it is made.
PrepareOnce(m) ==
    LET rec == Rec(m)
        asked == [Saved(m, rec) EXCEPT !.prep = TRUE]
    IN  \/ /\ rec.task # 0
           /\ Goto(m, "wait_task", rec, rec.task)
           /\ UNCHANGED disk
        \/ /\ rec.task = 0 /\ rec.prep /\ rec.approved = 0
           /\ Throw(m, "other", 0)
           /\ UNCHANGED disk
        \/ /\ rec.task = 0 /\ (~rec.prep \/ rec.approved # 0)
           /\ Save(m, asked)
           /\ Goto(m, "prepare", [rec EXCEPT !.prep = TRUE], 0)

\* Mutant: the promote is asked for before the request is saved.
PromoteUnsaved(m) ==
    LET rec == Rec(m)
    IN  /\ IF ~rec.prom \/ rec.approved # 0
           THEN Goto(m, "promote", [rec EXCEPT !.prom = TRUE], 0)
           ELSE Goto(m, "wait_switch", rec, 0)
        /\ UNCHANGED disk

\* promoteOnce, up to its call.
PromoteOnce(m) ==
    LET rec == Rec(m)
        asked == [Saved(m, rec) EXCEPT !.prom = TRUE]
    IN  IF ~rec.prom \/ rec.approved # 0
        THEN Save(m, asked) /\ Goto(m, "promote", [rec EXCEPT !.prom = TRUE], 0)
        ELSE Goto(m, "wait_switch", rec, 0) /\ UNCHANGED disk

\* A workspace that asks for confirmation answers a call without one by a new confirmation.
AsksConfirmation(m) ==
    /\ m \in Guarded /\ Rec(m).approved = 0
    /\ issued' = issued + 1
    /\ pending' = [pending EXCEPT ![m] = @ \cup {issued + 1}]
    /\ Throw(m, "other", issued + 1)

\* authorization of the command: a confirmation is consumed; one that is missing is refused.
Authorized(m) ==
    /\ m \in Guarded => Rec(m).approved \in pending[m]
    /\ pending' = [pending EXCEPT ![m] = @ \ {Rec(m).approved}]
    /\ UNCHANGED issued

\* port.prepare: it asks for a confirmation, starts the task (and its answer may be lost), or
\* refuses.
PrepareRelease(m) ==
    /\ At(m, "prepare")
    /\ \/ AsksConfirmation(m) /\ UNCHANGED releases
       \/ /\ Authorized(m)
          /\ tasks' = [tasks EXCEPT ![m] = Append(@, "running")]
          /\ Goto(m, "prepared", Rec(m), Len(tasks[m]) + 1) \/ Throw(m, "other", 0)
          /\ UNCHANGED <<active, candidate, handover, handovers>>
       \/ Throw(m, "other", 0) /\ UNCHANGED <<releases, confirmations>>
    /\ UNCHANGED <<disk, faults>>

\* The task's id is saved once the answer is there.
PrepareAnswered(m) ==
    LET started == [Rec(m) EXCEPT !.task = drv[m].op]
    IN  /\ At(m, "prepared")
        /\ Save(m, Saved(m, started))
        /\ Goto(m, "wait_task", started, drv[m].op)
        /\ UNCHANGED <<releases, confirmations, faults>>

\* The wait for the task, then for its candidate.
AwaitTask(m) ==
    LET task == tasks[m][drv[m].op]
    IN  /\ At(m, "wait_task") /\ task # "running"
        /\ IF task = "succeeded" /\ candidate[m] = "new"
           THEN Return(m, [Rec(m) EXCEPT !.task = drv[m].op])
           ELSE Throw(m, "other", 0)
        /\ UNCHANGED <<disk, releases, confirmations, faults>>

\* port.promote, which needs the candidate.
PromoteRelease(m) ==
    /\ At(m, "promote")
    /\ \/ candidate[m] = "new" /\ AsksConfirmation(m) /\ UNCHANGED releases
       \/ /\ candidate[m] = "new" /\ Authorized(m)
          /\ handover' = [handover EXCEPT ![m] = "started"]
          /\ handovers' = [handovers EXCEPT ![m] = @ + 1]
          /\ Goto(m, "wait_switch", Rec(m), 0) \/ Throw(m, "other", 0)
          /\ UNCHANGED <<tasks, active, candidate>>
       \/ Throw(m, "other", 0) /\ UNCHANGED <<releases, confirmations>>
    /\ UNCHANGED <<disk, faults>>

\* The wait for the release to be active, or the old one again without a candidate.
AwaitSwitch(m) ==
    /\ At(m, "wait_switch")
    /\ active[m] = "new" \/ candidate[m] = "none"
    /\ IF active[m] = "new" THEN Return(m, Rec(m)) ELSE Throw(m, "other", 0)
    /\ UNCHANGED <<disk, releases, confirmations, faults>>

\* until() gives up, or what it polls throws.
GiveUp(m) ==
    /\ drv[m].pc \in {"wait_task", "wait_switch"}
    /\ Throw(m, "other", 0)
    /\ UNCHANGED <<disk, releases, confirmations, faults>>

\* run() is over: driving.delete, after its last save.
Leave(m) ==
    /\ At(m, "leaving")
    /\ drv' = [drv EXCEPT ![m] = Idle]
    /\ UNCHANGED <<disk, releases, confirmations, faults>>

-----------------------------------------------------------------------------
\* The process of m ends and its successor recover()s what the record says is running.
Restarted(m) ==
    /\ drv' = [drv EXCEPT ![m] = IF disk[m].state = "running" THEN Driver("read", NoRecord, 0) ELSE Idle]
    /\ pending' = [pending EXCEPT ![m] = {}]
    /\ UNCHANGED <<disk, issued>>

Fault == faults < MaxFaults /\ faults' = faults + 1

Dies(m) ==
    /\ Fault
    /\ Restarted(m)
    /\ UNCHANGED releases

\* The prepare task of m ends; when it succeeds there is a candidate.
TaskEnds(m) ==
    \E n \in DOMAIN tasks[m] : \E end \in {"succeeded", "failed"} :
        /\ tasks[m][n] = "running"
        /\ tasks' = [tasks EXCEPT ![m][n] = end]
        /\ candidate' = IF end = "succeeded" THEN [candidate EXCEPT ![m] = "new"] ELSE candidate
        /\ UNCHANGED <<disk, drv, active, handover, handovers, confirmations, faults>>

-----------------------------------------------------------------------------
(* The handover that a promote starts: the broker of the node, the switch script of Windows.     *)
(* They are processes of their own: each goes on while the driver polls, and may stop for good   *)
(* (killed, or its undoing fails) after any of its steps.                                        *)

Handover(m, from, to) == handover[m] \in from /\ handover' = [handover EXCEPT ![m] = to]

Rewritten(m, now, next) ==
    active' = [active EXCEPT ![m] = now] /\ candidate' = [candidate EXCEPT ![m] = next]

\* The state file names the new release while the old process still runs.
CommitRelease(m) ==
    /\ Handover(m, {"started"}, "committed")
    /\ Rewritten(m, "new", "none")
    /\ UNCHANGED <<disk, drv, tasks, handovers, confirmations, faults>>

\* The process of the new release takes over from the old one.
ReplaceProcess(m) ==
    /\ Handover(m, {"committed"}, "replaced")
    /\ Restarted(m)
    /\ UNCHANGED <<tasks, active, candidate, handovers, faults>>

\* The gates after the switch are passed.
PassHandover(m) ==
    /\ Handover(m, {"replaced"}, "passed")
    /\ UNCHANGED <<disk, drv, tasks, active, candidate, handovers, confirmations, faults>>

\* A failure before the commit leaves the state file. The broker has replaced nothing yet; the
\* switch script puts the old task back, which restarts its process.
BrokerWithdraws ==
    /\ Handover("node", {"started"}, "withdrawn")
    /\ Fault
    /\ UNCHANGED <<disk, drv, tasks, active, candidate, handovers, confirmations>>

SwitchWithdraws ==
    /\ Handover("windows", {"started"}, "withdrawn")
    /\ Fault
    /\ Restarted("windows")
    /\ UNCHANGED <<tasks, active, candidate, handovers>>

\* A failure after the commit is undone in two steps, which the two machines take in opposite
\* orders. The state file gets back what it had before, candidate included, or stays when that
\* fails.
Undoes(m, first) ==
    IF first = (m = "node") THEN Handover(m, {"committed", "replaced"}, "failed") /\ Fault
                            ELSE Handover(m, {"failed"}, "rolled_back") /\ UNCHANGED faults

RestoreState(m) ==
    /\ Undoes(m, TRUE)
    /\ Rewritten(m, "old", "new") \/ UNCHANGED <<active, candidate>>
    /\ UNCHANGED <<disk, drv, tasks, handovers, confirmations>>

\* The process of the old release is started again.
RestartOld(m) ==
    /\ Undoes(m, FALSE)
    /\ Restarted(m)
    /\ UNCHANGED <<tasks, active, candidate, handovers>>
=============================================================================

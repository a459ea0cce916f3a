--------------------------- MODULE BackgroundTasks ---------------------------
(***************************************************************************)
(* BackgroundTaskManager (workspace-agent/src/tasks/): child processes     *)
(* that outlive the call that started them.  Every task has a record, in   *)
(* memory and in a file; the writes of one task are chained, and what a    *)
(* caller does after `await this.persist(...)` happens when its write      *)
(* completes.  start, execute, cancel, the refresh of recovered tasks and  *)
(* the removal of old ones interleave at these awaits.                     *)
(*                                                                         *)
(* All tasks belong to one workspace and one owner.  A record is its state *)
(* and whether it holds the pid of the child.  A pid is never reused.      *)
(***************************************************************************)
EXTENDS Naturals, Sequences, FiniteSets

CONSTANTS
    Tasks,          \* the task ids, each used by one start
    CommandOf,      \* the commandHash each would be started with
    NoRecord, NoTask,
    MaxRetained,    \* maxRetainedTerminalTasks
    MaxCrashes,     \* bound: exits of the agent
    MaxFailures     \* bound: failing writes

ASSUME TasksAssumption ==
    /\ IsFiniteSet(Tasks) /\ NoTask \notin Tasks
    /\ MaxRetained \in Nat \ {0} /\ MaxCrashes \in Nat /\ MaxFailures \in Nat

VARIABLES
    disk,           \* the record in the task's file
    records,        \* this.records
    writes,         \* this.writes: the chained writes, the first in progress
    landed,         \* the tasks whose first write is in the file and not yet in memory
    starting,       \* the call past startQueue, and the removal it waits for
    exec,           \* how far execute() is
    outcome,        \* what the runner made of the child
    cancelling,     \* how far cancel_background_task() is
    aborted,        \* the task's AbortController has fired
    proc,           \* the child process
    announced,      \* the tasks onTaskFinished was called for
    everCancelled,  \* the tasks whose record was cancelled at some time
    up, crashes, failures

memory == <<records, writes, landed, starting, exec, outcome, cancelling, aborted>>
bounds == <<up, crashes, failures>>
history == <<announced, everCancelled>>
vars == <<disk, memory, proc, history, bounds>>

Active == {"starting", "running"}
Terminal == {"succeeded", "failed", "cancelled"}
Record == [state : Active \cup Terminal, pid : BOOLEAN]
ASSUME RecordAssumption == NoRecord \notin Record

Origins == {"start", "run", "pid", "result", "failure", "cancel", "refresh"}
Write == [origin : Origins, rec : Record]
Phases == {"none", "persisting", "preparing", "resolving", "child", "resolved", "rejected",
           "persistingResult", "ending", "done", "leaked"}
Starts ==
    [task : Tasks \cup {NoTask}, victims : SUBSET Tasks,
     removing : Tasks \cup {NoTask},    \* the victim whose files are being removed
     unlinked : BOOLEAN]                \* all of them are gone
Idle == [task |-> NoTask, victims |-> {}, removing |-> NoTask, unlinked |-> FALSE]

In(t, states) == records[t] # NoRecord /\ records[t].state \in states

\* controllers.has(t): from start's persist to the end of execute.
Controlled(t) == exec[t] \notin {"none", "done"}

Init ==
    /\ disk = [t \in Tasks |-> NoRecord] /\ records = disk
    /\ writes = [t \in Tasks |-> <<>>] /\ landed = {}
    /\ starting = Idle
    /\ exec = [t \in Tasks |-> "none"]
    /\ outcome = [t \in Tasks |-> "failed"]
    /\ cancelling = [t \in Tasks |-> "no"]
    /\ aborted = [t \in Tasks |-> FALSE]
    /\ proc = [t \in Tasks |-> "none"]
    /\ announced = {} /\ everCancelled = {}
    /\ up = TRUE /\ crashes = 0 /\ failures = 0

Enqueue(t, origin, state, pid) ==
    writes' = [writes EXCEPT ![t] =
                 Append(@, [origin |-> origin, rec |-> [state |-> state, pid |-> pid]])]
-----------------------------------------------------------------------------
(* Recovered tasks.                                                        *)

\* processExists.
Exists(t) == proc[t] \in {"alive", "unstoppable"}

\* Mutant: a live child does not count.
InterruptedAlways(t) ==
    In(t, Active) /\ ~ Controlled(t)

\* refreshRecoveredTask finds an active record of no running execute() and no live
\* process.
Interrupted(t) ==
    In(t, Active) /\ ~ Controlled(t) /\ ~ (records[t].pid /\ Exists(t))

\* Mutant: a record without a pid is left as it is.
RefreshWithPid(t) ==
    /\ up /\ Interrupted(t) /\ writes[t] = <<>> /\ records[t].pid
    /\ Enqueue(t, "refresh", "failed", TRUE)
    /\ UNCHANGED <<disk, records, landed, starting, exec, outcome, cancelling, aborted, proc,
                   history, bounds>>

\* Every read of a record refreshes it first.
RefreshRecoveredTask(t) ==
    /\ up /\ Interrupted(t) /\ writes[t] = <<>>
    /\ Enqueue(t, "refresh", "failed", records[t].pid)
    /\ UNCHANGED <<disk, records, landed, starting, exec, outcome, cancelling, aborted, proc,
                   history, bounds>>
-----------------------------------------------------------------------------
(* start_background_task.                                                  *)

\* Records that age or number let pruneTerminalRecords remove.
Victims(S) ==
    {V \in SUBSET {t \in Tasks : S[t] # NoRecord /\ S[t].state \in Terminal} :
        Cardinality({t \in Tasks : S[t] # NoRecord /\ S[t].state \in Terminal} \ V) <= MaxRetained}

\* An id that randomUUID has not given to a task.
Unused(t) ==
    /\ disk[t] = NoRecord /\ records[t] = NoRecord
    /\ exec[t] = "none" /\ proc[t] = "none" /\ t \notin announced \cup everCancelled

\* Mutant: any number of tasks may run one command.
StartAnyTask(t) ==
    /\ up /\ starting = Idle
    /\ Unused(t)
    /\ \E V \in Victims(records) : starting' = [Idle EXCEPT !.task = t, !.victims = V]
    /\ UNCHANGED <<disk, records, writes, landed, exec, outcome, cancelling, aborted, proc,
                   history, bounds>>

\* The next call of the queue lists the tasks, having refreshed them, and finds none
\* that is active with its command.  A call that finds one returns it.
StartTask(t) ==
    /\ up /\ starting = Idle
    /\ Unused(t)
    /\ \A u \in Tasks : ~ Interrupted(u) /\ ~ (In(u, Active) /\ CommandOf[u] = CommandOf[t])
    /\ \E V \in Victims(records) : starting' = [Idle EXCEPT !.task = t, !.victims = V]
    /\ UNCHANGED <<disk, records, writes, landed, exec, outcome, cancelling, aborted, proc,
                   history, bounds>>

\* The next victim of pruneTerminalRecords: left alone if it is gone or active by now.
PruneChecks(u) ==
    /\ up /\ u \in starting.victims /\ starting.removing = NoTask
    /\ starting' = [starting EXCEPT !.victims = @ \ {u},
                                    !.removing = IF In(u, Terminal) THEN u ELSE NoTask]
    /\ UNCHANGED <<disk, records, writes, landed, exec, outcome, cancelling, aborted, proc,
                   history, bounds>>

\* Mutant: the file stays.
KeepsFile(u) ==
    /\ up /\ starting.removing = u /\ ~ starting.unlinked
    /\ starting' = [starting EXCEPT !.unlinked = TRUE]
    /\ UNCHANGED <<disk, records, writes, landed, exec, outcome, cancelling, aborted, proc,
                   history, bounds>>

\* removeTaskArtifacts: the last file to go is the one with the record.
RemoveFile(u) ==
    /\ up /\ starting.removing = u /\ ~ starting.unlinked
    /\ starting' = [starting EXCEPT !.unlinked = TRUE]
    /\ disk' = [disk EXCEPT ![u] = NoRecord]
    /\ UNCHANGED <<records, writes, landed, exec, outcome, cancelling, aborted, proc,
                   history, bounds>>

\* Its end: the record goes, whatever was written meanwhile.
DeleteRecord(u) ==
    /\ up /\ starting.removing = u /\ starting.unlinked
    /\ starting' = [starting EXCEPT !.removing = NoTask, !.unlinked = FALSE]
    /\ records' = [records EXCEPT ![u] = NoRecord]
    /\ UNCHANGED <<disk, writes, landed, exec, outcome, cancelling, aborted, proc,
                   history, bounds>>

\* The start's own persist is under way.
Persisting == \E i \in 1..Len(writes[starting.task]) : writes[starting.task][i].origin = "start"

\* A file cannot be removed, or the new task's files cannot be created: the call rejects.
StartFails ==
    /\ up /\ starting.task # NoTask /\ ~ starting.unlinked /\ ~ Persisting
    /\ failures < MaxFailures /\ failures' = failures + 1
    /\ starting' = Idle
    /\ UNCHANGED <<disk, records, writes, landed, exec, outcome, cancelling, aborted, proc,
                   history, up, crashes>>

StartPersists ==
    /\ up /\ starting.task # NoTask /\ starting.victims = {} /\ starting.removing = NoTask
    /\ ~ Persisting
    /\ Enqueue(starting.task, "start", "starting", FALSE)
    /\ UNCHANGED <<disk, records, landed, starting, exec, outcome, cancelling, aborted, proc,
                   history, bounds>>
-----------------------------------------------------------------------------
(* execute.                                                                *)

\* The runner looks at the signal once, between two awaits, before it spawns.
Prepare(t) ==
    /\ up /\ exec[t] = "preparing"
    /\ exec' = [exec EXCEPT ![t] = IF aborted[t] THEN "rejected" ELSE "resolving"]
    /\ outcome' = [outcome EXCEPT ![t] = "failed"]
    /\ UNCHANGED <<disk, records, writes, landed, starting, cancelling, aborted, proc, history, bounds>>

\* It spawns the child, although the signal may have fired, and hands over its pid:
\* onPid persists the record as execute() knows it.
Spawn(t) ==
    /\ up /\ exec[t] = "resolving"
    /\ proc' = [proc EXCEPT ![t] = "alive"]
    /\ exec' = [exec EXCEPT ![t] = "child"]
    /\ Enqueue(t, "pid", "running", TRUE)
    /\ UNCHANGED <<disk, records, landed, starting, outcome, cancelling, aborted, history, bounds>>

SpawnFails(t) ==
    /\ up /\ exec[t] = "resolving"
    /\ exec' = [exec EXCEPT ![t] = "rejected"]
    /\ outcome' = [outcome EXCEPT ![t] = "failed"]
    /\ UNCHANGED <<disk, records, writes, landed, starting, cancelling, aborted, proc, history, bounds>>

\* The child exits by itself or at its timeout: the runner resolves, or rejects when it
\* could not keep the output.  Once aborted, it kills the child and rejects.
ChildCloses(t) ==
    /\ up /\ exec[t] = "child"
    /\ proc' = [proc EXCEPT ![t] = "gone"]
    /\ \/ /\ ~ aborted[t]
          /\ exec' = [exec EXCEPT ![t] = "resolved"]
          /\ \E o \in {"succeeded", "failed"} : outcome' = [outcome EXCEPT ![t] = o]
       \/ /\ exec' = [exec EXCEPT ![t] = "rejected"]
          /\ outcome' = [outcome EXCEPT ![t] = "failed"]
    /\ UNCHANGED <<disk, records, writes, landed, starting, cancelling, aborted, history, bounds>>

\* At the timeout or the abort the process tree cannot be killed: the runner rejects and
\* the child goes on.
TerminationFails(t) ==
    /\ up /\ exec[t] = "child"
    /\ proc' = [proc EXCEPT ![t] = "unstoppable"]
    /\ exec' = [exec EXCEPT ![t] = "rejected"]
    /\ outcome' = [outcome EXCEPT ![t] = "failed"]
    /\ UNCHANGED <<disk, records, writes, landed, starting, cancelling, aborted, history, bounds>>

\* The latest record is read after the writes under way.  A cancelled task ends here.
EndsCancelled(t) ==
    /\ up /\ exec[t] \in {"resolved", "rejected"} /\ writes[t] = <<>>
    /\ In(t, {"cancelled"})
    /\ exec' = [exec EXCEPT ![t] = "done"]
    /\ UNCHANGED <<disk, records, writes, landed, starting, outcome, cancelling, aborted, proc,
                   history, bounds>>

EndsResolved(t) ==
    /\ up /\ exec[t] = "resolved" /\ writes[t] = <<>> /\ ~ In(t, {"cancelled"})
    /\ exec' = [exec EXCEPT ![t] = "persistingResult"]
    /\ UNCHANGED <<disk, records, writes, landed, starting, outcome, cancelling, aborted, proc,
                   history, bounds>>

\* Mutant: the end is announced before the record is written.
ResultAnnounced(t) ==
    /\ up /\ exec[t] = "persistingResult"
    /\ exec' = [exec EXCEPT ![t] = "ending"]
    /\ announced' = announced \cup {t}
    /\ Enqueue(t, "result", outcome[t], proc[t] # "none")
    /\ UNCHANGED <<disk, records, landed, starting, outcome, cancelling, aborted, proc,
                   everCancelled, bounds>>

\* persistResult is done, or fails into the catch block.
ResultPersisted(t) ==
    /\ up /\ exec[t] = "persistingResult"
    /\ \/ /\ exec' = [exec EXCEPT ![t] = "ending"]
          /\ Enqueue(t, "result", outcome[t], proc[t] # "none")
          /\ UNCHANGED <<outcome, failures>>
       \/ /\ failures < MaxFailures /\ failures' = failures + 1
          /\ exec' = [exec EXCEPT ![t] = "rejected"]
          /\ outcome' = [outcome EXCEPT ![t] = "failed"]
          /\ UNCHANGED writes
    /\ UNCHANGED <<disk, records, landed, starting, cancelling, aborted, proc, history, up, crashes>>

\* The catch block.
EndsRejected(t) ==
    /\ up /\ exec[t] = "rejected" /\ writes[t] = <<>> /\ ~ In(t, {"cancelled"})
    /\ exec' = [exec EXCEPT ![t] = "ending"]
    /\ Enqueue(t, "failure", "failed", proc[t] # "none")
    /\ UNCHANGED <<disk, records, landed, starting, outcome, cancelling, aborted, proc, history, bounds>>
-----------------------------------------------------------------------------
(* cancel_background_task.                                                 *)

Cancel(t) ==
    /\ up /\ cancelling[t] = "no" /\ writes[t] = <<>>
    /\ In(t, Active) /\ ~ Interrupted(t)
    /\ cancelling' = [cancelling EXCEPT ![t] = "persisting"]
    /\ Enqueue(t, "cancel", "cancelled", records[t].pid)
    /\ UNCHANGED <<disk, records, landed, starting, exec, outcome, aborted, proc, history, bounds>>

\* Mutant: the call does not wait for the execution.
CancelReturnsAtOnce(t) ==
    /\ up /\ cancelling[t] = "awaiting"
    /\ cancelling' = [cancelling EXCEPT ![t] = "no"]
    /\ UNCHANGED <<disk, records, writes, landed, starting, exec, outcome, aborted, proc, history, bounds>>

\* The execution the call waited for has ended.
CancelReturns(t) ==
    /\ up /\ cancelling[t] = "awaiting" /\ exec[t] \in {"none", "done", "leaked"}
    /\ cancelling' = [cancelling EXCEPT ![t] = "no"]
    /\ UNCHANGED <<disk, records, writes, landed, starting, exec, outcome, aborted, proc, history, bounds>>
-----------------------------------------------------------------------------
(* persist.                                                                *)

\* What the write of w, now done, lets its caller do: start takes up execute(), which
\* persists again; execute() goes on or announces the end; cancel stops the child.
Resumes(t, w) ==
    \/ /\ w.origin = "start"
       /\ starting' = Idle
       /\ exec' = [exec EXCEPT ![t] = "persisting"]
       /\ writes' = [writes EXCEPT ![t] =
            Append(Tail(@), [origin |-> "run", rec |-> [state |-> "running", pid |-> FALSE]])]
       /\ UNCHANGED <<cancelling, aborted, proc, announced>>
    \/ /\ w.origin = "run"
       /\ exec' = [exec EXCEPT ![t] = "preparing"]
       /\ writes' = [writes EXCEPT ![t] = Tail(@)]
       /\ UNCHANGED <<starting, cancelling, aborted, proc, announced>>
    \/ /\ w.origin \in {"pid", "refresh"}
       /\ writes' = [writes EXCEPT ![t] = Tail(@)]
       /\ UNCHANGED <<starting, exec, cancelling, aborted, proc, announced>>
    \/ /\ w.origin \in {"result", "failure"}
       /\ exec' = [exec EXCEPT ![t] = "done"]
       /\ announced' = announced \cup {t}
       /\ writes' = [writes EXCEPT ![t] = Tail(@)]
       /\ UNCHANGED <<starting, cancelling, aborted, proc>>
    \/ /\ w.origin = "cancel" /\ Controlled(t)
       /\ aborted' = [aborted EXCEPT ![t] = TRUE]
       /\ cancelling' = [cancelling EXCEPT ![t] = "awaiting"]
       /\ writes' = [writes EXCEPT ![t] = Tail(@)]
       /\ UNCHANGED <<starting, exec, proc, announced>>
    \/ /\ w.origin = "cancel" /\ ~ Controlled(t)
       /\ \/ ~ (w.rec.pid /\ Exists(t)) /\ UNCHANGED proc
          \/ /\ w.rec.pid /\ Exists(t)
             /\ \E p \in {"gone", "unstoppable"} : proc' = [proc EXCEPT ![t] = p]
       /\ cancelling' = [cancelling EXCEPT ![t] = "no"]
       /\ writes' = [writes EXCEPT ![t] = Tail(@)]
       /\ UNCHANGED <<starting, exec, aborted, announced>>

\* The first write of the chain is on disk.
WriteLands(t) ==
    /\ up /\ writes[t] # <<>> /\ t \notin landed
    /\ landed' = landed \cup {t}
    /\ disk' = [disk EXCEPT ![t] = Head(writes[t]).rec]
    /\ everCancelled' = everCancelled \cup {u \in {t} : Head(writes[t]).rec.state = "cancelled"}
    /\ UNCHANGED <<records, writes, starting, exec, outcome, cancelling, aborted, proc,
                   announced, bounds>>

\* Then it is in memory, and the caller goes on.
WriteCompletes(t) ==
    /\ up /\ writes[t] # <<>> /\ t \in landed
    /\ landed' = landed \ {t}
    /\ records' = [records EXCEPT ![t] = Head(writes[t]).rec]
    /\ Resumes(t, Head(writes[t]))
    /\ UNCHANGED <<disk, outcome, everCancelled, bounds>>

\* The first write fails, and with it the ones chained behind it.  The file is the old one
\* or, in the fallback of writeTextAtomically, already removed.  A rejected persist of
\* onPid is nobody's: the agent exits (Crash).  execute() fails before its try, with its
\* controller left registered, in it, or in its catch block.
WriteFails(t) ==
    /\ up /\ writes[t] # <<>> /\ t \notin landed /\ failures < MaxFailures
    /\ failures' = failures + 1
    /\ LET failed == {writes[t][i].origin : i \in 1..Len(writes[t])} IN
        /\ "pid" \notin failed
        /\ starting' = IF "start" \in failed THEN Idle ELSE starting
        /\ exec' = [exec EXCEPT ![t] = IF "run" \in failed THEN "leaked"
                                       ELSE IF "result" \in failed THEN "rejected"
                                       ELSE IF "failure" \in failed THEN "done" ELSE @]
        /\ outcome' = [outcome EXCEPT ![t] = IF "result" \in failed THEN "failed" ELSE @]
        /\ cancelling' = [cancelling EXCEPT ![t] = IF "cancel" \in failed THEN "no" ELSE @]
    /\ writes' = [writes EXCEPT ![t] = <<>>]
    /\ \E file \in {disk[t], NoRecord} : disk' = [disk EXCEPT ![t] = file]
    /\ UNCHANGED <<records, landed, aborted, proc, history, up, crashes>>
-----------------------------------------------------------------------------
(* The agent's process.                                                    *)

\* The file a write was replacing is the old one or, in the fallback of
\* writeTextAtomically, already removed.  The children live on.
Crash ==
    /\ up /\ crashes < MaxCrashes
    /\ up' = FALSE /\ crashes' = crashes + 1
    /\ \E lost \in SUBSET {t \in Tasks \ landed : writes[t] # <<>>} :
        disk' = [t \in Tasks |-> IF t \in lost THEN NoRecord ELSE disk[t]]
    /\ landed' = {}
    /\ records' = [t \in Tasks |-> NoRecord]
    /\ writes' = [t \in Tasks |-> <<>>]
    /\ starting' = Idle
    /\ exec' = [t \in Tasks |-> "none"]
    /\ cancelling' = [t \in Tasks |-> "no"]
    /\ aborted' = [t \in Tasks |-> FALSE]
    /\ outcome' = [t \in Tasks |-> "failed"]
    /\ UNCHANGED <<proc, history, failures>>

\* initialize loads the files and prunes.
Initialize ==
    /\ ~ up /\ up' = TRUE
    /\ \E V \in Victims(disk) :
        /\ records' = [t \in Tasks |-> IF t \in V THEN NoRecord ELSE disk[t]]
        /\ disk' = records'
    /\ UNCHANGED <<writes, landed, starting, exec, outcome, cancelling, aborted, proc, history,
                   crashes, failures>>

\* A child that lost its agent, or that could not be killed, exits.
OrphanExits(t) ==
    /\ (proc[t] = "alive" /\ exec[t] = "none") \/ proc[t] = "unstoppable"
    /\ proc' = [proc EXCEPT ![t] = "gone"]
    /\ UNCHANGED <<disk, memory, history, bounds>>
-----------------------------------------------------------------------------
Executes(t) ==
    \/ Prepare(t) \/ Spawn(t) \/ SpawnFails(t) \/ ChildCloses(t)
    \/ TerminationFails(t) \/ EndsCancelled(t) \/ EndsResolved(t)
    \/ ResultPersisted(t) \/ EndsRejected(t)

\* One victim of a removal.
Prunes(u) == PruneChecks(u) \/ RemoveFile(u) \/ DeleteRecord(u)

Next ==
    \/ \E t \in Tasks :
        \/ StartTask(t) \/ Prunes(t) \/ Executes(t)
        \/ Cancel(t) \/ CancelReturns(t) \/ RefreshRecoveredTask(t)
        \/ WriteLands(t) \/ WriteCompletes(t) \/ WriteFails(t) \/ OrphanExits(t)
    \/ StartFails \/ StartPersists \/ Crash \/ Initialize

Spec == Init /\ [][Next]_vars

\* The event loop resumes execute() and the writes, a child ends or is stopped at its
\* timeout, the agent is started again, and somebody asks for the tasks.
FairSpec ==
    /\ Spec
    /\ \A t \in Tasks :
        /\ WF_vars(Executes(t)) /\ WF_vars(WriteLands(t) \/ WriteCompletes(t))
        /\ WF_vars(RefreshRecoveredTask(t))
    /\ WF_vars(Initialize)
-----------------------------------------------------------------------------
TypeOK ==
    /\ disk \in [Tasks -> Record \cup {NoRecord}]
    /\ records \in [Tasks -> Record \cup {NoRecord}]
    /\ writes \in [Tasks -> Seq(Write)]
    /\ landed \in SUBSET Tasks
    /\ starting \in Starts
    /\ exec \in [Tasks -> Phases]
    /\ outcome \in [Tasks -> {"succeeded", "failed"}]
    /\ cancelling \in [Tasks -> {"no", "persisting", "awaiting"}]
    /\ aborted \in [Tasks -> BOOLEAN]
    /\ proc \in [Tasks -> {"none", "alive", "unstoppable", "gone"}]
    /\ announced \in SUBSET Tasks /\ everCancelled \in SUBSET Tasks
    /\ up \in BOOLEAN /\ crashes \in 0..MaxCrashes /\ failures \in 0..MaxFailures

\* One task at most runs a command (the duplicate check of start_background_task): two
\* are active with the same one only after one of them was cancelled.
OneActivePerCommand ==
    \A t, u \in Tasks :
        t # u /\ CommandOf[t] = CommandOf[u] /\ In(t, Active) /\ In(u, Active) =>
            {t, u} \cap everCancelled # {}

\* A task is reported as ended while its record has the pid only if the child is gone or
\* could not be killed: neither execute() nor the refresh after a restart gives up a
\* child that was left to run.
EndedChildIsGone ==
    \A t \in Tasks : In(t, {"succeeded", "failed"}) /\ records[t].pid => proc[t] # "alive"

\* What onTaskFinished announced is on disk: a restart does not find the task active.
AnnouncedIsPersisted ==
    \A t \in announced : disk[t] # NoRecord => disk[t].state \in Terminal

\* The file of a task holds what memory holds, or nothing, once no write and no removal of
\* it is under way: a restart finds what callers were told, and what pruneTerminalRecords
\* removed does not come back.  The task of which this does not hold is one that was
\* cancelled: its execution may still write while its record is removed.
FileMatchesMemory ==
    \A t \in Tasks :
        up /\ writes[t] = <<>> /\ starting.removing # t /\ t \notin everCancelled =>
            disk[t] \in {records[t], NoRecord}

\* cancel_background_task returns when the child is gone, or was tried to be killed,
\* whether it aborts an execution or terminates the child of a recovered task, unless
\* its own write fails.
CancelReturnsWhenChildGone ==
    [][\A t \in Tasks :
        cancelling[t] # "no" /\ cancelling'[t] = "no" /\ up' /\ failures' = failures =>
            proc'[t] # "alive"]_vars

\* "keeps cancelled as its terminal state" (a test of cancel_background_task): a record
\* that is cancelled does not become active again.
CancelledStaysTerminal ==
    [][\A t \in Tasks : In(t, {"cancelled"}) => ~ In(t, Active)']_vars

\* Every task ends: its record becomes terminal, unless a child without an
\* execution goes on, or a failed write left the task without one and yet registered.
TasksEnd ==
    \A t \in Tasks :
        In(t, Active) ~> \/ ~ In(t, Active)
                         \/ exec[t] = "leaked"
                         \/ ~ Controlled(t) /\ Exists(t)
=============================================================================

------------------------ MODULE BackgroundTasksProofs ------------------------
(***************************************************************************)
(* Proofs, for every number of tasks, commands, crashes and failing        *)
(* writes, that BackgroundTaskManager runs one task per command, gives up  *)
(* no child, keeps files and memory equal, announces what is on disk, and  *)
(* cancels what it says it did.                                            *)
(***************************************************************************)
EXTENDS BackgroundTasks, TLAPS

Ended == {"succeeded", "failed"}
OnDisk(t, states) == disk[t] # NoRecord /\ disk[t].state \in states
Anywhere(t, states) == OnDisk(t, states) \/ In(t, states)

\* What the file of a task will hold after each of the writes.
StatesOf(origin) ==
    CASE origin = "start" -> {"starting"}
      [] origin \in {"run", "pid"} -> {"running"}
      [] origin = "cancel" -> {"cancelled"}
      [] OTHER -> Ended

\* A write that is under way is one its caller waits for, or onPid's.
Legal(t, w) ==
    /\ w.rec.state \in StatesOf(w.origin)
    /\ w.rec.state \in Ended /\ w.rec.pid => proc[t] # "alive"
    /\ w.origin = "start" => starting.task = t
    /\ w.origin = "run" => exec[t] = "persisting"
    /\ w.origin = "pid" => exec[t] \in {"child", "resolved", "rejected"}
    /\ w.origin \in {"result", "failure"} => exec[t] = "ending"
    /\ w.origin = "refresh" => exec[t] \in {"none", "done"}
    /\ w.origin = "cancel" /\ exec[t] = "none" => w.rec.pid
    /\ w.origin \in {"cancel", "refresh"} => t \in everCancelled \/ In(t, Active)

\* Writes are chained only behind a cancellation.
Chained(t) ==
    /\ Len(writes[t]) <= 2
    /\ Len(writes[t]) = 2 => writes[t][1].origin = "cancel" /\ writes[t][2].origin \in {"pid", "result"}
    /\ \A i \in 1..Len(writes[t]) : Legal(t, writes[t][i])

\* A task that is being started has left no trace yet.
StartsAfresh(t) ==
    starting.task = t =>
        /\ records[t] = NoRecord /\ exec[t] = "none" /\ proc[t] = "none"
        /\ t \notin announced /\ t \notin everCancelled
        /\ \A i \in 1..Len(writes[t]) : writes[t][i].origin = "start"

\* The child, the execution and the records of a task.
Agree(t) ==
    /\ proc[t] = "alive" => exec[t] \in {"child", "none"}
    /\ exec[t] \in {"persisting", "preparing", "resolving"} => ~ Anywhere(t, Ended)
    /\ OnDisk(t, Ended) /\ disk[t].pid => proc[t] # "alive"
    /\ In(t, Ended) /\ records[t].pid => proc[t] # "alive"
    /\ Controlled(t) => t \in everCancelled \/ In(t, Active)
    /\ t \in announced => exec[t] \in {"none", "done"} /\ ~ Anywhere(t, Active)
    /\ cancelling[t] = "awaiting" => exec[t] # "none"
    /\ Anywhere(t, {"cancelled"}) => t \in everCancelled

\* The file while a write is on its way from there to memory, at rest, and while the task
\* is removed.  Only a cancelled task can be written during its removal.
FileAgrees(t) ==
    /\ t \in landed => /\ writes[t] # <<>>
                       /\ disk[t] \in {Head(writes[t]).rec, NoRecord}
                       /\ Head(writes[t]).rec.state = "cancelled" => t \in everCancelled
    /\ up /\ t \notin everCancelled /\ t \notin landed => disk[t] \in {records[t], NoRecord}
    /\ starting.removing = t /\ t \notin everCancelled =>
          In(t, Ended) /\ writes[t] = <<>> /\ (starting.unlinked => disk[t] = NoRecord)

TaskInv(t) == Chained(t) /\ StartsAfresh(t) /\ Agree(t) /\ FileAgrees(t)

\* Memory is empty while the agent is down.
Loaded ==
    /\ starting.removing = NoTask => ~ starting.unlinked
    /\ ~ up => /\ starting = Idle
               /\ \A t \in Tasks : /\ records[t] = NoRecord /\ exec[t] = "none"
                                   /\ writes[t] = <<>> /\ t \notin landed

\* The command is taken by the task that runs it, or is about to.
Claims(t) == t \notin everCancelled /\ (Anywhere(t, Active) \/ starting.task = t)
ClaimedOnce ==
    \A t, u \in Tasks : CommandOf[t] = CommandOf[u] /\ Claims(t) /\ Claims(u) => t = u

\* The inductive invariant.
TasksInv == TypeOK /\ Loaded /\ ClaimedOnce /\ \A t \in Tasks : TaskInv(t)
------------------------------------------------------------------------------
(* Types.                                                                  *)

\* A persist() of task t appends w to its chain.
Appended(t, w) == writes' = [writes EXCEPT ![t] = Append(writes[t], w)]

\* What each persist() appends.
LEMMA Persists ==
    ASSUME TypeOK, NEW t \in Tasks
    PROVE  /\ Enqueue(t, "start", "starting", FALSE) =>
                  \E w \in Write : w.origin = "start" /\ w.rec.state = "starting" /\ Appended(t, w)
           /\ Spawn(t) =>
                  \E w \in Write : w.origin = "pid" /\ w.rec.state = "running" /\ Appended(t, w)
           /\ Enqueue(t, "result", outcome[t], proc[t] # "none") =>
                  \E w \in Write : w.origin = "result" /\ w.rec.state \in Ended /\ Appended(t, w)
           /\ EndsRejected(t) =>
                  \E w \in Write : w.origin = "failure" /\ w.rec.state = "failed" /\ Appended(t, w)
           /\ Cancel(t) =>
                  \E w \in Write : /\ w.origin = "cancel" /\ w.rec.state = "cancelled" /\ Appended(t, w)
                                   /\ records[t].pid => w.rec.pid
           /\ RefreshRecoveredTask(t) =>
                  \E w \in Write : /\ w.origin = "refresh" /\ w.rec.state = "failed" /\ Appended(t, w)
                                   /\ w.rec.pid => records[t].pid
  <1> DEFINE w(o, st, p) == [origin |-> o, rec |-> [state |-> st, pid |-> p]]
  <1>1. /\ w("start", "starting", FALSE) \in Write /\ w("pid", "running", TRUE) \in Write
        /\ w("failure", "failed", proc[t] # "none") \in Write
    BY Zenon DEF Write, Record, Origins, Active, Terminal
  <1>2. w("result", outcome[t], proc[t] # "none") \in Write /\ outcome[t] \in Ended
    BY Zenon DEF Write, Record, Origins, Terminal, TypeOK, Ended
  <1>3. In(t, Active) => records[t].pid \in BOOLEAN
    BY Zenon DEF TypeOK, In, Record
  <1>4. In(t, Active) => w("cancel", "cancelled", records[t].pid) \in Write
    BY <1>3, Zenon DEF Write, Record, Origins, Terminal
  <1>5. In(t, Active) => w("refresh", "failed", records[t].pid) \in Write
    BY <1>3, Zenon DEF Write, Record, Origins, Terminal
  <1>6. Enqueue(t, "start", "starting", FALSE) =>
            \E x \in Write : x.origin = "start" /\ x.rec.state = "starting" /\ Appended(t, x)
    BY <1>1, Zenon DEF Enqueue, Appended
  <1>7. Spawn(t) => \E x \in Write : x.origin = "pid" /\ x.rec.state = "running" /\ Appended(t, x)
    BY <1>1, Zenon DEF Spawn, Enqueue, Appended
  <1>8. Enqueue(t, "result", outcome[t], proc[t] # "none") =>
            \E x \in Write : x.origin = "result" /\ x.rec.state \in Ended /\ Appended(t, x)
    BY <1>2, Zenon DEF Enqueue, Appended
  <1>9. EndsRejected(t) => \E x \in Write : x.origin = "failure" /\ x.rec.state = "failed" /\ Appended(t, x)
    BY <1>1, Zenon DEF EndsRejected, Enqueue, Appended
  <1>10. Cancel(t) => \E x \in Write : /\ x.origin = "cancel" /\ x.rec.state = "cancelled" /\ Appended(t, x)
                                       /\ records[t].pid => x.rec.pid
    BY <1>4, Zenon DEF Cancel, Enqueue, Appended
  <1>11. RefreshRecoveredTask(t) =>
            \E x \in Write : /\ x.origin = "refresh" /\ x.rec.state = "failed" /\ Appended(t, x)
                             /\ x.rec.pid => records[t].pid
    BY <1>5, Zenon DEF RefreshRecoveredTask, Interrupted, Enqueue, Appended
  <1> QED BY <1>6, <1>7, <1>8, <1>9, <1>10, <1>11, Zenon

\* The rows of a chain after one was appended, or its first one taken away.
LEMMA ChainRows ==
    ASSUME NEW q \in Seq(Write), NEW w \in Write
    PROVE  /\ \A i \in 1..Len(Append(q, w)) :
                  Append(q, w)[i] = w \/ \E j \in 1..Len(q) : Append(q, w)[i] = q[j]
           /\ Len(Append(q, w)) = Len(q) + 1
           /\ q # <<>> => /\ Head(q) = q[1] /\ Len(q) # 0
                          /\ Tail(q) \in Seq(Write) /\ Len(Tail(q)) = Len(q) - 1
                          /\ \A i \in 1..Len(Tail(q)) : Tail(q)[i] = q[i + 1]
  OBVIOUS

\* A start queue entry is a task and what it prunes.
LEMMA IdleIsTyped == Idle \in Starts /\ Idle.task = NoTask /\ Idle.removing = NoTask /\ ~ Idle.unlinked
  BY Zenon DEF Idle, Starts

\* What completes or fails a write keeps the types.
LEMMA WriteTypes ==
    ASSUME TypeOK, NEW t \in Tasks, WriteLands(t) \/ WriteCompletes(t) \/ WriteFails(t)
    PROVE  TypeOK'
  <1> USE DEF TypeOK
  <1>1. PICK q \in Seq(Write) : q = writes[t] /\ q # <<>>
    BY DEF WriteLands, WriteCompletes, WriteFails
  <1>0. Head(q) \in Write /\ Head(q).rec \in Record /\ Tail(q) \in Seq(Write)
    <2>1. Head(q) \in Write /\ Tail(q) \in Seq(Write)
      BY <1>1
    <2> QED BY <2>1, Zenon DEF Write
  <1>2. CASE WriteCompletes(t)
    <2>1. Head(q) \in Write /\ Head(q).rec \in Record /\ Tail(q) \in Seq(Write)
      BY <1>0, Zenon
    <2>2. /\ records' \in [Tasks -> Record \cup {NoRecord}]
          /\ landed' \in SUBSET Tasks
          /\ UNCHANGED <<disk, everCancelled, outcome, up, crashes, failures>>
      BY <1>1, <1>2, <2>1, Zenon DEF WriteCompletes, bounds
    <2>3. Resumes(t, Head(q))
      BY <1>1, <1>2, Zenon DEF WriteCompletes
    <2> DEFINE w == Head(q)
               run == [origin |-> "run", rec |-> [state |-> "running", pid |-> FALSE]]
    <2>4. run \in Write
      BY Zenon DEF Write, Record, Origins, Active
    <2>5. Append(Tail(q), run) \in Seq(Write)
      BY <2>1, <2>4
    <2>6. /\ starting' \in {starting, Idle}
          /\ \E e \in Phases : exec' = exec \/ exec' = [exec EXCEPT ![t] = e]
          /\ \E e \in {"no", "awaiting"} : cancelling' = cancelling \/ cancelling' = [cancelling EXCEPT ![t] = e]
          /\ aborted' \in {aborted, [aborted EXCEPT ![t] = TRUE]}
          /\ \E e \in {"gone", "unstoppable"} : proc' = proc \/ proc' = [proc EXCEPT ![t] = e]
          /\ announced' \in {announced, announced \cup {t}}
      BY <2>3, Zenon DEF Resumes, Phases
    <2>7. /\ writes' = [writes EXCEPT ![t] = Tail(q)] \/ writes' = [writes EXCEPT ![t] = Append(Tail(q), run)]
      BY <1>1, <2>3, Zenon DEF Resumes
    <2> HIDE DEF run
    <2>8. writes' \in [Tasks -> Seq(Write)]
      BY <2>1, <2>5, <2>7, Zenon
    <2>9. exec' \in [Tasks -> Phases] /\ cancelling' \in [Tasks -> {"no", "persisting", "awaiting"}]
      <3>1. PICK e \in Phases : exec' = exec \/ exec' = [exec EXCEPT ![t] = e]
        BY <2>6, Zenon
      <3>2. PICK k \in {"no", "awaiting"} : cancelling' = cancelling \/ cancelling' = [cancelling EXCEPT ![t] = k]
        BY <2>6, Zenon
      <3>3. exec' \in [Tasks -> Phases]
        BY <3>1, Zenon
      <3>4. cancelling' \in [Tasks -> {"no", "persisting", "awaiting"}]
        BY <3>2, Zenon
      <3> QED BY <3>3, <3>4, Zenon
    <2>10. proc' \in [Tasks -> {"none", "alive", "unstoppable", "gone"}]
      BY <2>6, Zenon
    <2>11. aborted' \in [Tasks -> BOOLEAN] /\ announced' \in SUBSET Tasks
      BY <2>6, Zenon
    <2> QED BY <2>2, <2>6, <2>8, <2>9, <2>10, <2>11, IdleIsTyped
  <1>3. CASE WriteFails(t)
    <2>1. /\ UNCHANGED <<records, landed, aborted, proc, announced, everCancelled, up, crashes>>
          /\ disk' \in [Tasks -> Record \cup {NoRecord}]
      <3>1. /\ UNCHANGED <<records, landed, aborted, proc, announced, everCancelled, up, crashes>>
            /\ \E file \in {disk[t], NoRecord} : disk' = [disk EXCEPT ![t] = file]
        BY <1>3, Zenon DEF WriteFails, history
      <3>2. disk[t] \in Record \cup {NoRecord}
        BY Zenon
      <3> QED BY <3>1, <3>2, Zenon
    <2>2. /\ starting' \in {starting, Idle}
          /\ exec' \in [Tasks -> Phases]
          /\ outcome' \in [Tasks -> {"succeeded", "failed"}]
          /\ cancelling' \in [Tasks -> {"no", "persisting", "awaiting"}]
      BY <1>3, Zenon DEF WriteFails, Phases
    <2>3. writes' \in [Tasks -> Seq(Write)]
      BY <1>3 DEF WriteFails
    <2>4. failures' \in 0..MaxFailures
      BY <1>3, TasksAssumption DEF WriteFails
    <2> QED BY <2>1, <2>2, <2>3, <2>4, IdleIsTyped
  <1>4. CASE WriteLands(t)
    BY <1>0, <1>1, <1>4, Zenon DEF WriteLands, bounds
  <1> QED BY <1>2, <1>3, <1>4, Zenon

\* What appends a write keeps the types.
LEMMA AppendTypes ==
    ASSUME TypeOK, NEW t \in Tasks, NEW w \in Write, Appended(t, w),
           UNCHANGED <<disk, records, landed, aborted, announced, everCancelled>>,
           UNCHANGED <<up, crashes, starting, outcome, failures>>,
           exec' \in [Tasks -> Phases],
           cancelling' \in [Tasks -> {"no", "persisting", "awaiting"}],
           proc' \in [Tasks -> {"none", "alive", "unstoppable", "gone"}]
    PROVE  TypeOK'
  <1>1. writes' \in [Tasks -> Seq(Write)]
    BY DEF TypeOK, Appended
  <1> QED BY <1>1, Zenon DEF TypeOK

\* Every step keeps the types.
LEMMA TypeStep == TypeOK /\ [Next]_vars => TypeOK'
  <1> SUFFICES ASSUME TypeOK, [Next]_vars
               PROVE  TypeOK'
    BY Zenon
  <1>1. ASSUME NEW t \in Tasks, StartTask(t) \/ Prunes(t)
        PROVE  TypeOK'
    <2> USE DEF TypeOK
    <2>1. starting' \in Starts
      <3>1. CASE StartTask(t)
        <4>1. PICK V \in Victims(records) : starting' = [Idle EXCEPT !.task = t, !.victims = V]
          BY <3>1, Zenon DEF StartTask
        <4>2. V \in SUBSET Tasks
          BY Zenon DEF Victims
        <4> QED BY <4>1, <4>2, IdleIsTyped, Zenon DEF Starts
      <3>2. CASE Prunes(t)
        <4>1. CASE PruneChecks(t)
          <5>1. starting.victims \ {t} \in SUBSET Tasks
            BY Zenon DEF Starts
          <5>2. PICK r \in Tasks \cup {NoTask} :
                  starting' = [starting EXCEPT !.victims = starting.victims \ {t}, !.removing = r]
            BY <4>1, Zenon DEF PruneChecks
          <5> QED BY <5>1, <5>2, Zenon DEF Starts
        <4>2. CASE RemoveFile(t)
          BY <4>2, Zenon DEF RemoveFile, Starts
        <4>3. CASE DeleteRecord(t)
          BY <4>3, Zenon DEF DeleteRecord, Starts
        <4> QED BY <3>2, <4>1, <4>2, <4>3, Zenon DEF Prunes
      <3> QED BY <1>1, <3>1, <3>2, Zenon
    <2>2. /\ disk' \in [Tasks -> Record \cup {NoRecord}] /\ records' \in [Tasks -> Record \cup {NoRecord}]
          /\ UNCHANGED <<writes, landed, exec, outcome, cancelling, aborted, proc, history, bounds>>
      BY <1>1, Zenon DEF StartTask, Prunes, PruneChecks, RemoveFile, DeleteRecord
    <2> QED BY <2>1, <2>2, Zenon DEF history, bounds
  <1>2. ASSUME NEW t \in Tasks,
               \/ Prepare(t) \/ SpawnFails(t) \/ ChildCloses(t) \/ TerminationFails(t)
               \/ EndsCancelled(t) \/ EndsResolved(t) \/ CancelReturns(t) \/ OrphanExits(t)
        PROVE  TypeOK'
    <2> USE DEF TypeOK
    <2>1. /\ UNCHANGED <<disk, records, writes, landed, starting, aborted, announced, everCancelled>>
          /\ UNCHANGED <<up, crashes, failures>>
      BY <1>2, Zenon DEF Prepare, SpawnFails, ChildCloses, TerminationFails, EndsCancelled, EndsResolved,
         CancelReturns, OrphanExits, memory, history, bounds
    <2>2. exec' \in [Tasks -> Phases]
      <3>1. \/ exec' = exec \/ \E e \in {"rejected", "resolving", "resolved", "done", "persistingResult"} :
                                     exec' = [exec EXCEPT ![t] = e]
        BY <1>2, Zenon DEF Prepare, SpawnFails, ChildCloses, TerminationFails, EndsCancelled, EndsResolved,
           CancelReturns, OrphanExits, memory
      <3>2. {"rejected", "resolving", "resolved", "done", "persistingResult"} \subseteq Phases
        BY Zenon DEF Phases
      <3>3. PICK e \in Phases : exec' = exec \/ exec' = [exec EXCEPT ![t] = e]
        BY <3>1, <3>2, Zenon
      <3> QED BY <3>3, Zenon
    <2>3. /\ proc' \in [Tasks -> {"none", "alive", "unstoppable", "gone"}]
          /\ cancelling' \in [Tasks -> {"no", "persisting", "awaiting"}]
      BY <1>2, Zenon DEF Prepare, SpawnFails, ChildCloses, TerminationFails, EndsCancelled, EndsResolved,
         CancelReturns, OrphanExits, memory
    <2>4. outcome' \in [Tasks -> {"succeeded", "failed"}]
      BY <1>2, Zenon DEF Prepare, SpawnFails, ChildCloses, TerminationFails, EndsCancelled, EndsResolved,
         CancelReturns, OrphanExits, memory
    <2> QED BY <2>1, <2>2, <2>3, <2>4, Zenon
  <1>3. ASSUME NEW t \in Tasks, Spawn(t) \/ EndsRejected(t) \/ Cancel(t) \/ RefreshRecoveredTask(t)
        PROVE  TypeOK'
    <2>1. PICK w \in Write : Appended(t, w)
      <3>1. CASE Spawn(t) \/ EndsRejected(t)
        BY <3>1, Persists, Zenon
      <3>2. CASE Cancel(t)
        BY <3>2, Persists, Zenon
      <3>3. CASE RefreshRecoveredTask(t)
        BY <3>3, Persists, Zenon
      <3> QED BY <1>3, <3>1, <3>2, <3>3, Zenon
    <2>2. exec' = exec \/ exec' = [exec EXCEPT ![t] = "child"] \/ exec' = [exec EXCEPT ![t] = "ending"]
      BY <1>3, Zenon DEF Spawn, EndsRejected, Cancel, RefreshRecoveredTask
    <2>3. exec' \in [Tasks -> Phases]
      BY <2>2, Zenon DEF TypeOK, Phases
    <2>4. /\ cancelling' \in [Tasks -> {"no", "persisting", "awaiting"}]
          /\ proc' \in [Tasks -> {"none", "alive", "unstoppable", "gone"}]
      BY <1>3, Zenon DEF Spawn, EndsRejected, Cancel, RefreshRecoveredTask, TypeOK
    <2>5. /\ UNCHANGED <<disk, records, landed, aborted, announced, everCancelled>>
          /\ UNCHANGED <<up, crashes, starting, outcome, failures>>
      BY <1>3, Zenon DEF Spawn, EndsRejected, Cancel, RefreshRecoveredTask, history, bounds
    <2> QED BY <2>1, <2>3, <2>4, <2>5, AppendTypes, Zenon
  <1>4. ASSUME NEW t \in Tasks, ResultPersisted(t)
        PROVE  TypeOK'
    <2>1. CASE /\ Enqueue(t, "result", outcome[t], proc[t] # "none")
               /\ exec' = [exec EXCEPT ![t] = "ending"] /\ UNCHANGED <<outcome, failures>>
      <3>1. PICK w \in Write : Appended(t, w)
        BY <2>1, Persists, Zenon
      <3>2. exec' \in [Tasks -> Phases]
        BY <2>1, Zenon DEF TypeOK, Phases
      <3>3. /\ cancelling' \in [Tasks -> {"no", "persisting", "awaiting"}]
            /\ proc' \in [Tasks -> {"none", "alive", "unstoppable", "gone"}]
        BY <1>4, Zenon DEF ResultPersisted, TypeOK
      <3> QED BY <1>4, <2>1, <3>1, <3>2, <3>3, AppendTypes, Zenon DEF ResultPersisted, history
    <2>2. CASE /\ failures < MaxFailures /\ failures' = failures + 1 /\ UNCHANGED writes
               /\ exec' = [exec EXCEPT ![t] = "rejected"] /\ outcome' = [outcome EXCEPT ![t] = "failed"]
      <3>1. failures' \in 0..MaxFailures
        BY <2>2, TasksAssumption DEF TypeOK
      <3>2. exec' \in [Tasks -> Phases]
        BY <2>2, Zenon DEF TypeOK, Phases
      <3> QED BY <1>4, <2>2, <3>1, <3>2, Zenon DEF ResultPersisted, history, TypeOK
    <2> QED BY <1>4, <2>1, <2>2, Zenon DEF ResultPersisted
  <1>5. CASE StartPersists
    <2>2. starting.task \in Tasks
      BY <1>5, Zenon DEF StartPersists, TypeOK, Starts
    <2>3. PICK w \in Write : Appended(starting.task, w)
      BY <1>5, <2>2, Persists, Zenon DEF StartPersists
    <2>4. /\ exec' \in [Tasks -> Phases]
          /\ cancelling' \in [Tasks -> {"no", "persisting", "awaiting"}]
          /\ proc' \in [Tasks -> {"none", "alive", "unstoppable", "gone"}]
      BY <1>5, Zenon DEF StartPersists, TypeOK
    <2> QED BY <1>5, <2>2, <2>3, <2>4, AppendTypes, Zenon DEF StartPersists, history, bounds
  <1>6. CASE Crash
    <2> USE DEF TypeOK
    <2>1. disk' \in [Tasks -> Record \cup {NoRecord}]
      BY <1>6, Zenon DEF Crash
    <2>2. crashes' \in 0..MaxCrashes
      BY <1>6, TasksAssumption DEF Crash
    <2>3. writes' \in [Tasks -> Seq(Write)]
      BY <1>6 DEF Crash
    <2>4. "none" \in Phases
      BY Zenon DEF Phases
    <2>5. /\ exec' \in [Tasks -> Phases] /\ outcome' \in [Tasks -> {"succeeded", "failed"}]
          /\ cancelling' \in [Tasks -> {"no", "persisting", "awaiting"}] /\ aborted' \in [Tasks -> BOOLEAN]
          /\ records' \in [Tasks -> Record \cup {NoRecord}] /\ landed' \in SUBSET Tasks
      BY <1>6, <2>4, Zenon DEF Crash
    <2> QED BY <1>6, <2>1, <2>2, <2>3, <2>5, IdleIsTyped, Zenon DEF Crash, history
  <1>7. CASE Initialize
    BY <1>7 DEF Initialize, history, TypeOK
  <1>8. CASE UNCHANGED vars
    BY <1>8, Zenon DEF vars, memory, history, bounds, TypeOK
  <1>9. CASE StartFails
    <2>1. failures' \in 0..MaxFailures
      BY <1>9, TasksAssumption DEF StartFails, TypeOK
    <2> QED BY <1>9, <2>1, IdleIsTyped, Zenon DEF StartFails, history, TypeOK
  <1> QED BY <1>1, <1>2, <1>3, <1>4, <1>5, <1>6, <1>7, <1>8, <1>9, WriteTypes, Zenon DEF Next, Executes
------------------------------------------------------------------------------
(* A step of one task leaves the others alone.                             *)

\* Nothing of a task other than t changes.
Others(t) ==
    /\ up' = up
    /\ \A u \in Tasks \ {t} :
        /\ disk'[u] = disk[u] /\ records'[u] = records[u] /\ writes'[u] = writes[u]
        /\ exec'[u] = exec[u] /\ cancelling'[u] = cancelling[u] /\ proc'[u] = proc[u]
        /\ (u \in landed') = (u \in landed)
        /\ (u \in announced') = (u \in announced) /\ (u \in everCancelled') = (u \in everCancelled)
        /\ (starting'.task = u) = (starting.task = u)
        /\ starting'.removing = u => starting.removing = u /\ starting'.unlinked = starting.unlinked

\* A chain without writes.
LEMMA NoWrites ==
    ASSUME NEW t
    PROVE  /\ writes[t] = <<>> => Chained(t) /\ \A i \in 1..Len(writes[t]) : FALSE
           /\ writes'[t] = <<>> => Chained(t)' /\ \A i \in 1..Len(writes'[t]) : FALSE
  <1>1. Len(<<>>) = 0 /\ 1..0 = {}
    OBVIOUS
  <1>2. \A q : q = <<>> => Len(q) <= 2 /\ Len(q) # 2 /\ \A i \in 1..Len(q) : FALSE
    BY <1>1
  <1>3. writes[t] = <<>> => Chained(t)
    BY <1>2, Zenon DEF Chained
  <1>4. writes'[t] = <<>> => Chained(t)'
    BY <1>2, Zenon DEF Chained
  <1> QED BY <1>2, <1>3, <1>4, Zenon

\* What a step that moves one task has to show.
Kept(t) == Others(t) /\ TaskInv(t)' /\ (Claims(t)' => Claims(t))

\* Another task keeps its part of the invariant and claims nothing new.
LEMMA OthersKept ==
    ASSUME NEW t \in Tasks, Others(t), NEW u \in Tasks \ {t}, TaskInv(u)
    PROVE  TaskInv(u)' /\ (Claims(u)' => Claims(u))
  <1>1. /\ up' = up
        /\ disk'[u] = disk[u] /\ records'[u] = records[u] /\ writes'[u] = writes[u]
        /\ exec'[u] = exec[u] /\ cancelling'[u] = cancelling[u] /\ proc'[u] = proc[u]
        /\ (u \in landed') = (u \in landed)
        /\ (u \in announced') = (u \in announced) /\ (u \in everCancelled') = (u \in everCancelled)
        /\ (starting'.task = u) = (starting.task = u)
        /\ starting'.removing = u => starting.removing = u /\ starting'.unlinked = starting.unlinked
    BY Zenon DEF Others
  <1>2. Chained(u)'
    <2>1. \A i \in 1..Len(writes[u]) : Legal(u, writes[u][i])
      BY Zenon DEF TaskInv, Chained
    <2>2. \A i \in 1..Len(writes'[u]) : Legal(u, writes[u][i])'
      BY <1>1, <2>1 DEF Legal, In
    <2> QED BY <1>1, <2>2, Zenon DEF TaskInv, Chained
  <1>3. StartsAfresh(u)'
    BY <1>1 DEF TaskInv, StartsAfresh
  <1>4. Agree(u)'
    BY <1>1, Zenon DEF TaskInv, Agree, Anywhere, OnDisk, In, Controlled
  <1>5. FileAgrees(u)'
    BY <1>1, Zenon DEF TaskInv, FileAgrees, In
  <1>6. Claims(u)' => Claims(u)
    BY <1>1, Zenon DEF Claims, Anywhere, OnDisk, In
  <1> QED BY <1>2, <1>3, <1>4, <1>5, <1>6, Zenon DEF TaskInv

\* So the invariant is kept when the task of the step is.
LEMMA OneTask ==
    ASSUME NEW t \in Tasks, ClaimedOnce, \A u \in Tasks : TaskInv(u), Kept(t)
    PROVE  ClaimedOnce' /\ \A u \in Tasks : TaskInv(u)'
  <1>1. \A u \in Tasks : TaskInv(u)' /\ (Claims(u)' => Claims(u))
    BY OthersKept, Zenon DEF Kept
  <1> QED BY <1>1, Zenon DEF ClaimedOnce

\* The steps of an execution that write nothing: where they may lead.
Moves(t, e) ==
    \/ e = exec[t]
    \/ /\ Controlled(t) /\ e \notin {"none", "persisting", "preparing"}
       /\ e = "resolving" => exec[t] = "preparing"
       /\ \/ writes[t] = <<>>
          \/ exec[t] \in {"preparing", "resolving", "persistingResult"}
          \/ exec[t] = "child" /\ e \in {"resolved", "rejected"}

\* They keep the task's part of the invariant.
LEMMA ExecMoves ==
    ASSUME TypeOK, NEW t \in Tasks, TaskInv(t), NEW e, NEW p, NEW k,
           UNCHANGED <<disk, records, writes, landed, starting, announced, everCancelled, up>>,
           exec' = [exec EXCEPT ![t] = e], proc' = [proc EXCEPT ![t] = p],
           cancelling' = [cancelling EXCEPT ![t] = k],
           Moves(t, e), p # "alive" \/ p = proc[t], p = "alive" => e = exec[t],
           exec[t] = "none" => p = proc[t] \/ proc[t] # "none",
           k \in {cancelling[t], "no"}
    PROVE  Kept(t)
  <1>1. /\ exec'[t] = e /\ proc'[t] = p /\ cancelling'[t] = k
        /\ \A u \in Tasks \ {t} : exec'[u] = exec[u] /\ proc'[u] = proc[u] /\ cancelling'[u] = cancelling[u]
    BY Zenon DEF TypeOK
  <1>2. Others(t)
    BY <1>1, Zenon DEF Others
  <1>3. ASSUME NEW i \in 1..Len(writes[t])
        PROVE  Legal(t, writes[t][i])'
    <2>1. Legal(t, writes[t][i]) /\ writes[t] # <<>>
      BY DEF TaskInv, Chained
    <2> QED BY <1>1, <2>1 DEF Legal, Moves, Controlled, In
  <1>4. Chained(t)'
    BY <1>3, Zenon DEF TaskInv, Chained
  <1>5. StartsAfresh(t)'
    BY <1>1, Zenon DEF TaskInv, StartsAfresh, Moves, Controlled
  <1>6. Agree(t)'
    BY <1>1 DEF TaskInv, Agree, Anywhere, OnDisk, In, Moves, Controlled
  <1>7. FileAgrees(t)'
    BY Zenon DEF TaskInv, FileAgrees, In
  <1> QED BY <1>2, <1>4, <1>5, <1>6, <1>7, Zenon DEF Kept, TaskInv, Claims, Anywhere, OnDisk, In

\* A write joins the chain.
LEMMA ChainGrows ==
    ASSUME TypeOK, NEW t \in Tasks, NEW w \in Write, Appended(t, w),
           \/ writes[t] = <<>>
           \/ /\ Len(writes[t]) <= 1 /\ w.origin \in {"pid", "result"}
              /\ \A i \in 1..Len(writes[t]) : writes[t][i].origin = "cancel",
           \A v \in Write : v = w \/ (\E i \in 1..Len(writes[t]) : v = writes[t][i]) => Legal(t, v)'
    PROVE  /\ Chained(t)'
           /\ \A u \in Tasks \ {t} : writes'[u] = writes[u]
           /\ \A i \in 1..Len(writes'[t]) :
                  writes'[t][i] = w \/ \E j \in 1..Len(writes[t]) : writes'[t][i] = writes[t][j]
           /\ writes'[t] # <<>> /\ (writes[t] # <<>> => Head(writes'[t]) = Head(writes[t]))
  <1>1. PICK q \in Seq(Write) : q = writes[t]
    BY Zenon DEF TypeOK
  <1>2. writes'[t] = Append(q, w) /\ \A u \in Tasks \ {t} : writes'[u] = writes[u]
    BY <1>1, Zenon DEF Appended, TypeOK
  <1>3. /\ Len(writes'[t]) = Len(q) + 1
        /\ \A i \in 1..Len(writes'[t]) : writes'[t][i] = w \/ \E j \in 1..Len(q) : writes'[t][i] = q[j]
    <2>1. /\ Len(Append(q, w)) = Len(q) + 1
          /\ \A i \in 1..Len(Append(q, w)) : Append(q, w)[i] = w \/ \E j \in 1..Len(q) : Append(q, w)[i] = q[j]
      BY ChainRows, Zenon
    <2> QED BY <1>2, <2>1
  <1>4. ASSUME NEW i \in 1..Len(writes'[t])
        PROVE  Legal(t, writes[t][i])'
    <2>1. PICK v \in Write : v = writes'[t][i]
      BY <1>1, <1>3
    <2>2. Legal(t, v)'
      BY <1>1, <1>3, <2>1, Zenon
    <2> QED BY <2>1, <2>2, Zenon DEF Legal
  <1>5. Len(writes'[t]) <= 2
    BY <1>1, <1>3
  <1>6. Len(writes'[t]) = 2 => writes'[t][1].origin = "cancel" /\ writes'[t][2].origin \in {"pid", "result"}
    BY <1>1, <1>2, <1>3
  <1>7. writes'[t] # <<>> /\ (writes[t] # <<>> => Head(writes'[t]) = Head(writes[t]))
    <2>1. Append(q, w) # <<>> /\ (q # <<>> => Append(q, w)[1] = q[1])
      OBVIOUS
    <2>2. Head(q) = q[1] /\ Head(Append(q, w)) = Append(q, w)[1]
      OBVIOUS
    <2> QED BY <1>1, <1>2, <2>1, <2>2, Zenon
  <1> QED BY <1>1, <1>2, <1>3, <1>4, <1>5, <1>6, <1>7, Zenon DEF Chained

\* The execution goes on, a call of cancel returns, a child exits.
LEMMA MoveSteps ==
    ASSUME TypeOK, NEW t \in Tasks, TaskInv(t),
           \/ Prepare(t) \/ SpawnFails(t) \/ ChildCloses(t) \/ TerminationFails(t)
           \/ EndsCancelled(t) \/ EndsResolved(t) \/ CancelReturns(t) \/ OrphanExits(t)
    PROVE  Kept(t)
  <1>1. UNCHANGED <<disk, records, writes, landed, starting, announced, everCancelled, up>>
    BY Zenon DEF Prepare, SpawnFails, ChildCloses, TerminationFails, EndsCancelled, EndsResolved,
       CancelReturns, OrphanExits, memory, history, bounds
  <1>2. /\ exec = [exec EXCEPT ![t] = exec[t]] /\ proc = [proc EXCEPT ![t] = proc[t]]
        /\ cancelling = [cancelling EXCEPT ![t] = cancelling[t]]
    BY Zenon DEF TypeOK
  <1>3. proc[t] = "alive" => exec[t] \in {"child", "none"}
    BY Zenon DEF TaskInv, Agree
  <1>4. CASE Prepare(t)
    <2>1. PICK e \in {"rejected", "resolving"} : exec' = [exec EXCEPT ![t] = e]
      BY <1>4, Zenon DEF Prepare
    <2> QED BY <1>1, <1>2, <1>3, <1>4, <2>1, ExecMoves, Zenon DEF Prepare, Moves, Controlled
  <1>5. CASE SpawnFails(t)
    BY <1>1, <1>2, <1>3, <1>5, ExecMoves, Zenon DEF SpawnFails, Moves, Controlled
  <1>6. CASE ChildCloses(t)
    <2>1. PICK e \in {"rejected", "resolved"} : exec' = [exec EXCEPT ![t] = e]
      BY <1>6, Zenon DEF ChildCloses
    <2> QED BY <1>1, <1>2, <1>6, <2>1, ExecMoves, Zenon DEF ChildCloses, Moves, Controlled
  <1>7. CASE TerminationFails(t)
    BY <1>1, <1>2, <1>7, ExecMoves, Zenon DEF TerminationFails, Moves, Controlled
  <1>8. CASE EndsCancelled(t)
    BY <1>1, <1>2, <1>3, <1>8, ExecMoves, Zenon DEF EndsCancelled, Moves, Controlled
  <1>9. CASE EndsResolved(t)
    BY <1>1, <1>2, <1>3, <1>9, ExecMoves, Zenon DEF EndsResolved, Moves, Controlled
  <1>10. CASE CancelReturns(t)
    BY <1>1, <1>2, <1>10, ExecMoves, Zenon DEF CancelReturns, Moves
  <1>11. CASE OrphanExits(t)
    BY <1>1, <1>2, <1>11, ExecMoves, Zenon DEF OrphanExits, memory, Moves
  <1> QED BY <1>4, <1>5, <1>6, <1>7, <1>8, <1>9, <1>10, <1>11, Zenon

\* A persist() is called.
LEMMA AppendSteps ==
    ASSUME TypeOK, NEW t \in Tasks, TaskInv(t), NEW w \in Write, Appended(t, w), NEW e, NEW p, NEW k,
           UNCHANGED <<disk, records, landed, starting, announced, everCancelled, up>>,
           exec' = [exec EXCEPT ![t] = e], proc' = [proc EXCEPT ![t] = p],
           cancelling' = [cancelling EXCEPT ![t] = k],
           starting.task = t => w.origin = "start" /\ e = exec[t] /\ p = proc[t],
           \/ writes[t] = <<>>
           \/ /\ Len(writes[t]) <= 1 /\ w.origin \in {"pid", "result"}
              /\ \A i \in 1..Len(writes[t]) : writes[t][i].origin = "cancel",
           exec[t] = "none" <=> e = "none", ~ In(t, Ended) \/ t \in everCancelled,
           Legal(t, w)', Agree(t)'
    PROVE  Kept(t)
  <1>1. /\ exec'[t] = e /\ proc'[t] = p
        /\ \A u \in Tasks \ {t} : exec'[u] = exec[u] /\ proc'[u] = proc[u] /\ cancelling'[u] = cancelling[u]
    BY DEF TypeOK
  <1>2. ASSUME NEW v \in Write, v = w \/ \E i \in 1..Len(writes[t]) : v = writes[t][i]
        PROVE  Legal(t, v)'
    <2>1. CASE v = w
      BY <2>1, Zenon
    <2>2. ASSUME NEW i \in 1..Len(writes[t]), v = writes[t][i]
          PROVE  Legal(t, v)'
      <3>1. writes[t] # <<>>
        BY <2>2, NoWrites, Zenon
      <3>2. v.origin = "cancel" /\ Legal(t, v)
        BY <2>2, <3>1, Zenon DEF TaskInv, Chained
      <3>3. v.rec.state = "cancelled"
        BY <3>2, Zenon DEF Legal, StatesOf
      <3> QED BY <1>1, <3>2, <3>3, Zenon DEF Legal, In, Ended
    <2> QED BY <1>2, <2>1, <2>2, Zenon
  <1>3. /\ Chained(t)'
        /\ \A u \in Tasks \ {t} : writes'[u] = writes[u]
        /\ \A i \in 1..Len(writes'[t]) :
               writes'[t][i] = w \/ \E j \in 1..Len(writes[t]) : writes'[t][i] = writes[t][j]
        /\ writes'[t] # <<>> /\ (writes[t] # <<>> => Head(writes'[t]) = Head(writes[t]))
    BY <1>2, ChainGrows, Zenon
  <1>4. Others(t)
    BY <1>1, <1>3, Zenon DEF Others
  <1>5. StartsAfresh(t)'
    <2> SUFFICES ASSUME starting'.task = t
                 PROVE  /\ records'[t] = NoRecord /\ exec'[t] = "none" /\ proc'[t] = "none"
                        /\ t \notin announced' /\ t \notin everCancelled'
                        /\ \A i \in 1..Len(writes'[t]) : writes'[t][i].origin = "start"
      BY Zenon DEF StartsAfresh
    <2>1. w.origin = "start" /\ \A j \in 1..Len(writes[t]) : writes[t][j].origin = "start"
      BY Zenon DEF TaskInv, StartsAfresh
    <2>2. \A i \in 1..Len(writes'[t]) : writes'[t][i].origin = "start"
      BY <1>3, <2>1
    <2> QED BY <1>1, <2>2 DEF TaskInv, StartsAfresh
  <1>6. Claims(t)' => Claims(t)
    BY Zenon DEF Claims, Anywhere, OnDisk, In
  <1>7. FileAgrees(t)'
    BY <1>3, Zenon DEF TaskInv, FileAgrees, In
  <1> QED BY <1>3, <1>4, <1>5, <1>6, <1>7, Zenon DEF Kept, TaskInv

\* Behind what execute() waits for while it runs, only a cancellation can be pending.
LEMMA OnlyCancels ==
    ASSUME TypeOK, NEW t \in Tasks, TaskInv(t), exec[t] \in {"resolving", "persistingResult"}
    PROVE  Len(writes[t]) <= 1 /\ \A i \in 1..Len(writes[t]) : writes[t][i].origin = "cancel"
  <1>1. PICK q \in Seq(Write) : q = writes[t]
    BY Zenon DEF TypeOK
  <1>2. ASSUME NEW i \in 1..Len(q)
        PROVE  q[i].origin = "cancel"
    <2>1. Legal(t, q[i])
      BY <1>1, Zenon DEF TaskInv, Chained
    <2>2. q[i] \in Write
      OBVIOUS
    <2>3. q[i].origin \in Origins
      BY <2>2, Zenon DEF Write
    <2> QED BY <2>1, <2>3, Zenon DEF Legal, Origins, TaskInv, StartsAfresh
  <1>3. Len(q) # 2 /\ Len(q) <= 2 /\ Len(q) \in Nat
    BY <1>1, <1>2 DEF TaskInv, Chained
  <1>4. \A n \in Nat : n # 2 /\ n <= 2 => n <= 1
    OBVIOUS
  <1> QED BY <1>1, <1>2, <1>3, <1>4, Zenon

\* The child is spawned, or the execution ends and persists how.
LEMMA ExecuteWrites ==
    ASSUME TypeOK, NEW t \in Tasks, TaskInv(t),
           Spawn(t) \/ EndsRejected(t) \/ ResultPersisted(t)
    PROVE  Kept(t)
  <1>1. /\ exec = [exec EXCEPT ![t] = exec[t]] /\ proc = [proc EXCEPT ![t] = proc[t]]
        /\ cancelling = [cancelling EXCEPT ![t] = cancelling[t]]
    BY Zenon DEF TypeOK
  <1>2. exec[t] # "none" /\ starting.task # t
    BY Zenon DEF Spawn, EndsRejected, ResultPersisted, TaskInv, StartsAfresh
  <1>3. /\ UNCHANGED <<disk, records, landed, starting, announced, everCancelled, cancelling, up>>
        /\ ~ In(t, Ended) \/ t \in everCancelled
    <2>1. UNCHANGED <<disk, records, landed, starting, announced, everCancelled, cancelling, up>>
      BY Zenon DEF Spawn, EndsRejected, ResultPersisted, history, bounds
    <2>2. Controlled(t)
      BY Zenon DEF Spawn, EndsRejected, ResultPersisted, Controlled
    <2> QED BY <2>1, <2>2, Zenon DEF TaskInv, Agree, In, Ended, Active
  <1>4. CASE Spawn(t)
    <2>1. PICK w \in Write : w.origin = "pid" /\ w.rec.state = "running" /\ Appended(t, w)
      BY <1>4, Persists, Zenon
    <2>2. exec[t] = "resolving" /\ exec' = [exec EXCEPT ![t] = "child"] /\ proc' = [proc EXCEPT ![t] = "alive"]
      BY <1>4, Zenon DEF Spawn
    <2>3. exec'[t] = "child" /\ proc'[t] = "alive"
      BY <2>2, Zenon DEF TypeOK
    <2>4. Legal(t, w)'
      BY <2>1, <2>3, Zenon DEF Legal, StatesOf, Ended
    <2>5. Agree(t)'
      BY <1>3, <2>2, <2>3, Zenon DEF TaskInv, Agree, Anywhere, OnDisk, In, Controlled
    <2> QED BY <1>1, <1>2, <1>3, <2>1, <2>2, <2>4, <2>5, OnlyCancels, AppendSteps, Zenon
  <1>5. CASE EndsRejected(t)
    <2>1. PICK w \in Write : w.origin = "failure" /\ w.rec.state = "failed" /\ Appended(t, w)
      BY <1>5, Persists, Zenon
    <2>2. /\ exec[t] = "rejected" /\ exec' = [exec EXCEPT ![t] = "ending"] /\ proc' = proc
          /\ writes[t] = <<>>
      BY <1>5, Zenon DEF EndsRejected
    <2>3. exec'[t] = "ending" /\ proc'[t] # "alive"
      BY <2>2, Zenon DEF TypeOK, TaskInv, Agree
    <2>4. Legal(t, w)'
      BY <2>1, <2>3, Zenon DEF Legal, StatesOf, Ended
    <2>5. Agree(t)'
      BY <1>3, <2>2, <2>3, Zenon DEF TaskInv, Agree, Anywhere, OnDisk, In, Controlled
    <2> QED BY <1>1, <1>2, <1>3, <2>1, <2>2, <2>4, <2>5, AppendSteps, Zenon
  <1>6. CASE /\ ResultPersisted(t) /\ Enqueue(t, "result", outcome[t], proc[t] # "none")
             /\ exec' = [exec EXCEPT ![t] = "ending"]
    <2>1. PICK w \in Write : w.origin = "result" /\ w.rec.state \in Ended /\ Appended(t, w)
      BY <1>6, Persists, Zenon
    <2>2. exec[t] = "persistingResult" /\ exec' = [exec EXCEPT ![t] = "ending"] /\ proc' = proc
      BY <1>6, Zenon DEF ResultPersisted
    <2>3. exec'[t] = "ending" /\ proc'[t] # "alive"
      BY <2>2, Zenon DEF TypeOK, TaskInv, Agree
    <2>4. Legal(t, w)'
      BY <2>1, <2>3, Zenon DEF Legal, StatesOf, Ended
    <2>5. Agree(t)'
      BY <1>3, <2>2, <2>3, Zenon DEF TaskInv, Agree, Anywhere, OnDisk, In, Controlled
    <2> QED BY <1>1, <1>2, <1>3, <2>1, <2>2, <2>4, <2>5, OnlyCancels, AppendSteps, Zenon
  <1>7. CASE ResultPersisted(t) /\ UNCHANGED writes /\ exec' = [exec EXCEPT ![t] = "rejected"]
    <2>1. exec[t] = "persistingResult" /\ proc' = proc /\ proc[t] # "alive"
      BY <1>7, Zenon DEF ResultPersisted, TaskInv, Agree
    <2> QED BY <1>1, <1>3, <1>7, <2>1, ExecMoves, Zenon DEF Moves, Controlled
  <1> QED BY <1>4, <1>5, <1>6, <1>7, Zenon DEF ResultPersisted

\* A cancellation, or the refresh of a recovered task, is persisted.
LEMMA CallWrites ==
    ASSUME TypeOK, NEW t \in Tasks, TaskInv(t), Cancel(t) \/ RefreshRecoveredTask(t)
    PROVE  Kept(t)
  <1>1. /\ exec = [exec EXCEPT ![t] = exec[t]] /\ proc = [proc EXCEPT ![t] = proc[t]]
        /\ cancelling = [cancelling EXCEPT ![t] = cancelling[t]]
    BY Zenon DEF TypeOK
  <1>2. /\ UNCHANGED <<disk, records, landed, starting, announced, everCancelled, exec, proc, up>>
        /\ writes[t] = <<>>
    BY Zenon DEF Cancel, RefreshRecoveredTask, history, bounds
  <1>3. In(t, Active) /\ ~ In(t, Ended)
    BY Zenon DEF Cancel, RefreshRecoveredTask, Interrupted, In, Active, Ended
  <1>4. starting.task # t
    BY <1>3, Zenon DEF In, TaskInv, StartsAfresh
  <1>5. CASE Cancel(t)
    <2>1. PICK w \in Write : /\ w.origin = "cancel" /\ w.rec.state = "cancelled" /\ Appended(t, w)
                             /\ records[t].pid => w.rec.pid
      BY <1>5, Persists, Zenon
    <2>2. cancelling' = [cancelling EXCEPT ![t] = "persisting"] /\ cancelling'[t] = "persisting"
      BY <1>5, Zenon DEF Cancel, TypeOK
    <2>3. exec[t] = "none" => records[t].pid
      BY <1>5, Zenon DEF Cancel, Interrupted, Controlled
    <2>4. Legal(t, w)'
      BY <1>2, <1>3, <2>1, <2>3, Zenon DEF Legal, StatesOf, Ended, In
    <2>5. Agree(t)'
      BY <1>2, <2>2, Zenon DEF TaskInv, Agree, Anywhere, OnDisk, In, Controlled
    <2> QED BY <1>1, <1>2, <1>3, <1>4, <2>1, <2>2, <2>4, <2>5, AppendSteps, Zenon
  <1>6. CASE RefreshRecoveredTask(t)
    <2>1. PICK w \in Write : /\ w.origin = "refresh" /\ w.rec.state = "failed" /\ Appended(t, w)
                             /\ w.rec.pid => records[t].pid
      BY <1>6, Persists, Zenon
    <2>2. exec[t] \in {"none", "done"} /\ (records[t].pid => proc[t] # "alive") /\ cancelling' = cancelling
      BY <1>6, Zenon DEF RefreshRecoveredTask, Interrupted, Controlled, Exists
    <2>3. /\ exec' = [exec EXCEPT ![t] = exec[t]] /\ proc' = [proc EXCEPT ![t] = proc[t]]
          /\ cancelling' = [cancelling EXCEPT ![t] = cancelling[t]]
      BY <1>1, <1>2, <2>2, Zenon
    <2>4. Legal(t, w)'
      BY <1>2, <1>3, <2>1, <2>2, Zenon DEF Legal, StatesOf, Ended, In
    <2>5. Agree(t)'
      BY <1>2, <2>2, Zenon DEF TaskInv, Agree, Anywhere, OnDisk, In, Controlled
    <2> QED BY <1>2, <1>3, <1>4, <2>1, <2>3, <2>4, <2>5, AppendSteps, Zenon
  <1> QED BY <1>5, <1>6, Zenon

\* start persists the first record.
LEMMA StartWrites ==
    ASSUME TypeOK, NEW t \in Tasks, t = starting.task, TaskInv(t), StartPersists
    PROVE  Kept(t)
  <1>1. /\ exec = [exec EXCEPT ![t] = exec[t]] /\ proc = [proc EXCEPT ![t] = proc[t]]
        /\ cancelling = [cancelling EXCEPT ![t] = cancelling[t]]
    BY Zenon DEF TypeOK
  <1>2. /\ UNCHANGED <<disk, records, landed, starting, announced, everCancelled, up>>
        /\ UNCHANGED <<exec, proc, cancelling>> /\ ~ In(t, Ended)
    BY Zenon DEF StartPersists, history, bounds, TaskInv, StartsAfresh, In
  <1>3. writes[t] = <<>>
    <2>1. PICK q \in Seq(Write) : q = writes[t]
      BY Zenon DEF TypeOK
    <2>2. \A i \in 1..Len(q) : FALSE
      BY <2>1, Zenon DEF StartPersists, Persisting, TaskInv, StartsAfresh
    <2> QED BY <2>1, <2>2
  <1>4. PICK w \in Write : w.origin = "start" /\ w.rec.state = "starting" /\ Appended(t, w)
    BY Persists, Zenon DEF StartPersists
  <1>5. Legal(t, w)'
    BY <1>2, <1>4, Zenon DEF Legal, StatesOf, Ended
  <1>6. Agree(t)'
    BY <1>2, Zenon DEF TaskInv, Agree, Anywhere, OnDisk, In, Controlled
  <1>7. /\ exec' = [exec EXCEPT ![t] = exec[t]] /\ proc' = [proc EXCEPT ![t] = proc[t]]
        /\ cancelling' = [cancelling EXCEPT ![t] = cancelling[t]]
    BY <1>1, <1>2, Zenon
  <1>8. /\ UNCHANGED <<disk, records, landed, starting, announced, everCancelled, up>>
        /\ ~ In(t, Ended) \/ t \in everCancelled
    BY <1>2, Zenon
  <1> QED BY <1>3, <1>4, <1>5, <1>6, <1>7, <1>8, AppendSteps, Zenon

\* A write fails.
LEMMA FailedWrite ==
    ASSUME TypeOK, NEW t \in Tasks, TaskInv(t), WriteFails(t)
    PROVE  Kept(t)
  <1> DEFINE failed == {writes[t][i].origin : i \in 1..Len(writes[t])}
  <1>1. /\ UNCHANGED <<records, landed, proc, announced, everCancelled, up>>
        /\ \E file \in {disk[t], NoRecord} : disk' = [disk EXCEPT ![t] = file]
        /\ writes' = [writes EXCEPT ![t] = <<>>]
        /\ starting' = IF "start" \in failed THEN Idle ELSE starting
        /\ exec' = [exec EXCEPT ![t] = IF "run" \in failed THEN "leaked"
                                       ELSE IF "result" \in failed THEN "rejected"
                                       ELSE IF "failure" \in failed THEN "done" ELSE exec[t]]
        /\ cancelling' = [cancelling EXCEPT ![t] = IF "cancel" \in failed THEN "no" ELSE cancelling[t]]
    BY Zenon DEF WriteFails, history
  <1>2. /\ "start" \in failed => starting.task = t
        /\ "run" \in failed => exec[t] = "persisting"
        /\ "result" \in failed => exec[t] = "ending"
        /\ "failure" \in failed => exec[t] = "ending"
    BY Zenon DEF TaskInv, Chained, Legal
  <1> HIDE DEF failed
  <1>0. t \notin landed /\ disk'[t] \in {disk[t], NoRecord} /\ \A u \in Tasks \ {t} : disk'[u] = disk[u]
    BY <1>1, Zenon DEF WriteFails, TypeOK
  <1>3. /\ writes'[t] = <<>>
        /\ \/ exec'[t] = exec[t]
           \/ exec[t] \in {"persisting", "ending"} /\ exec'[t] \in {"leaked", "rejected", "done"}
        /\ cancelling'[t] \in {cancelling[t], "no"}
        /\ \A u \in Tasks \ {t} : /\ exec'[u] = exec[u] /\ writes'[u] = writes[u]
                                  /\ cancelling'[u] = cancelling[u]
    BY <1>1, <1>2 DEF TypeOK
  <1>4. /\ starting' = starting \/ (starting' = Idle /\ starting.task = t)
        /\ Idle.task = NoTask /\ Idle.removing = NoTask /\ NoTask \notin Tasks
    BY <1>1, <1>2, IdleIsTyped, TasksAssumption, Zenon
  <1>5. Others(t)
    <2>1. UNCHANGED <<records, landed, proc, announced, everCancelled, up>>
      BY <1>1, Zenon
    <2>2. \A u \in Tasks \ {t} :
            /\ (starting'.task = u) = (starting.task = u)
            /\ starting'.removing = u => starting.removing = u /\ starting'.unlinked = starting.unlinked
      BY <1>4
    <2> QED BY <1>0, <1>3, <2>1, <2>2, Zenon DEF Others
  <1>6. Chained(t)' /\ \A i \in 1..Len(writes'[t]) : FALSE
    BY <1>3, NoWrites, Zenon
  <1>7. StartsAfresh(t)'
    BY <1>1, <1>3, <1>4, <1>6, Zenon DEF TaskInv, StartsAfresh
  <1>8. Agree(t)'
    BY <1>0, <1>1, <1>3, Zenon DEF TaskInv, Agree, Anywhere, OnDisk, In, Controlled
  <1>9. Claims(t)' => Claims(t)
    BY <1>0, <1>1, <1>4, Zenon DEF Claims, Anywhere, OnDisk, In
  <1>10. FileAgrees(t)'
    BY <1>0, <1>1, <1>3, <1>4, Zenon DEF TaskInv, FileAgrees, In
  <1> QED BY <1>5, <1>6, <1>7, <1>8, <1>9, <1>10, Zenon DEF Kept, TaskInv

\* A start whose files cannot be removed or created is over.
LEMMA FailedStart ==
    ASSUME TypeOK, NEW t \in Tasks, t = starting.task, TaskInv(t), StartFails
    PROVE  Kept(t)
  <1>1. /\ UNCHANGED <<disk, records, writes, landed, exec, cancelling, proc, announced, everCancelled, up>>
        /\ starting' = Idle
    BY Zenon DEF StartFails, history
  <1>2. Idle.task = NoTask /\ Idle.removing = NoTask /\ NoTask \notin Tasks
    BY IdleIsTyped, TasksAssumption, Zenon
  <1>3. Others(t)
    BY <1>1, <1>2 DEF Others
  <1>4. writes'[t] = <<>>
    <2>1. PICK q \in Seq(Write) : q = writes[t]
      BY Zenon DEF TypeOK
    <2>2. \A i \in 1..Len(q) : FALSE
      BY <2>1, Zenon DEF StartFails, Persisting, TaskInv, StartsAfresh
    <2> QED BY <1>1, <2>1, <2>2
  <1>5. Chained(t)'
    BY <1>4, NoWrites, Zenon
  <1>6. StartsAfresh(t)'
    BY <1>1, <1>2, Zenon DEF StartsAfresh
  <1>7. Agree(t)'
    BY <1>1, Zenon DEF TaskInv, Agree, Anywhere, OnDisk, In, Controlled
  <1>8. FileAgrees(t)'
    BY <1>1, <1>2, Zenon DEF TaskInv, FileAgrees, In
  <1>9. Claims(t)' => Claims(t)
    BY <1>1, <1>2, Zenon DEF Claims, Anywhere, OnDisk, In
  <1> QED BY <1>3, <1>5, <1>6, <1>7, <1>8, <1>9, Zenon DEF Kept, TaskInv

\* What execute(), cancel or the refresh write is a write of an active or a cancelled task.
LEMMA EndedIsQuiet ==
    ASSUME TypeOK, NEW t \in Tasks, TaskInv(t), In(t, Ended), t \notin everCancelled
    PROVE  writes[t] = <<>>
  <1>1. PICK q \in Seq(Write) : q = writes[t]
    BY Zenon DEF TypeOK
  <1>2. ~ In(t, Active) /\ records[t] # NoRecord
    BY Zenon DEF In, Active, Ended
  <1>3. ASSUME NEW i \in 1..Len(q)
        PROVE  FALSE
    <2>1. Legal(t, q[i])
      BY <1>1, Zenon DEF TaskInv, Chained
    <2>2. q[i] \in Write
      OBVIOUS
    <2>3. q[i].origin \in Origins
      BY <2>2, Zenon DEF Write
    <2>4. starting.task # t /\ exec[t] \in {"none", "done"}
      BY <1>2, Zenon DEF TaskInv, StartsAfresh, Agree, Controlled
    <2> QED BY <1>2, <2>1, <2>3, <2>4, Zenon DEF Legal, Origins
  <1> QED BY <1>1, <1>3

\* A victim is checked, its file removed, its record deleted.
LEMMA PruneStep ==
    ASSUME TypeOK, Loaded, NEW t \in Tasks, TaskInv(t), Prunes(t)
    PROVE  Kept(t)
  <1>1. /\ UNCHANGED <<writes, landed, exec, cancelling, proc, announced, everCancelled, up>>
        /\ NoTask \notin Tasks
    BY TasksAssumption, Zenon DEF Prunes, PruneChecks, RemoveFile, DeleteRecord, history, bounds
  <1>2. /\ disk'[t] \in {disk[t], NoRecord} /\ records'[t] \in {records[t], NoRecord}
        /\ \A u \in Tasks \ {t} : disk'[u] = disk[u] /\ records'[u] = records[u]
        /\ records'[t] = records[t] \/ (starting.removing = t /\ starting.unlinked /\ records'[t] = NoRecord)
    <2>1. CASE PruneChecks(t)
      BY <2>1, Zenon DEF PruneChecks
    <2>2. CASE RemoveFile(t)
      BY <2>2, Zenon DEF RemoveFile, TypeOK
    <2>3. CASE DeleteRecord(t)
      BY <2>3, Zenon DEF DeleteRecord, TypeOK
    <2> QED BY <2>1, <2>2, <2>3, Zenon DEF Prunes
  <1>3. /\ starting'.task = starting.task
        /\ \A u \in Tasks \ {t} : starting'.removing # u
    <2>1. CASE PruneChecks(t)
      BY <1>1, <2>1 DEF PruneChecks, TypeOK, Starts
    <2>2. CASE RemoveFile(t)
      BY <1>1, <2>2 DEF RemoveFile, TypeOK, Starts
    <2>3. CASE DeleteRecord(t)
      BY <1>1, <2>3 DEF DeleteRecord, TypeOK, Starts
    <2> QED BY <2>1, <2>2, <2>3, Zenon DEF Prunes
  <1>4. Others(t)
    BY <1>1, <1>2, <1>3, Zenon DEF Others
  <1>6. records'[t] = records[t] \/ t \in everCancelled \/ (In(t, Ended) /\ writes[t] = <<>> /\ disk[t] = NoRecord)
    BY <1>2, Zenon DEF TaskInv, FileAgrees
  <1>7. In(t, Ended) => ~ In(t, Active)
    BY Zenon DEF In, Active, Ended
  <1>8. Chained(t)'
    <2>1. CASE writes[t] = <<>>
      BY <1>1, <2>1, NoWrites, Zenon
    <2>2. CASE records'[t] = records[t] \/ t \in everCancelled
      <3>1. \A i \in 1..Len(writes[t]) : Legal(t, writes[t][i])
        BY Zenon DEF TaskInv, Chained
      <3>2. \A i \in 1..Len(writes'[t]) : Legal(t, writes[t][i])'
        BY <1>1, <1>3, <2>2, <3>1 DEF Legal, In
      <3> QED BY <1>1, <3>2, Zenon DEF TaskInv, Chained
    <2> QED BY <1>6, <2>1, <2>2, Zenon
  <1>9. StartsAfresh(t)'
    BY <1>1, <1>2, <1>3, Zenon DEF TaskInv, StartsAfresh
  <1>10. Agree(t)'
    <2>1. Controlled(t) => t \in everCancelled \/ In(t, Active)'
      BY <1>6, <1>7, Zenon DEF TaskInv, Agree, In
    <2> QED BY <1>1, <1>2, <2>1, Zenon DEF TaskInv, Agree, Anywhere, OnDisk, In, Controlled
  <1>11. FileAgrees(t)'
    <2>1. CASE PruneChecks(t)
      <3>1. UNCHANGED <<disk, records>> /\ starting.removing = NoTask
        BY <2>1, Zenon DEF PruneChecks
      <3>2. starting'.removing = t => In(t, Terminal) /\ ~ starting'.unlinked
        BY <1>1, <2>1, <3>1 DEF PruneChecks, Loaded, TypeOK, Starts
      <3>3. In(t, Terminal) /\ t \notin everCancelled => In(t, Ended)
        BY Zenon DEF In, Terminal, Ended, TaskInv, Agree, Anywhere
      <3>4. In(t, Ended) /\ t \notin everCancelled => writes[t] = <<>>
        BY EndedIsQuiet, Zenon
      <3> QED BY <1>1, <3>1, <3>2, <3>3, <3>4, Zenon DEF TaskInv, FileAgrees, In
    <2>2. CASE RemoveFile(t)
      <3>1. disk'[t] = NoRecord /\ records' = records /\ starting.removing = t
        BY <2>2, Zenon DEF RemoveFile, TypeOK
      <3> QED BY <1>1, <3>1, Zenon DEF TaskInv, FileAgrees, In
    <2>3. CASE DeleteRecord(t)
      <3>1. /\ disk' = disk /\ records'[t] = NoRecord /\ starting.removing = t /\ starting.unlinked
            /\ starting'.removing # t
        BY <1>1, <2>3 DEF DeleteRecord, TypeOK, Starts
      <3> QED BY <1>1, <3>1, Zenon DEF TaskInv, FileAgrees, In
    <2> QED BY <2>1, <2>2, <2>3, Zenon DEF Prunes
  <1>12. Claims(t)' => Claims(t)
    BY <1>1, <1>2, <1>3, Zenon DEF Claims, Anywhere, OnDisk, In
  <1> QED BY <1>4, <1>8, <1>9, <1>10, <1>11, <1>12, Zenon DEF Kept, TaskInv

\* The first write of a chain, and what is left of the chain when it is done.
LEMMA FirstWrite ==
    ASSUME TypeOK, NEW t \in Tasks, TaskInv(t), writes[t] # <<>>
    PROVE  \E w \in Write :
              /\ w = Head(writes[t]) /\ w = writes[t][1] /\ Legal(t, w)
              /\ starting.task = t => w.origin = "start"
              /\ w.origin # "cancel" => Tail(writes[t]) = <<>>
              /\ Tail(writes[t]) \in Seq(Write) /\ Len(Tail(writes[t])) <= 1
              /\ \A i \in 1..Len(Tail(writes[t])) :
                     /\ Tail(writes[t])[i].origin \in {"pid", "result"}
                     /\ Legal(t, Tail(writes[t])[i])
  <1>1. PICK q \in Seq(Write) : q = writes[t] /\ q # <<>>
    BY Zenon DEF TypeOK
  <1>2. /\ q[1] \in Write /\ Head(q) = q[1] /\ 1 \in 1..Len(q)
        /\ Tail(q) \in Seq(Write) /\ Len(Tail(q)) = Len(q) - 1
        /\ \A i \in 1..Len(Tail(q)) : Tail(q)[i] = q[i + 1] /\ i + 1 \in 1..Len(q)
    <2>1. PICK w \in Write : w = Head(q) /\ w = q[1]
      BY <1>1
    <2>2. /\ Tail(q) \in Seq(Write) /\ Len(Tail(q)) = Len(q) - 1 /\ Len(q) # 0
          /\ \A i \in 1..Len(Tail(q)) : Tail(q)[i] = q[i + 1]
      BY <1>1, <2>1, ChainRows, Zenon
    <2>3. Len(q) \in Nat
      OBVIOUS
    <2>4. 1 \in 1..Len(q) /\ \A i \in 1..(Len(q) - 1) : i + 1 \in 1..Len(q)
      BY <2>2, <2>3
    <2> QED BY <2>1, <2>2, <2>4, Zenon
  <1>3. /\ Len(q) <= 2
        /\ Len(q) = 2 => q[1].origin = "cancel" /\ q[2].origin \in {"pid", "result"}
        /\ \A i \in 1..Len(q) : Legal(t, q[i])
        /\ starting.task = t => \A i \in 1..Len(q) : q[i].origin = "start"
    BY <1>1, Zenon DEF TaskInv, Chained, StartsAfresh
  <1>4. Len(q) \in {1, 2} /\ (Len(q) = 1 => Tail(q) = <<>>) /\ Len(Tail(q)) <= 1
    <2>1. PICK n \in Nat : n = Len(q)
      OBVIOUS
    <2>2. n # 0 /\ n <= 2
      BY <1>1, <1>3, <2>1
    <2>3. n = 1 \/ n = 2
      BY <2>2
    <2>4. Len(Tail(q)) = n - 1
      BY <1>2, <2>1, Zenon
    <2>5. n = 1 => Len(Tail(q)) = 0
      BY <2>4
    <2>6. Len(Tail(q)) = 0 => Tail(q) = <<>>
      <3>1. \A z \in Seq(Write) : Len(z) = 0 => z = <<>>
        OBVIOUS
      <3> QED BY <1>2, <3>1, Zenon
    <2>7. Len(Tail(q)) <= 1
      BY <2>3, <2>4
    <2> QED BY <2>1, <2>3, <2>5, <2>6, <2>7, Zenon
  <1>5. \A i \in 1..Len(Tail(q)) : i = 1 /\ Len(q) = 2
    BY <1>2, <1>4
  <1>6. \A i \in 1..Len(Tail(q)) : Tail(q)[i].origin \in {"pid", "result"} /\ Legal(t, Tail(q)[i])
    BY <1>2, <1>3, <1>5
  <1>7. q[1].origin # "cancel" => Tail(q) = <<>>
    BY <1>3, <1>4, Zenon
  <1>8. Legal(t, q[1]) /\ (starting.task = t => q[1].origin = "start")
    BY <1>2, <1>3, Zenon
  <1> QED BY <1>1, <1>2, <1>4, <1>6, <1>7, <1>8, Zenon

\* A write reaches the file.
LEMMA LandedWrite ==
    ASSUME TypeOK, NEW t \in Tasks, TaskInv(t), WriteLands(t)
    PROVE  Kept(t)
  <1>1. PICK w \in Write : /\ w = Head(writes[t]) /\ Legal(t, w)
                           /\ starting.task = t => w.origin = "start"
    BY FirstWrite, Zenon DEF WriteLands
  <1>2. w.origin \in Origins /\ w.rec \in Record /\ w.rec # NoRecord
    BY RecordAssumption, Zenon DEF Write
  <1>3. /\ UNCHANGED <<records, writes, starting, exec, cancelling, proc, announced, up>>
        /\ writes[t] # <<>>
        /\ disk'[t] = w.rec /\ \A u \in Tasks \ {t} : disk'[u] = disk[u]
        /\ t \in landed' /\ \A u \in Tasks \ {t} : (u \in landed') = (u \in landed)
        /\ t \in everCancelled' <=> (t \in everCancelled \/ w.rec.state = "cancelled")
        /\ \A u \in Tasks \ {t} : (u \in everCancelled') = (u \in everCancelled)
    <2>1. /\ disk' = [disk EXCEPT ![t] = w.rec] /\ landed' = landed \cup {t}
          /\ everCancelled' = everCancelled \cup {u \in {t} : w.rec.state = "cancelled"}
          /\ UNCHANGED <<records, writes, starting, exec, cancelling, proc, announced, up>>
          /\ writes[t] # <<>>
      BY <1>1, Zenon DEF WriteLands, bounds
    <2>2. disk'[t] = w.rec /\ \A u \in Tasks \ {t} : disk'[u] = disk[u]
      BY <2>1, Zenon DEF TypeOK
    <2>3. /\ t \in landed' /\ \A u \in Tasks \ {t} : (u \in landed') = (u \in landed)
          /\ t \in everCancelled' <=> (t \in everCancelled \/ w.rec.state = "cancelled")
          /\ \A u \in Tasks \ {t} : (u \in everCancelled') = (u \in everCancelled)
      BY <2>1
    <2> QED BY <2>1, <2>2, <2>3, Zenon
  <1>4. Others(t)
    BY <1>3, Zenon DEF Others
  <1>5. Chained(t)'
    <2>1. \A i \in 1..Len(writes[t]) : Legal(t, writes[t][i])
      BY Zenon DEF TaskInv, Chained
    <2>2. \A i \in 1..Len(writes'[t]) : Legal(t, writes[t][i])'
      BY <1>3, <2>1 DEF Legal, In
    <2> QED BY <1>3, <2>2, Zenon DEF TaskInv, Chained
  <1>6. /\ w.rec.state \in Active => w.origin \in {"start", "run", "pid"}
        /\ w.rec.state \in Ended => w.origin \in {"result", "failure", "refresh"}
        /\ w.rec.state = "cancelled" => w.origin = "cancel"
    BY <1>1, <1>2, Zenon DEF Legal, Origins, StatesOf, Ended, Active
  <1>7. StartsAfresh(t)'
    BY <1>1, <1>3, <1>6, Zenon DEF TaskInv, StartsAfresh
  <1>8. w.rec.state \in Active =>
            t \notin announced /\ (t \in everCancelled \/ In(t, Active) \/ starting.task = t)
    BY <1>1, <1>6, Zenon DEF Legal, TaskInv, StartsAfresh, Agree, Controlled
  <1>9. Agree(t)'
    <2>1. w.rec.state \in Ended => /\ exec[t] \notin {"persisting", "preparing", "resolving"}
                                   /\ w.rec.pid => proc[t] # "alive"
      BY <1>1, <1>6, Zenon DEF Legal
    <2> QED BY <1>2, <1>3, <1>8, <2>1, Zenon DEF TaskInv, Agree, Anywhere, OnDisk, In, Controlled
  <1>10. FileAgrees(t)'
    BY <1>1, <1>3, Zenon DEF TaskInv, FileAgrees, In
  <1>11. Claims(t)' => Claims(t)
    BY <1>3, <1>8, Zenon DEF Claims, Anywhere, OnDisk, In
  <1> QED BY <1>4, <1>5, <1>7, <1>9, <1>10, <1>11, Zenon DEF Kept, TaskInv

\* A write is done, and its caller goes on.
LEMMA CompletedWrite ==
    ASSUME TypeOK, NEW t \in Tasks, TaskInv(t), WriteCompletes(t)
    PROVE  Kept(t)
  <1>1. PICK w \in Write :
              /\ w = Head(writes[t]) /\ Legal(t, w)
              /\ starting.task = t => w.origin = "start"
              /\ w.origin # "cancel" => Tail(writes[t]) = <<>>
              /\ Tail(writes[t]) \in Seq(Write) /\ Len(Tail(writes[t])) <= 1
              /\ \A i \in 1..Len(Tail(writes[t])) :
                     /\ Tail(writes[t])[i].origin \in {"pid", "result"}
                     /\ Legal(t, Tail(writes[t])[i])
    BY FirstWrite, Zenon DEF WriteCompletes
  <1>2. w.origin \in Origins /\ w.rec \in Record /\ w.rec # NoRecord
    BY RecordAssumption, Zenon DEF Write
  <1>3. /\ records'[t] = w.rec /\ \A u \in Tasks \ {t} : records'[u] = records[u]
        /\ disk' = disk /\ disk[t] \in {w.rec, NoRecord} /\ everCancelled' = everCancelled /\ up' = up
        /\ w.rec.state = "cancelled" => t \in everCancelled
        /\ t \notin landed' /\ \A u \in Tasks \ {t} : (u \in landed') = (u \in landed)
    <2>1. /\ records' = [records EXCEPT ![t] = w.rec] /\ t \in landed /\ landed' = landed \ {t}
          /\ UNCHANGED <<disk, everCancelled, up>>
      BY <1>1, Zenon DEF WriteCompletes, bounds
    <2>2. records'[t] = w.rec /\ \A u \in Tasks \ {t} : records'[u] = records[u]
      BY <2>1, Zenon DEF TypeOK
    <2>3. t \notin landed' /\ \A u \in Tasks \ {t} : (u \in landed') = (u \in landed)
      BY <2>1
    <2>4. disk[t] \in {w.rec, NoRecord} /\ (w.rec.state = "cancelled" => t \in everCancelled)
      BY <1>1, <2>1, Zenon DEF TaskInv, FileAgrees
    <2> QED BY <2>1, <2>2, <2>3, <2>4, Zenon
  <1>4. Resumes(t, w)
    BY <1>1, Zenon DEF WriteCompletes
  <1>5. Idle.task = NoTask /\ Idle.removing = NoTask /\ NoTask \notin Tasks
    BY IdleIsTyped, TasksAssumption, Zenon
  <1>6. \A u \in Tasks \ {t} :
            /\ writes'[u] = writes[u] /\ exec'[u] = exec[u] /\ cancelling'[u] = cancelling[u]
            /\ proc'[u] = proc[u] /\ (u \in announced') = (u \in announced)
    <2>1. \A u \in Tasks \ {t} : writes'[u] = writes[u]
      BY <1>4 DEF Resumes, TypeOK
    <2>2. \A u \in Tasks \ {t} : exec'[u] = exec[u]
      BY <1>4 DEF Resumes, TypeOK
    <2>3. \A u \in Tasks \ {t} : cancelling'[u] = cancelling[u]
      BY <1>4 DEF Resumes, TypeOK
    <2>4. \A u \in Tasks \ {t} : proc'[u] = proc[u]
      BY <1>4 DEF Resumes, TypeOK
    <2>5. \A u \in Tasks \ {t} : (u \in announced') = (u \in announced)
      BY <1>4 DEF Resumes
    <2> QED BY <2>1, <2>2, <2>3, <2>4, <2>5, Zenon
  <1>7. starting' = starting \/ (starting' = Idle /\ starting.task = t)
    BY <1>1, <1>4, Zenon DEF Resumes, Legal
  <1>8. Others(t) /\ FileAgrees(t)'
    <2>1. \A u \in Tasks \ {t} :
            /\ (starting'.task = u) = (starting.task = u)
            /\ starting'.removing = u => starting.removing = u /\ starting'.unlinked = starting.unlinked
      BY <1>5, <1>7
    <2>2. starting'.removing = t => t \in everCancelled
      BY <1>5, <1>7, Zenon DEF WriteCompletes, TaskInv, FileAgrees
    <2>3. Others(t)
      BY <1>3, <1>6, <2>1, Zenon DEF Others
    <2>4. FileAgrees(t)'
      BY <1>3, <2>2, Zenon DEF FileAgrees
    <2> QED BY <2>3, <2>4, Zenon
  <1>9. CASE w.origin = "start"
    <2> DEFINE run == [origin |-> "run", rec |-> [state |-> "running", pid |-> FALSE]]
    <2>1. /\ starting.task = t /\ starting' = Idle /\ UNCHANGED <<cancelling, proc, announced>>
          /\ exec'[t] = "persisting" /\ writes'[t] = Append(<<>>, run)
          /\ w.rec.state = "starting"
      <3>1. /\ starting' = Idle /\ UNCHANGED <<cancelling, proc, announced>>
            /\ exec' = [exec EXCEPT ![t] = "persisting"]
            /\ writes' = [writes EXCEPT ![t] = Append(Tail(writes[t]), run)]
        BY <1>4, <1>9, Zenon DEF Resumes
      <3>2. Tail(writes[t]) = <<>> /\ starting.task = t /\ w.rec.state = "starting"
        BY <1>1, <1>9, Zenon DEF Legal, StatesOf
      <3>3. exec'[t] = "persisting" /\ writes'[t] = Append(Tail(writes[t]), run)
        BY <3>1, Zenon DEF TypeOK
      <3> QED BY <3>1, <3>2, <3>3, Zenon
    <2>2. Len(writes'[t]) = 1 /\ writes'[t][1] = run
      BY <2>1
    <2>3. Legal(t, run)'
      BY <2>1, Zenon DEF Legal, StatesOf, Ended
    <2>4. Chained(t)'
      <3>1. \A i \in 1..Len(writes'[t]) : i = 1
        BY <2>2
      <3>2. \A i \in 1..Len(writes'[t]) : Legal(t, writes[t][i])'
        BY <2>2, <2>3, <3>1, Zenon DEF Legal
      <3> QED BY <2>2, <3>2 DEF Chained
    <2>5. StartsAfresh(t)'
      BY <1>5, <2>1, Zenon DEF StartsAfresh
    <2>6. Agree(t)'
      BY <1>2, <1>3, <2>1, Zenon DEF TaskInv, StartsAfresh, Agree, Anywhere, OnDisk, In, Controlled, Ended, Active
    <2>7. Claims(t)' => Claims(t)
      BY <1>3, <2>1, Zenon DEF Claims
    <2> QED BY <1>8, <2>4, <2>5, <2>6, <2>7, Zenon DEF Kept, TaskInv
  <1>10. ASSUME w.origin # "start"
         PROVE  starting' = starting /\ starting.task # t /\ StartsAfresh(t)'
    BY <1>1, <1>4, <1>10, Zenon DEF Resumes, StartsAfresh
  <1>11. CASE w.origin \in {"run", "pid"}
    <2>1. /\ UNCHANGED <<cancelling, proc, announced>> /\ writes'[t] = <<>> /\ w.rec.state = "running"
          /\ \/ exec[t] = "persisting" /\ exec'[t] = "preparing"
             \/ exec[t] \in {"child", "resolved", "rejected"} /\ exec'[t] = exec[t]
      <3>1. /\ UNCHANGED <<cancelling, proc, announced>> /\ writes' = [writes EXCEPT ![t] = Tail(writes[t])]
            /\ \/ w.origin = "run" /\ exec' = [exec EXCEPT ![t] = "preparing"]
               \/ w.origin = "pid" /\ exec' = exec
        BY <1>4, <1>11, Zenon DEF Resumes
      <3>2. /\ w.rec.state = "running" /\ Tail(writes[t]) = <<>>
            /\ w.origin = "run" => exec[t] = "persisting"
            /\ w.origin = "pid" => exec[t] \in {"child", "resolved", "rejected"}
        BY <1>1, <1>11, Zenon DEF Legal, StatesOf
      <3> QED BY <3>1, <3>2 DEF TypeOK
    <2>2. Chained(t)'
      BY <2>1, NoWrites, Zenon
    <2>3. Agree(t)'
      BY <1>2, <1>3, <2>1, Zenon DEF TaskInv, Agree, Anywhere, OnDisk, In, Controlled, Ended, Active
    <2>4. Claims(t)' => Claims(t)
      BY <1>3, <1>10, <1>11, <2>1, Zenon DEF TaskInv, Agree, Controlled, Claims, Anywhere
    <2> QED BY <1>8, <1>10, <1>11, <2>2, <2>3, <2>4, Zenon DEF Kept, TaskInv
  <1>12. CASE w.origin \in {"refresh", "result", "failure"}
    <2>1. /\ UNCHANGED <<cancelling, proc>> /\ writes'[t] = <<>> /\ w.rec.state \in Ended
          /\ w.rec.pid => proc[t] # "alive"
          /\ \/ exec[t] \in {"none", "done"} /\ exec'[t] = exec[t]
             \/ exec[t] = "ending" /\ exec'[t] = "done"
      <3>1. /\ UNCHANGED <<cancelling, proc>> /\ writes' = [writes EXCEPT ![t] = Tail(writes[t])]
            /\ \/ w.origin = "refresh" /\ exec' = exec
               \/ w.origin # "refresh" /\ exec' = [exec EXCEPT ![t] = "done"]
        BY <1>4, <1>12, Zenon DEF Resumes
      <3>2. /\ w.rec.state \in Ended /\ (w.rec.pid => proc[t] # "alive") /\ Tail(writes[t]) = <<>>
            /\ w.origin = "refresh" => exec[t] \in {"none", "done"}
            /\ w.origin # "refresh" => exec[t] = "ending"
        BY <1>1, <1>12, Zenon DEF Legal, StatesOf
      <3> QED BY <3>1, <3>2, Zenon DEF TypeOK
    <2>2. Chained(t)'
      BY <2>1, NoWrites, Zenon
    <2>3. Agree(t)'
      BY <1>2, <1>3, <2>1, Zenon DEF TaskInv, Agree, Anywhere, OnDisk, In, Controlled, Ended, Active
    <2>4. Claims(t)' => Claims(t)
      BY <1>2, <1>3, <1>10, <1>12, <2>1, Zenon DEF Claims, Anywhere, OnDisk, In, Ended, Active
    <2> QED BY <1>8, <1>10, <1>12, <2>2, <2>3, <2>4, Zenon DEF Kept, TaskInv
  <1>13. CASE w.origin = "cancel"
    <2>1. /\ UNCHANGED <<exec, announced>> /\ writes'[t] = Tail(writes[t]) /\ w.rec.state = "cancelled"
          /\ proc'[t] = proc[t] \/ proc'[t] # "alive"
          /\ cancelling'[t] = "awaiting" => Controlled(t)
      <3>1. /\ UNCHANGED <<exec, announced>> /\ writes' = [writes EXCEPT ![t] = Tail(writes[t])]
            /\ proc' = proc \/ \E p \in {"gone", "unstoppable"} : proc' = [proc EXCEPT ![t] = p]
            /\ Controlled(t) \/ cancelling' = [cancelling EXCEPT ![t] = "no"]
        BY <1>4, <1>13, Zenon DEF Resumes
      <3>2. w.rec.state = "cancelled"
        BY <1>1, <1>13, Zenon DEF Legal, StatesOf
      <3>3. proc'[t] = proc[t] \/ proc'[t] # "alive"
        BY <3>1, Zenon DEF TypeOK
      <3>4. writes'[t] = Tail(writes[t]) /\ (Controlled(t) \/ cancelling'[t] = "no")
        BY <3>1, Zenon DEF TypeOK
      <3> QED BY <3>1, <3>2, <3>3, <3>4, Zenon
    <2>2. Chained(t)'
      <3>1. \A i \in 1..Len(writes'[t]) : Legal(t, writes[t][i])'
        <4>1. \A i \in 1..Len(Tail(writes[t])) : LET v == Tail(writes[t])[i] IN
                v.origin \in {"pid", "result"} /\ Legal(t, v)
          BY <1>1, Zenon
        <4>2. starting' = starting
          BY <1>10, <1>13, Zenon
        <4> QED BY <2>1, <4>1, <4>2 DEF Legal
      <3>2. PICK q \in Seq(Write) : q = writes'[t] /\ Len(q) <= 1
        BY <1>1, <2>1, Zenon
      <3>3. Len(q) <= 2 /\ Len(q) # 2
        <4>1. \A n \in Nat : n <= 1 => n <= 2 /\ n # 2
          OBVIOUS
        <4>2. Len(q) \in Nat
          OBVIOUS
        <4> QED BY <3>2, <4>1, <4>2, Zenon
      <3> QED BY <3>1, <3>2, <3>3, Zenon DEF Chained
    <2>3. Agree(t)'
      BY <1>2, <1>3, <2>1, Zenon DEF TaskInv, Agree, Anywhere, OnDisk, In, Controlled, Ended, Active
    <2>4. Claims(t)' => Claims(t)
      BY <1>3, <2>1, Zenon DEF Claims
    <2> QED BY <1>8, <1>10, <1>13, <2>2, <2>3, <2>4, Zenon DEF Kept, TaskInv
  <1> QED BY <1>2, <1>9, <1>11, <1>12, <1>13, Zenon DEF Origins

\* The task of a new start has nothing pending, and its command is not taken.
LEMMA StartStep ==
    ASSUME TypeOK, Loaded, ClaimedOnce, \A u \in Tasks : TaskInv(u), NEW t \in Tasks, StartTask(t)
    PROVE  ClaimedOnce' /\ \A u \in Tasks : TaskInv(u)'
  <1>1. /\ UNCHANGED <<disk, records, writes, landed, exec, cancelling, proc, announced, everCancelled, up>>
        /\ records[t] = NoRecord /\ exec[t] = "none" /\ proc[t] = "none"
        /\ t \notin announced /\ t \notin everCancelled /\ up
        /\ starting.task = NoTask /\ NoTask \notin Tasks /\ starting'.task = t /\ starting'.removing = NoTask
    <2>1. starting = Idle /\ \E V \in Victims(records) : starting' = [Idle EXCEPT !.task = t, !.victims = V]
      BY Zenon DEF StartTask
    <2>2. /\ starting.task = NoTask /\ NoTask \notin Tasks /\ starting'.task = t
          /\ starting'.removing = NoTask
      BY <2>1, IdleIsTyped, TasksAssumption DEF Starts
    <2>3. t \notin announced /\ t \notin everCancelled
      BY DEF StartTask, Unused
    <2> QED BY <2>2, <2>3, Zenon DEF StartTask, Unused, history, bounds
  <1>2. PICK q \in Seq(Write) : q = writes[t]
    BY Zenon DEF TypeOK
  <1>3. ASSUME NEW i \in 1..Len(q)
        PROVE  FALSE
    <2>1. Legal(t, q[i])
      BY <1>2, Zenon DEF TaskInv, Chained
    <2>2. q[i] \in Write
      OBVIOUS
    <2>3. q[i].origin \in Origins
      BY <2>2, Zenon DEF Write
    <2> QED BY <1>1, <2>1, <2>3, Zenon DEF Legal, Origins, In
  <1>4. writes'[t] = <<>> /\ \A i \in 1..Len(writes'[t]) : FALSE
    BY <1>1, <1>2, <1>3
  <1>5. Others(t)
    BY <1>1, Zenon DEF Others
  <1>6. TaskInv(t)'
    <2>1. Chained(t)'
      BY <1>4, NoWrites, Zenon
    <2>2. StartsAfresh(t)'
      BY <1>1, <1>4, Zenon DEF StartsAfresh
    <2>3. Agree(t)'
      BY <1>1, Zenon DEF TaskInv, Agree, Anywhere, OnDisk, In, Controlled
    <2>4. FileAgrees(t)'
      BY <1>1, Zenon DEF TaskInv, FileAgrees, In
    <2> QED BY <2>1, <2>2, <2>3, <2>4, Zenon DEF TaskInv
  <1>7. \A u \in Tasks \ {t} : TaskInv(u)' /\ (Claims(u)' => Claims(u))
    BY <1>5, OthersKept, Zenon
  <1>8. ASSUME NEW u \in Tasks \ {t}, CommandOf[u] = CommandOf[t], Claims(u)
        PROVE  FALSE
    <2>1. Anywhere(u, Active) /\ u \notin everCancelled /\ TaskInv(u)
      BY <1>1, <1>8, Zenon DEF Claims
    <2>2. CASE u \notin landed
      BY <1>1, <1>8, <2>1, <2>2, Zenon DEF TaskInv, FileAgrees, Anywhere, OnDisk, In, StartTask
    <2>3. CASE u \in landed
      <3>1. PICK w \in Write : w = Head(writes[u]) /\ Legal(u, w)
        BY <2>1, <2>3, FirstWrite, Zenon DEF TaskInv, FileAgrees
      <3>2. disk[u] \in {w.rec, NoRecord}
        BY <2>1, <2>3, <3>1, Zenon DEF TaskInv, FileAgrees
      <3>3. w.rec.state \in Active => w.origin \in {"start", "run", "pid"}
        <4>1. w.origin \in Origins /\ w.rec.state \in StatesOf(w.origin)
          BY <3>1, Zenon DEF Write, Legal
        <4> QED BY <4>1, Zenon DEF Origins, StatesOf, Ended, Active
      <3>4. w.rec.state \in Active => In(u, Active)
        BY <1>1, <2>1, <3>1, <3>3, Zenon DEF Legal, TaskInv, Agree, Controlled
      <3> QED BY <1>8, <2>1, <3>2, <3>4, Zenon DEF Anywhere, OnDisk, StartTask
    <2> QED BY <2>2, <2>3, Zenon
  <1>9. ClaimedOnce'
    BY <1>7, <1>8, Zenon DEF ClaimedOnce
  <1> QED BY <1>6, <1>7, <1>9, Zenon

\* What a crash leaves of a task, and what initialize makes of it: no more than was there.
LEMMA RestartKeeps ==
    ASSUME NEW t \in Tasks, TaskInv(t),
           UNCHANGED <<proc, announced, everCancelled>>,
           starting' = Idle, writes'[t] = <<>>, exec'[t] = "none", cancelling'[t] # "awaiting",
           t \notin landed', disk'[t] \in {disk[t], NoRecord},
           records'[t] = NoRecord \/ records'[t] = disk'[t], up' => records'[t] = disk'[t]
    PROVE  TaskInv(t)' /\ (Claims(t)' => Claims(t))
  <1>1. starting'.task # t /\ starting'.removing # t
    BY IdleIsTyped, TasksAssumption, Zenon
  <1>2. Chained(t)'
    BY NoWrites, Zenon
  <1>3. StartsAfresh(t)'
    BY <1>1, Zenon DEF StartsAfresh
  <1>4. \A S : (Anywhere(t, S))' => OnDisk(t, S)
    BY Zenon DEF Anywhere, OnDisk, In
  <1>5. Agree(t)'
    BY <1>4, Zenon DEF TaskInv, Agree, Anywhere, OnDisk, In, Controlled
  <1>6. FileAgrees(t)'
    BY <1>1, Zenon DEF FileAgrees
  <1>7. Claims(t)' => Claims(t)
    BY <1>1, <1>4, Zenon DEF Claims, Anywhere
  <1> QED BY <1>2, <1>3, <1>5, <1>6, <1>7, Zenon DEF TaskInv

\* The agent exits.
LEMMA CrashStep ==
    ASSUME TypeOK, ClaimedOnce, \A u \in Tasks : TaskInv(u), Crash
    PROVE  ClaimedOnce' /\ \A u \in Tasks : TaskInv(u)'
  <1>1. ASSUME NEW t \in Tasks
        PROVE  TaskInv(t)' /\ (Claims(t)' => Claims(t))
    <2>1. /\ UNCHANGED <<proc, announced, everCancelled>> /\ starting' = Idle
          /\ writes'[t] = <<>> /\ exec'[t] = "none" /\ cancelling'[t] # "awaiting"
          /\ t \notin landed' /\ records'[t] = NoRecord /\ ~ up'
      BY Zenon DEF Crash, history
    <2>2. disk'[t] \in {disk[t], NoRecord}
      BY Zenon DEF Crash
    <2> QED BY <2>1, <2>2, RestartKeeps, Zenon
  <1> QED BY <1>1, Zenon DEF ClaimedOnce

\* The agent starts again.
LEMMA InitializeStep ==
    ASSUME TypeOK, Loaded, ClaimedOnce, \A u \in Tasks : TaskInv(u), Initialize
    PROVE  ClaimedOnce' /\ \A u \in Tasks : TaskInv(u)'
  <1>1. ASSUME NEW t \in Tasks
        PROVE  TaskInv(t)' /\ (Claims(t)' => Claims(t))
    <2>1. /\ UNCHANGED <<proc, announced, everCancelled>> /\ starting' = Idle
          /\ writes'[t] = <<>> /\ exec'[t] = "none" /\ t \notin landed'
          /\ cancelling'[t] # "awaiting"
      BY Zenon DEF Initialize, history, Loaded, TaskInv, Agree
    <2>2. disk'[t] \in {disk[t], NoRecord} /\ records'[t] = disk'[t]
      BY Zenon DEF Initialize
    <2> QED BY <2>1, <2>2, RestartKeeps, Zenon
  <1> QED BY <1>1, Zenon DEF ClaimedOnce
------------------------------------------------------------------------------
(* The inductive invariant, and what follows from it.                      *)

\* Memory stays empty while the agent is down, and no file is removed outside a removal.
LEMMA LoadedStep == TypeOK /\ Loaded /\ [Next]_vars => Loaded'
  <1> SUFFICES ASSUME TypeOK, Loaded, [Next]_vars
               PROVE  Loaded'
    BY Zenon
  <1>1. CASE Crash
    BY <1>1, IdleIsTyped, Zenon DEF Crash, Loaded
  <1>2. CASE Initialize
    BY <1>2, Zenon DEF Initialize, Loaded
  <1>3. ASSUME up, up' = up, starting' \in {starting, Idle}
        PROVE  Loaded'
    BY <1>3, IdleIsTyped, Zenon DEF Loaded
  <1>4. ASSUME NEW t \in Tasks, StartTask(t) \/ Prunes(t)
        PROVE  Loaded'
    <2>1. up /\ up' = up
      BY <1>4, Zenon DEF StartTask, Prunes, PruneChecks, RemoveFile, DeleteRecord, bounds
    <2>2. t # NoTask
      BY TasksAssumption, Zenon
    <2>3. starting'.removing = NoTask => ~ starting'.unlinked
      <3>1. CASE StartTask(t)
        <4>1. PICK V \in Victims(records) : starting' = [Idle EXCEPT !.task = t, !.victims = V]
          BY <3>1, Zenon DEF StartTask
        <4> QED BY <4>1, IdleIsTyped DEF Starts
      <3>2. CASE PruneChecks(t)
        BY <3>2 DEF PruneChecks, Loaded, TypeOK, Starts
      <3>3. CASE RemoveFile(t)
        BY <2>2, <3>3 DEF RemoveFile, TypeOK, Starts
      <3>4. CASE DeleteRecord(t)
        BY <3>4 DEF DeleteRecord, TypeOK, Starts
      <3> QED BY <1>4, <3>1, <3>2, <3>3, <3>4, Zenon DEF Prunes
    <2> QED BY <2>1, <2>3, Zenon DEF Loaded
  <1>5. ASSUME NEW t \in Tasks,
               \/ Executes(t) \/ Cancel(t) \/ CancelReturns(t)
               \/ RefreshRecoveredTask(t) \/ WriteLands(t) \/ WriteCompletes(t) \/ WriteFails(t)
        PROVE  Loaded'
    <2>1. up /\ up' = up
      BY <1>5, Zenon DEF Executes, Prepare, Spawn, SpawnFails, ChildCloses, TerminationFails,
         EndsCancelled, EndsResolved, ResultPersisted, EndsRejected, Cancel, CancelReturns,
         RefreshRecoveredTask, WriteLands, WriteCompletes, WriteFails, bounds
    <2>2. starting' \in {starting, Idle}
      <3>1. CASE Executes(t)
        BY <3>1, Zenon DEF Executes, Prepare, Spawn, SpawnFails, ChildCloses, TerminationFails,
           EndsCancelled, EndsResolved, ResultPersisted, EndsRejected
      <3>2. CASE Cancel(t) \/ CancelReturns(t) \/ RefreshRecoveredTask(t) \/ WriteLands(t)
        BY <3>2, Zenon DEF Cancel, CancelReturns, RefreshRecoveredTask, WriteLands
      <3>3. CASE WriteCompletes(t)
        BY <3>3, Zenon DEF WriteCompletes, Resumes
      <3>4. CASE WriteFails(t)
        BY <3>4, Zenon DEF WriteFails
      <3> QED BY <1>5, <3>1, <3>2, <3>3, <3>4, Zenon
    <2> QED BY <1>3, <2>1, <2>2, Zenon
  <1>6. ASSUME NEW t \in Tasks, OrphanExits(t)
        PROVE  Loaded'
    BY <1>6, Zenon DEF OrphanExits, Loaded, memory, bounds
  <1>7. CASE UNCHANGED vars
    BY <1>7, Zenon DEF vars, memory, bounds, Loaded
  <1>8. CASE StartPersists \/ StartFails
    BY <1>3, <1>8, Zenon DEF StartPersists, StartFails, bounds
  <1> QED BY <1>1, <1>2, <1>4, <1>5, <1>6, <1>7, <1>8, Zenon DEF Next

\* Every step keeps the inductive invariant.
LEMMA InvStep == TasksInv /\ [Next]_vars => TasksInv'
  <1> SUFFICES ASSUME TasksInv, [Next]_vars
               PROVE  ClaimedOnce' /\ \A u \in Tasks : TaskInv(u)'
    BY TypeStep, LoadedStep, Zenon DEF TasksInv
  <1>1. TypeOK /\ Loaded /\ ClaimedOnce /\ \A u \in Tasks : TaskInv(u)
    BY Zenon DEF TasksInv
  <1>2. ASSUME NEW t \in Tasks,
               \/ Prepare(t) \/ SpawnFails(t) \/ ChildCloses(t) \/ TerminationFails(t)
               \/ EndsCancelled(t) \/ EndsResolved(t) \/ CancelReturns(t) \/ OrphanExits(t)
        PROVE  Kept(t)
    BY <1>1, <1>2, MoveSteps, Zenon
  <1>3. ASSUME NEW t \in Tasks, Spawn(t) \/ EndsRejected(t) \/ ResultPersisted(t)
        PROVE  Kept(t)
    BY <1>1, <1>3, ExecuteWrites, Zenon
  <1>4. ASSUME NEW t \in Tasks, Cancel(t) \/ RefreshRecoveredTask(t)
        PROVE  Kept(t)
    BY <1>1, <1>4, CallWrites, Zenon
  <1>5. ASSUME NEW t \in Tasks, Prunes(t) \/ WriteLands(t) \/ WriteCompletes(t) \/ WriteFails(t)
        PROVE  Kept(t)
    BY <1>1, <1>5, PruneStep, LandedWrite, CompletedWrite, FailedWrite, Zenon
  <1>6. ASSUME NEW t \in Tasks, Prunes(t) \/ Executes(t) \/ Cancel(t) \/ CancelReturns(t)
                   \/ RefreshRecoveredTask(t) \/ WriteLands(t) \/ WriteCompletes(t) \/ WriteFails(t)
                   \/ OrphanExits(t)
        PROVE  ClaimedOnce' /\ \A u \in Tasks : TaskInv(u)'
    <2>1. Kept(t)
      BY <1>2, <1>3, <1>4, <1>5, <1>6, Zenon DEF Executes
    <2> QED BY <1>1, <2>1, OneTask, Zenon
  <1>7. CASE StartPersists \/ StartFails
    <2>2. PICK t \in Tasks : t = starting.task
      BY <1>1, <1>7, Zenon DEF StartPersists, StartFails, TypeOK, Starts
    <2>3. Kept(t)
      BY <1>1, <1>7, <2>2, StartWrites, FailedStart, Zenon
    <2> QED BY <1>1, <2>3, OneTask, Zenon
  <1>8. CASE UNCHANGED vars
    <2>1. UNCHANGED <<disk, records, writes, landed, starting, exec, cancelling, proc, announced,
                      everCancelled, up>>
      BY <1>8, Zenon DEF vars, memory, history, bounds
    <2>2. \A u \in Tasks : TaskInv(u)'
      <3> SUFFICES ASSUME NEW u \in Tasks
                   PROVE  TaskInv(u)'
        BY Zenon
      <3>1. Chained(u)'
        <4>1. \A i \in 1..Len(writes[u]) : Legal(u, writes[u][i])
          BY <1>1, Zenon DEF TaskInv, Chained
        <4>2. \A i \in 1..Len(writes'[u]) : Legal(u, writes[u][i])'
          BY <2>1, <4>1, Zenon DEF Legal, In
        <4> QED BY <1>1, <2>1, <4>2, Zenon DEF TaskInv, Chained
      <3>2. StartsAfresh(u)'
        BY <1>1, <2>1, Zenon DEF TaskInv, StartsAfresh
      <3>3. Agree(u)'
        BY <1>1, <2>1, Zenon DEF TaskInv, Agree, Anywhere, OnDisk, In, Controlled
      <3>4. FileAgrees(u)'
        BY <1>1, <2>1, Zenon DEF TaskInv, FileAgrees, In
      <3> QED BY <3>1, <3>2, <3>3, <3>4, Zenon DEF TaskInv
    <2>3. ClaimedOnce'
      BY <1>1, <2>1, Zenon DEF ClaimedOnce, Claims, Anywhere, OnDisk, In
    <2> QED BY <2>2, <2>3, Zenon
  <1> QED BY <1>1, <1>6, <1>7, <1>8, StartStep, CrashStep, InitializeStep, Zenon DEF Next

\* The chains, the executions, the children and the records of BackgroundTaskManager agree
\* in every reachable state, across crashes and failed writes.
THEOREM TasksInvHolds == Spec => []TasksInv
  <1>1. Init => TasksInv
    <2> SUFFICES ASSUME Init
                 PROVE  TasksInv
      BY Zenon
    <2>1. /\ \A t \in Tasks : /\ disk[t] = NoRecord /\ writes[t] = <<>> /\ exec[t] = "none"
                              /\ proc[t] = "none" /\ cancelling[t] = "no"
          /\ records = disk /\ up /\ landed = {} /\ announced = {} /\ everCancelled = {}
          /\ starting.task \notin Tasks /\ starting.removing \notin Tasks /\ ~ starting.unlinked
      BY IdleIsTyped, TasksAssumption, Zenon DEF Init
    <2>2. TypeOK
      BY IdleIsTyped, TasksAssumption DEF Init, TypeOK, Phases
    <2>3. \A t \in Tasks : TaskInv(t)
      <3> SUFFICES ASSUME NEW t \in Tasks
                   PROVE  TaskInv(t)
        BY Zenon
      <3>1. Chained(t)
        BY <2>1, NoWrites, Zenon
      <3>2. StartsAfresh(t)
        BY <2>1, Zenon DEF StartsAfresh
      <3>3. Agree(t)
        BY <2>1, Zenon DEF Agree, Anywhere, OnDisk, In, Controlled
      <3>4. FileAgrees(t)
        BY <2>1, Zenon DEF FileAgrees
      <3> QED BY <3>1, <3>2, <3>3, <3>4, Zenon DEF TaskInv
    <2>4. ClaimedOnce /\ Loaded
      BY <2>1, Zenon DEF ClaimedOnce, Claims, Anywhere, OnDisk, In, Loaded
    <2> QED BY <2>2, <2>3, <2>4, Zenon DEF TasksInv
  <1> QED BY <1>1, InvStep, PTL DEF Spec

\* Two tasks are active with one command only after one of them was cancelled: the
\* duplicate check of start_background_task holds across the awaits of start, restarts and
\* failed writes.
THEOREM OneActivePerCommandHolds == Spec => []OneActivePerCommand
  <1>1. TasksInv => OneActivePerCommand
    BY Zenon DEF TasksInv, ClaimedOnce, Claims, Anywhere, OneActivePerCommand
  <1> QED BY <1>1, TasksInvHolds, PTL

\* No task is reported as ended, with the pid of its child, while the child was left to run.
THEOREM EndedChildIsGoneHolds == Spec => []EndedChildIsGone
  <1>1. TasksInv => EndedChildIsGone
    BY Zenon DEF TasksInv, TaskInv, Agree, Ended, EndedChildIsGone
  <1> QED BY <1>1, TasksInvHolds, PTL

\* What onTaskFinished announced is terminal on disk, whatever crash or failure follows.
THEOREM AnnouncedIsPersistedHolds == Spec => []AnnouncedIsPersisted
  <1>1. TasksInv => AnnouncedIsPersisted
    <2> SUFFICES ASSUME TasksInv, NEW t \in announced, disk[t] # NoRecord
                 PROVE  disk[t].state \in Terminal
      BY Zenon DEF AnnouncedIsPersisted
    <2>1. t \in Tasks /\ disk[t] \in Record /\ ~ OnDisk(t, Active)
      BY DEF TasksInv, TypeOK, TaskInv, Agree, Anywhere
    <2>2. disk[t].state \in Active \cup Terminal
      BY <2>1, Zenon DEF Record
    <2> QED BY <2>1, <2>2, Zenon DEF OnDisk
  <1> QED BY <1>1, TasksInvHolds, PTL

\* The file of a task that was never cancelled holds what memory holds, or nothing, whenever
\* neither persist() nor pruneTerminalRecords is at work on it: whatever write a removal
\* overlaps, what was removed does not come back and what was written is not lost.
THEOREM FileMatchesMemoryHolds == Spec => []FileMatchesMemory
  <1>1. TasksInv => FileMatchesMemory
    BY Zenon DEF TasksInv, TaskInv, FileAgrees, FileMatchesMemory
  <1> QED BY <1>1, TasksInvHolds, PTL

\* The step part of CancelReturnsWhenChildGone.
LEMMA CancelWaits ==
    ASSUME TasksInv, Next, NEW t \in Tasks, cancelling[t] # "no", cancelling'[t] = "no", up',
           failures' = failures
    PROVE  proc'[t] # "alive"
  <1>1. TypeOK /\ TaskInv(t)
    BY Zenon DEF TasksInv
  <1>2. ASSUME NEW u \in Tasks, CancelReturns(u)
        PROVE  proc'[t] # "alive"
    <2>1. u = t
      BY <1>1, <1>2, Zenon DEF CancelReturns, TypeOK
    <2> QED BY <1>1, <1>2, <2>1, Zenon DEF CancelReturns, TaskInv, Agree
  <1>3. ASSUME NEW u \in Tasks, WriteCompletes(u)
        PROVE  proc'[t] # "alive"
    <2>1. Resumes(u, Head(writes[u])) /\ writes[u] # <<>>
      BY <1>3, Zenon DEF WriteCompletes
    <2>2. /\ u = t /\ Head(writes[u]).origin = "cancel" /\ ~ Controlled(u)
          /\ \/ ~ (Head(writes[u]).rec.pid /\ Exists(u)) /\ UNCHANGED proc
             \/ \E p \in {"gone", "unstoppable"} : proc' = [proc EXCEPT ![u] = p]
      BY <1>1, <2>1 DEF Resumes, TypeOK
    <2>3. PICK w \in Write : w = Head(writes[t]) /\ Legal(t, w)
      BY <1>1, <2>1, <2>2, FirstWrite, Zenon
    <2>4. CASE UNCHANGED proc /\ ~ (w.rec.pid /\ Exists(t))
      BY <1>1, <2>2, <2>3, <2>4, Zenon DEF Legal, Controlled, Exists, TaskInv, Agree
    <2>5. CASE \E p \in {"gone", "unstoppable"} : proc' = [proc EXCEPT ![t] = p]
      BY <1>1, <2>5, Zenon DEF TypeOK
    <2> QED BY <2>2, <2>3, <2>4, <2>5, Zenon
  <1>4. ASSUME NEW u \in Tasks, Cancel(u)
        PROVE  FALSE
    BY <1>1, <1>4, Zenon DEF Cancel, TypeOK
  <1>5. ASSUME NEW u \in Tasks, WriteFails(u)
        PROVE  FALSE
    <2>1. failures \in Nat
      BY <1>1, TasksAssumption DEF TypeOK
    <2>2. failures' = failures + 1
      BY <1>5, Zenon DEF WriteFails
    <2> QED BY <2>1, <2>2
  <1>6. \/ Crash \/ cancelling' = cancelling
        \/ \E u \in Tasks : CancelReturns(u) \/ WriteCompletes(u) \/ Cancel(u) \/ WriteFails(u)
    BY Zenon DEF Next, StartTask, Prunes, PruneChecks, RemoveFile, DeleteRecord, WriteLands, StartFails, Executes, Prepare, Spawn, SpawnFails, ChildCloses, TerminationFails,
       EndsCancelled, EndsResolved, ResultPersisted, EndsRejected, RefreshRecoveredTask,
       StartPersists, Initialize, OrphanExits, memory
  <1>7. ~ Crash
    BY Zenon DEF Crash
  <1> QED BY <1>2, <1>3, <1>4, <1>5, <1>6, <1>7, Zenon

\* A call of cancel_background_task whose write succeeds returns only when the child is
\* gone or was tried to be killed.
THEOREM CancelReturnsWhenChildGoneHolds == Spec => CancelReturnsWhenChildGone
  <1>1. TasksInv /\ [Next]_vars =>
            [\A t \in Tasks : cancelling[t] # "no" /\ cancelling'[t] = "no" /\ up' /\ failures' = failures =>
                proc'[t] # "alive"]_vars
    BY CancelWaits, Zenon
  <1> QED BY <1>1, TasksInvHolds, PTL DEF Spec, CancelReturnsWhenChildGone
==============================================================================

# TLA+ specifications of the MCP Access Stack

This directory holds TLA+ models of the parts of the repository whose
correctness depends on order, interleaving and failure, the TLC configurations
that check them on small instances, and TLAPS proofs for every size. All
definitions are translated from the code under `src/`; `PROJECT.json` maps each
one to the lines it stands for.

## 1. The system and its parts

ChatGPT reaches a Cloudflare Worker (`mcp-edge-gateway`), which forwards calls
over a WebSocket to an Edge Connector (`mcp-gateway`) on the user's machine;
that one serves them with the workspace agent (`workspace-agent`) and the
browser worker (`browser-worker`). Releases of the whole stack are driven by the
Oracle release orchestrator (`oracle-release-orchestrator`), which is read and
controlled through the update-control worker (`update-control-worker`).

| Part | State | Operations | What is hard about it |
| --- | --- | --- | --- |
| Release ledger | runs, steps, attempts, evidence, reconciliations, gates, decisions, event sequence (SQLite) | create, start, begin, record, mark unknown, reconcile, recover, resolve gate | ambiguous outcomes; retries only after proof; four ways to complete a run |
| Release executor | the call in progress | `advance`, `poll` | state read before an await and used after it; crash between two transactions |
| Release capabilities | external world | `authorize`, `execute`, `reconcile` | lost acknowledgements |
| Trusted host | `activeRuns` | `advance` with an expected `last_seq` | permission given for a state that is gone |
| Release blueprint | constant | none | order, gates and evidence kinds kept in three files |
| Oracle control and channel connectors, read API | socket, requests in flight | connect, read, answer, abort | reconnect with answers outstanding; long poll |
| Background tasks | task records (files), child processes | start, list, wait, write, cancel, recover, prune | cancel racing start; restart with orphans |
| Command execution | confirmations, grants | propose, confirm, run | one confirmation used once, gone with its process |
| Delegated campaigns | lock file with its lease, tasks in a ledger, supervisors | acquire, renew, take over; claim, execute, reconcile, transition; wake | a lease that runs out under a slow holder; taking over from a process that died in the middle of a commit |
| Mutation receipts | receipt files | reserve, execute, complete, require reconciliation | crash between effect and receipt |
| Self-update (`mcp_update`) | a record on the execution node and one on the Windows companion, releases of both | start, confirm, resume; 11 steps; prepare and promote; ask, accept, report | the process that promotes is replaced by the promote; answers relayed without acknowledgement |
| Operation registry | pending operations | register, begin, cancel | cancellation before registration |
| Edge connector | socket, heartbeat, calls in flight | connect, serve, drop | reconnect and late results |
| Companion, browser routing, worker pool | connections, leases | connect, lease, evict | ownership handover |
| Browser worker | sessions, tabs, tasks, queue, idempotency records | open, run, replay, close | replay of a running operation |
| Edge session | pending calls, connector ownership (Durable Object) | route, hand over, time out | hibernation, handover |
| Owner authentication | codes, tokens | issue, redeem, rotate | single use under concurrency |
| Workspace services, browser drivers, contracts, generated manifest | none of their own | I/O and schemas | nothing a model reaches |

What correctness means for the parts modelled so far: a step of a release is
dispatched again only after proof that it was not applied; nothing is done on
top of an ambiguous operation; conclusions are never taken back; a run is
declared successful only if it is; an external effect takes place at most once
whatever crashes; permission is used only for the state it was given for; and a
run that is advanced again and again ends, or is stuck in a way that is known.
For the read channel: one connection, every call answered once, and no call or
read left behind on a connection that is gone. For background tasks: the record
in memory, the file and the child process agree about what runs and what ended,
whoever cancels and whenever the agent dies. For browser operations: one at a
time per tab and a bounded number overall, a mutation carried out once however
often it is retried, and nobody left waiting for a slot that is free. For
campaigns: one pass over a campaign at a time, a commit asked for once, a verdict
that is final and true, and no commit left in flight while anybody attends. For
updates: nothing dispatched, prepared or promoted twice, and no success before
both machines and the Edge have had the new release, which then only a handover
that fails after its commit takes back.

## 2. Modules

* `ReleaseLedger` models `engine/release-orchestrator.ts`. A variable per column
  that guards or updates read: `runStatus`, `lastSeq` (`release_runs`),
  `stepStatus`, `stepKey` (`run_steps`), `attempts` (`step_attempts`), `evidence`,
  `reconciliations`, `gateStatus`, `decisions`. One action per public mutation,
  because each runs in one `BEGIN IMMEDIATE` transaction; `maybeCompleteRun` and
  `resumeIfNoUnknownOperations` are part of the action that calls them. Calls
  that throw or are replayed change nothing and are no actions. Clients are
  arbitrary. Identifiers are idempotency keys from small sets, evidence is the
  set of its kinds.
* `ReleaseExecutor` extends it with `advance()` of
  `release-workflow-executor.ts`: `call[c]` is where a call stands, one action
  per stretch of code between two awaits or two transactions. JavaScript runs
  one stretch at a time, so only a crash comes between two transactions of a
  stretch (`"loop"`, `"gate"`). `effects` is the world: each dispatch is in
  flight until it takes place or is lost, also while the process is down. What
  a capability may answer is a record per binding file. Capabilities are
  truthful about the world; they may always answer that they do not know.
* `ReleaseHost` puts `createTrustedOracleReleaseHost` in front of the executor:
  the call waits for the policy holding a `snapshot`, compares `last_seq` again
  and enters. Another writer may start the run meanwhile.
* `Beta80` gives the constants their production values: the 19 steps and 4 gates
  of `workflows/beta80-sequence.v1.ts`, the evidence kinds of the binding files
  and the capability of each action.
* `OracleChannel` models both ends of the read channel:
  `update-control-worker/src/oracle-channel.ts` (`pending`, `server`, with
  `answer` for what each caller got) and `oracle-channel-connector.ts` (`client`,
  `active`, `inFlight`, `running`). `down` and `up` are the frames under way on
  each socket, in order. A connection may be lost at any time; each end learns of
  it by an action of its own (`WebSocketClose`, `Settle`), so half-open
  connections happen. `ConnectOracle` is `connectOracle` after its last await,
  which may be long after the connector stopped waiting. Request ids and sockets
  are reused when nothing of the last use is left, so behaviours are unbounded
  while the sets are small. A frame is its request id and outcome.
* `BackgroundTasks` models `tasks/background-task-manager.ts` and the runner
  behind it. `writes` is the chain of pending `persist` calls of a task:
  `WriteLands` puts the first on disk, `WriteCompletes` puts it in memory and does
  what its caller does next (`Resumes`), which is how start, execute and cancel
  interleave. A start removes old tasks first, and its removals are steps of their
  own (`PruneChecks`, `RemoveFile`, `DeleteRecord`), between which a victim may be
  written again. `exec` is the point `execute()` has reached, `proc` the child,
  which survives the agent. A record is its state and whether it has the pid. Writes
  and removals may fail (`MaxFailures`), process trees may resist being killed, and
  the agent may exit (`MaxCrashes`) with a file old, new, or removed by the rename
  fallback.
* `BrowserQueue` models the browser worker's request handler
  (`browser-worker-application.ts`) with `BrowserIdempotencyRegistry` (`entry`,
  `expired`) and `BrowserOperationQueue` (`op`, `before`, `slotWaiters`,
  `active`). `before[r]` is the chain of promises in `tails`: the operations of
  the tab that had not released their turn when `r` was queued. An operation
  goes from `"turn"` to `"slot"` or `"acquired"`, from `"slot"` to `"woken"`, and
  by `"running"` or `"rejected"` to `"settled"`; a woken operation looks at
  `active` again, as the loop in `acquireSlot` does. A request is handled once
  and a retry is another request. The task is external: it ends, well or badly,
  whenever it likes, aborted or not. Time is abstracted: an entry may expire at
  any time after it settled, and a wait may be too long at any time.
* `RunLease` models `CampaignRunLease` step by step over the file system:
  `lock`, `written` and `expired` are the lock file, `guard` the recovery guard,
  `at[r]` where each caller of `run` stands and `beat[r]` its heartbeat, which
  runs beside the task. A process (`dead`) may die between any two steps, leaving
  an empty file, a guard or a lease that runs out, and every call of the file
  system may fail: a file that was created stays without its content, a renewal is
  not written, a guard or a lock is not removed. `seen` is the owner `tryRecover`
  has read until it removes the file. Nothing keeps the file from changing in
  between; `RecoversWhatItRead` says that it did not change hands, which section 6
  shows to fail when three runners meet.
* `ExclusiveRun` is what such a lock promises, in one variable: somebody enters
  when nobody is inside.
* `Campaign` extends `RunLease` with `DelegatedCampaignLedger` (`state`),
  `DelegatedCampaignCoordinator` (`co`: the pass under the lock, one action per
  await), `DelegatedCampaignSupervisor` (`sup`), and the commit of
  `bindGitCommit` through `executeSourceControlMutation`, with its `receipt` and
  the `git` process, which outlives the process that started it. A wake is
  `PutNew` of the lease; the lease's last step reports to the supervisor, of which
  only matters whether it will wake again and how often it was refused in a row.
  It may stop at any time between two wakes (`Retire`): `serve` has a budget of
  wakes, the process host one of epochs, and either may be told to stop. The
  ledger's short transactions are single steps, taken under a lease of their own:
  each may be refused, or be carried out and still throw.
* `CampaignPromise` is what a campaign promises: the effect of a task is asked
  for once, after its dependencies were completed, and a verdict is given once
  and is true. `Campaign` implements it with `asked` as the number of git
  processes started, `happened` as the commits made, and `verdict` as the final
  states of the ledger.
* `ReleaseInstall` models `release-install.ts`, prepare and promote of one
  release asked once, for both machines that use it: the record on `disk`, the
  `run()` that drives it (`drv`), the prepare `tasks`, the `active` release, the
  `candidate`, the `handover` of a promote and the single-use confirmations of
  the machine's process. The process dies by itself or is replaced; its successor
  reads the record. The handover is a process of its own, on the node
  `Invoke-McpAccessStackCutoverBroker.ps1` and on Windows
  `Invoke-McpV3LocalReleaseSwitch.ps1`, one action per phase: both commit the state
  file first (`CommitRelease`), then replace the process (`ReplaceProcess`), then
  check the outcome (`PassHandover`). A failure before the commit leaves the state
  file (`BrokerWithdraws`, `SwitchWithdraws`). One after it restores the file and
  starts the old process again, the broker in this order and the switch script in the
  other (`RestoreState`, `RestartOld`); a restore that itself fails leaves the file,
  and a script that stops leaves the handover in its phase.
  `promoteOnce` waits for the release to be active, which is the commit and not the end
  of the handover, and gives up with `ROLLED_BACK` when the old release is active without
  a candidate. Neither script leaves that state, as both restore the candidate too, so
  the wait after a failed handover ends by its timeout.
* `McpUpdate` composes the two machines: `mcp-update-runner.ts` on the execution
  node with its 11 steps and the workflows of GitHub (`wf`),
  `companion-update-runner.ts` on Windows, and the relay between them through the
  Edge, which loses messages. The relay sends a request to every companion that is
  ready; the model has one, and one process at a time on each machine. A message is
  lost when it is sent (`Sent`: no socket, or one that closes before it is read), so
  what is in transit when a process is replaced may still arrive, and the answer that
  the node held in memory is gone (`Disconnected`). The contract that the Edge serves
  is `previous`, `candidate` once an activation has deployed MAIN's, or `target`: the
  broker promotes it before it commits (`PromoteContract`) and rolls back, when it
  fails, what it knows that it promoted (`RollbackContract`).
  The agent's start, confirm and resume are actions.
  Only Windows asks for confirmations (`Guarded`): `mcp_update` runs in a trusted
  workspace (`local-agent.ts:651`). The agent's calls do not overlap each other,
  there is one update, and saving a record does not fail.
* `MC*` give small values to the constants. Definitions under a comment
  "Mutant" are deliberately wrong variants of the definition after them; they
  are used to confirm that a property notices the mistake.
* `ReleaseExecutorProofs` (the ledger first, then the executor), `ReleaseHostProofs`
  (also those about `Beta80`), `OracleChannelProofs`, `BackgroundTasksProofs`,
  `BrowserQueueProofs`, `CampaignProofs` (also those about `RunLease`) and
  `McpUpdateProofs` hold the theorems. `McpInstallProofs`, which `McpUpdateProofs`
  extends, holds the lemmas about one machine (`ReleaseInstall`) and the two layers of
  the invariant that the rest is built on.

## 3. Model-checking runs

| Run | Instance | Shows |
| --- | --- | --- |
| `ledger` | 3 steps (two in parallel behind a gate), 2 gates, 2 evidence kinds, 2 reconciliation keys, 2 attempts | six properties of the ledger under arbitrary clients |
| `executor` | 3 steps (two independent), 2 callers, 3 attempts, 2 passes per call, 1 crash | effects at most once, one operation at a time, and the run ends or is stuck in one of three ways |
| `executor_recheck` | 1 caller, no crash | the first disagreement of section 6 |
| `host` | the real blueprint, 2 callers, 24 passes per call, 1 crash | order, gates, evidence kinds and bindings fit together; permission and state belong together |
| `channel` | 3 requests, 2 sockets, limit 2 | one connection, calls and reads tied to it, only late answers break it; calls are answered, half-open connections are replaced |
| `tasks` | 2 tasks of one command, 1 exit, 1 failing write or removal, 1 record retained | records, files and children agree, tasks end |
| `tasks_cancel` | 1 task, no exits, no failing write | the second disagreement of section 6 |
| `browser` | a mutation, its retry, its key reused, another mutation; 1 entry, 1 slot | one operation per key, carried out once, true answers |
| `browser_slots` | a mutation and 2 reads, 2 tabs, 1 slot | tabs serialized, no wake-up lost, every operation leaves the queue |
| `campaign` | 2 supervisors in 2 processes, a read and 2 commits to one repository that depend on it, 2 steps per pass | the lease is exclusive and changes hands only by death, a campaign implements its promise, git works once per repository, commits in flight are reconciled |
| `lease_probe` | 3 runners in 3 processes | the third disagreement of section 6 |
| `update` | 1 fault (a crash of either process or a handover that fails), 1 resume, 1 message in transit each way, three initial worlds | nothing is dispatched or installed twice; success means installed, unless a handover was undone |

Bounds. Two parallel steps are what `resumeIfNoUnknownOperations` and key
uniqueness need; a gate that another step requires and one that none requires
distinguish the two ways a run completes. Two attempts show a retry; the
executor has three because a stale answer needs an attempt before and one after
it. Two passes per call make the step limit happen. One crash is enough for each
window between two transactions, and the invariants of the ledger, which hold for
any number, are proved. `lastSeq` needs no bound: every action that advances it
is bounded by attempts, keys and gates. The ledger run allows stopping
(`CHECK_DEADLOCK FALSE`): a client need not call again. In the other release runs
a caller can always advance again, so deadlock is checked. Callers are symmetric
in `host`. Two sockets are a connection and
the one that replaces it, and a third call is the one the limit of two turns away.
Two tasks of one command are what the duplicate check is about; more exits are left
to the proofs. The task runs allow stopping because each task id
is used by one start. With one slot, two operations of one tab and one of another
there are turns to wait for, waiters to wake and operations that overtake them;
longer chains of a tab, such as an operation aborted between two others, are left
to the proofs. One registry entry for two keys
makes the limit happen. The browser runs allow stopping because each request is
sent once.

Two processes are an owner and whoever takes over from it, and either may die.
With two the race of section 6 cannot happen (`TwoRecoverWhatTheyRead` proves it),
which is why `OneRunAtATime` and `OnlyDeadOwnersAreReplaced` pass in `campaign`:
with three runners the code violates both. Two steps per pass make the step budget happen with three tasks. A
supervisor of the run gives up after one locked pass, the code after four: more
failures only repeat the wait, and giving up is the case that matters. The
campaign may stop when everybody has died or given up. In `update` a fault
(`MaxFaults`: a crash of either process, or a handover that fails in any phase), a
resume and a lost message can fall anywhere, besides the exits a promote causes;
two faults, or two resumes, are beyond the run. The three initial worlds
(`AlreadyOut`) between them make every skip happen: a candidate left on the node; the
Edge on MAIN's contract and the companion's release published; and Windows with a
release that was installed by hand from the artifact of CI before it is published. The
run has 2.2 million states. With nothing out yet, and with a crash and a failed
handover in one behaviour, the properties hold as well, in 25.7 million states that
take too long for a run that is repeated. An update stops when it succeeded, or failed
and is not resumed.

Fairness (`executor`). A dead process is restarted (the service manager
does), a dispatched effect takes place or is lost, and a call in progress is
resumed by the event loop however busy the other call keeps it, hence strong
fairness for a call. Callers keep calling, as `poll()` and its users do. The
remaining two assumptions are about the environment: a policy that is asked for
ever grants, and an effect that took place is observed in the end.

`channel`: timers fire; the loop of `run()` dials again; a close made by the
Worker reaches the connector; and of the handshakes the connector keeps sending
not all are lost (strong fairness of `ConnectOracle`). Nothing is assumed about
answers: a call ends by its timeout if by nothing else. `tasks`: the event
loop resumes `execute()` and the writes, a child ends or is stopped at its timeout, the
agent is started again, and somebody lists the tasks, since only a read refreshes them.
`browser_slots`: the event loop resumes every operation that can go on, and every
task that was started ends (weak fairness of `Proceeds`); nothing is assumed about
aborts and timeouts. `campaign`: a live process goes on and its supervisor wakes
while its status lets it (`serve` waits for the campaign that is due), until it
retires, and a heartbeat that was started ends, since the end of `run` awaits it.
Nothing is assumed about git, about time, about deaths or about budgets being
large; `InFlightIsReconciled` therefore ends in "reconciled, or nobody is left who
attends". It says nothing of a supervisor that gives up before the lease of a dead
owner has run out (four refusals within 35 seconds, against 90): the campaign then
waits for somebody's attention. `update` claims no liveness:
a confirm that meets a `run()` which is just leaving starts nothing, and the
update then waits for the next restart.

## 4. What is proved

The first half of `ReleaseExecutorProofs` proves, for every blueprint that satisfies the named
assumptions and any number of steps, gates, keys and attempts, all properties of
the `ledger` run, that the ledger is well typed, that steps and attempts agree,
that every visible change advances `last_seq`, and that no two steps share an
idempotency key. The assumptions: `BlueprintValid` (what
`validateWorkflowBlueprint` enforces), `ConstantTypes` (sets and functions are
what they are, finitely many steps), `GateMeasuredOnce` (no two steps measure
one gate: the validator does not demand it, the blueprint has it).

The argument. Every operation either begins one attempt, decides one gate, or
moves the latest attempt of some steps from one status to another
(`StepShape`). Only five such moves are legal, and none leaves a conclusive
status. The inductive invariant `IInv` is the conjunction of the state
properties, strengthened in two places. `RetryOnlyAfterProof` counts proofs, so
`RetryInv` also counts an attempt that is proven not applied but not yet retried.
`PassedGateIsMeasured` needs that a decided gate keeps the succeeded measurement
it was decided on (`DecidedGateIsMeasured`), or a reconciliation of the
measuring step could reopen it. With `IInv`, `ConclusionsAreFinal` and
`ChangesAdvanceSeq` follow step by step.

Its second half proves the safety properties of the `executor` run for
every blueprint, any callers and any number of crashes: an external effect
happens at most once, a step succeeds only if its effect took place, and one
operation is open at a time. It also proves that the executor implements the
ledger's specification (`ExecutorUsesLedger`), so that all of the above holds of
it. Assumed are `ExecutorKeys` (the idempotency keys the executor derives are one
per step and gate) and `ExecutorConstants` (the ordinals order the steps, without
repetition); and, in the actions themselves, that capabilities observe truthfully.
`ExecInv` adds to the ledger's `IInv` that steps are begun in order, each after
the earlier ones were concluded (`StepsInOrder`); that of the dispatches of a step
one at most still stands, and none while the step is pending (`EffectsAgree`); and
what a call may rely on when its await resumes (`CallKnows`): that its step is in
progress and not dispatched yet while it executes, and, for an observation, that
either the step is still ambiguous or its reconciliation key is spent. The last is
the crux: "not applied" is stale as soon as somebody retries the step, and only
the spent key then keeps a late call from recording it.

Taken together they say what a release is (`ReleaseHappensOnce`): when the run has
succeeded, the effect of every step of an external capability took place exactly
once, and no dispatch is still under way. "At most once" alone would allow none, and
`SucceededEffectsHappened` alone would allow a second one still to come.

`ReleaseHostProofs` proves that a call enters the executor on exactly the run its
policy saw, and that through the host only ambiguous operations are reconciled;
`HostInv` says that one call is in progress, that the `last_seq` a call waits with
is not ahead of the ledger's and, while equal, stands for the same visible run.
The executor's invariant is kept by the other writer too, so its conclusions hold
behind the host (`HostEffects`, `HostReleasesOnce`). The host, the awaits of its policy
and the other writer included, also implements the ledger's specification
(`HostUsesLedger`), so the ledger's theorems hold of what clients reach
(`HostKeepsLedger`).

About the blueprint of beta 80 it proves the two properties of the `host` run that
depend on it, under `IsBeta80`, which says that the constants have the values
`MCBeta80.cfg` gives them; callers, passes and crashes stay arbitrary.
`PromotionsInOrderHolds` follows the dependencies backwards: what was dispatched was
begun (`EffectsAreBegun`), and a step is begun only when those it depends on have
succeeded, which the executor's theorem turns into effects that took place.
`NoGateStrandedHolds` is the instance of a general fact: where every measuring
capability returns the evidence kinds its gate requires (`EvidenceCovers`), a gate
whose measurement succeeded has a call about to decide it (`GateInv`), until the
first crash between the two transactions. That the binding files do return what the
blueprint requires is a lemma (`BlueprintEvidence`).

`OracleChannelProofs` proves, for any number of calls and sockets and any limit,
that one connection is open at most, that calls wait on an open connection
exactly while they are registered, and that reads belong to the active one; and,
for every wait, that the connector's read deadline lies before the Worker's
timeout. `SocketInv` is the conjunction of the three with `TypeOK` and is
inductive as it stands; `ChannelAssumption` is all that is assumed. It also proves
`ResponsesAreExpected`, about the frames under way, which needs more (`FrameInv`):
what one end of a half-open connection may still hold (`EndsAgree`), that the id of a
call is in a request, in a read or in a response, in one of them and once
(`OnePlace`), and that whatever of a call is under way on the open connection is
awaited there or its call timed out (`Expected`).

`BackgroundTasksProofs` proves, for any number of tasks, commands, exits and failing
writes (`TasksAssumption`, `RecordAssumption`), all safety properties of the `tasks`
run. `TasksInv` relates the places a task leaves traces in. A write under way is
one whose caller waits for it, or `onPid`'s, and at most two are chained, the first
a cancel (`Chained`, `Legal`); a task that is being started has left no trace
(`StartsAfresh`); the child, the execution, the file and the record say compatible
things (`Agree`), where only a cancelled task may have a record that is not active while
it is executed; the file is ahead of memory by the write that has landed, and otherwise
equal to it or gone (`FileAgrees`); and a command is claimed once, from the start's first
await on (`ClaimedOnce`). `FileAgrees` needs to know that a victim which passed the check
of `pruneTerminalRecords` is not written any more (`EndedIsQuiet`), which holds because
nothing writes a task that has ended, unless it was cancelled. The action property follows
from the invariant step by step.

`BrowserQueueProofs` proves, for any finite set of requests, any keys, tabs and
limits (`BrowserAssumption`), all the safety properties of `browser` and
`browser_slots`, that slots are counted, and typing. `QueueInv` adds to them what
they rest on: the list of waiters holds operations that wait, each once (`WaitersWait`); of two operations queued
for a tab one is behind the other, and one that has the turn is behind settled
ones only (`TurnsAreOrdered`, from which `OneOperationPerTab` follows); the entry
of a key stands for whatever is queued under it and only settled entries expire
(`EntriesStand`); what ran under a key is counted by the forgotten entries and the
present one (`RunsAreRemembered`, because `CarriedOutOnce` alone does not say that
the present entry has not run yet); and who waits joined an operation of its own
key and fingerprint (`AnswersMatch`). All steps but the handling of a request only
move operations forward (`QueueOnly`), which most of the cases use.

`CampaignProofs` proves, for any runners and processes (`LeaseAssumption`), that one
task runs at a time, that a lock leaves its owner only when the owner removes it or
is dead, and that the lease implements `ExclusiveRun`. These theorems have a
hypothesis, `[]RecoversWhatItRead`: they are about the behaviours in which a
recoverer removes the file it read, and the code has others (section 6). The
hypothesis holds by itself of any two runners (`TwoRecoverWhatTheyRead`), which
therefore exclude each other unconditionally (`OneOfTwoRuns`): the owner that was
read is dead and the recoverer has no file of its own in place, so only a third
could have created one. `LeaseInv` says who may have the file and the guard: whoever holds or writes the
lock is the owner of the file in place (`HoldersHaveLock`), one recoverer at a
time is inside the guard and the owner it has read, when it is about to remove the
file, is a dead one (`RecoveryIsGuarded`), and only runners of live processes are
anywhere (`DeadAreGone`). The hypothesis is used at one step, the removal.

It proves, for any tasks, dependencies, resources and supervisors, and under the same
hypothesis,
that a campaign takes only steps of its lease (`CampaignKeepsLease`), so that the
lease's theorems hold of it, and that it implements `CampaignPromise`
(`CampaignKeepsPromise`). The promise does not follow from the states of the
ledger alone: `CampaignInv` adds that a task which was never claimed was never
dispatched, that a completed receipt is that of a commit (`TasksAgree`), and what
the coordinator at work may rely on at each point of its pass (`Knows`): before
the dispatch, that its task is in flight, was not dispatched and has its
dependencies completed; after a proof, that git committed. It may rely on it
because no other coordinator is inside the lock, which is where `LeaseInv` enters.
`Backend` is then the abstract `Ask`, the end of git `Happen`, `Apply` is `Settle`
and everything else stutters.

`CommitsFollowPlanHolds` is a consequence of the promise alone: a commit in the
repository was made by one call of git, the tasks it depends on are completed and the
commits among them are in the repository, and a commit recorded as completed is there.
Its invariant `PlanInv` adds that whatever was asked for has its dependencies completed.

`OneEffectPerResource` rests on one more invariant (`EffectInv`): while git works for a
task, the record has the task in flight or uncertain (`RunningIsOpen`), which is what
keeps `claimNext` from its resource, and a coordinator between its claim and its
dispatch has the resource to itself (`CommitsAlone`).

`McpUpdateProofs` proves the three properties of the `update` run for every number of
crashes, failed handovers, resumes and messages in transit, every set of machines that
ask for confirmations and every initial world; it assumes nothing. The inductive invariant
`UpdateInv` was checked with TLC on the instance of the run before it was proved. It
has these layers, each resting on those before it:

1. `InstallTypes`, `WorldTypes` and `DriverInv`: a `run()` is under way only while its
   record is running, and what it holds in memory is what is on disk, but for what the
   current step has learnt.
2. `InstallInv`: if a prepare or a promote was ever requested, the record says so and
   the update has not gone back before it; and no confirmation that is still valid is
   left with which the call would be repeated. `AttemptInv` bounds what the companion
   has heard of resumes, as the retries of a prepare are counted by them.
3. `RunInv` and `FollowInv`: of each workflow the run on record is the last one, and
   those before it are over. The record in memory may miss the run that was just saved
   (`workflow()` saves a copy), but only while that run is followed or when it has failed;
   and an update that stopped with a failed workflow stands at the step of that workflow,
   so that `resume` forgets the right run.
4. `HandoverInv`: a handover was asked for, and the node's release is not active before
   its handover commits, so that a handover that was withdrawn has taken nothing back.
5. `ProgressInv`: an update past a step, or whose step has just returned, has what the
   step is for, or a handover that brought it about was undone (`Switched`, `Served`);
   and every answer of the companion that is stored or under way and says "succeeded" is
   true in that sense.

`McpInstallProofs` shows that every step keeps layer 1 (`NextCalm`) and the part of
layer 2 about prepares and promotes (`NextInstall`), `McpUpdateProofs` the rest.

An update that succeeded is past every step, so layer 5 gives `SucceededIsInstalled`;
layers 2 and 3 give the others. That layer 5 lasts (`NextActive`) needs layer 2: a second
promote would start a handover over one that was undone. Most steps change none of this: they are shown once to
leave their machine's record as it was but for notes of the step (`Plain`, `Ordinary`,
`Calm`), and the invariants are shown to survive any such step. What is left are the
steps that save (calls of the agent, `Advance`, the catch of `run`, the companion's
`handle` and the end of its phases) and those that follow a workflow, each with a lemma
of its own.

Most leaves name Zenon, which decides them faster than the translation for the SMT
solver takes; those without a pragma need arithmetic, functions or records.

Only model-checked: liveness (`EndsOrStuck`, `CallsAreAnswered`, `HalfOpenIsReplaced`,
`TasksEnd`, `OperationsSettle`, `InFlightIsReconciled`), which is out of the prover's
reach. Every other property that a passing run checks is proved.

## 5. Not modelled, and why

* Edge session (`mcp-session.ts`), its connector and the companion, beyond the
  relay of updates: registration, catalog rollout, tool calls across hibernation.
  They are large request routers around sockets whose state lives in the
  platform (attachments, alarms, storage); a faithful model has to start from
  the platform's rules for hibernation and output gates, which are not under
  `src/`.
* The rest of the orchestrator: prune batches, the long poll of the read API, the
  control, source and workflow scopes of the channel.
* The updater script of a prepare (`TaskEnds` is what the code sees of it), release
  pruning, and what the handover scripts do besides the state file, the process and the
  contract: verification, mutexes, the transient connectors of the broker, its offline
  branch for an owner outside the service, and the operator's own rollback.
* Claims of a workspace between campaigns, enrollment and the campaign process
  host; a second campaign over the same repository.
* Background tasks: several owners, stdin, reuse of pids (a reused pid makes a
  dead task look alive, in `RunLease` it makes the takeover refuse).
* Overlapping calls of the agent to one update: `start`, `confirm` and `resume`
  check the record and save it after further awaits, so two at once may overwrite
  each other. The hazard is listed; nothing in the repository says that they may
  overlap.
* Owner authentication: it rests on cryptography and on the storage of a Durable
  Object.
* Operation registry, browser routing, worker pool, session and task registries:
  maps of live objects whose races are those of the transport or of the browser.
* Workspace services, browser drivers, schemas and the generated manifest: I/O or
  data without a protocol.
* Deployment scripts, smoke tests, benchmarks and release tooling.

The modules cover a small share of the repository's lines. The generated manifest,
the scripts and the services named above are most of the rest; the gateway, the
Edge session and the browser's registries are the parts with a protocol of their
own that are left.

Out of the prover's reach are liveness, `ENABLED`, and everything about recursive
definitions over data.

## 6. Where code, comments and tests disagree

`release-workflow-executor.ts:113` stores every reconciliation of a step under
one key. When a reconciliation proved non-application, the step was retried and
the retry is ambiguous again, `reconcileOperation` refuses each later conclusive
observation as a key conflict, and the run stays paused. The comment in
`release-source-control-read-capabilities.ts:86-87` promises that the operation is
reconciled "until checks become terminal". The run `executor_recheck` shows the
sequence. The reuse of the key also has a good side: it is what keeps a late
answer about the first attempt from being taken for one about the second
(`EffectsHappenOnce` fails without it).

`background-task-manager.ts:437`: `onPid` persists the copy of the record that
`execute()` has held since the start, whose state is "running". When a cancel was
persisted between that start and the spawn, its record is overwritten: the
cancelled task is active again, the aborted child ends it as failed, and
`onTaskFinished` is called. The test
`test/unit/tasks/background-task-manager.test.ts:514` is named "cancels an active
task and keeps cancelled as its terminal state"; the comment at
`background-task-manager.ts:71` says that `onTaskFinished` is not called for a
cancelled task. The run `tasks_cancel` shows the sequence, and
`OneActivePerCommand` is stated with the exception that follows from it. So is
`FileMatchesMemory`: a cancelled task may be chosen and checked by
`pruneTerminalRecords` (`:649`) before `onPid` writes it, and the four removals that
follow are awaited (`:656-659`). A write that lands after the last of them leaves a file
of a running task whose record is then deleted; the next start of the agent finds it.
Without its exception TLC finds `FileMatchesMemory` violated in this way.

`campaign-run-lease.ts:130`: `tryRecover` reads the lease, then probes the process
it names, and then removes whatever file is in place. An owner whose lease has run
out may still be alive. If it ends its task, removes its file and exits, and
another runner creates the file, all between the read and the probe, the probe
finds the old owner gone and the new runner's lock is removed while it runs. The
comment of the class says "A takeover requires the exact owner process to have
exited on this host" (`:54`) and "No lock is reclaimed on TTL alone" (`:56`). The
run `lease_probe` shows the sequence. It goes on to break `OneRunAtATime` as well:
the recoverer creates its own lock file and enters while the new runner is still at
its task. Three runners are needed for it, and the window is the time between the read
of a small file and the check after it; the proofs name its absence as a hypothesis.

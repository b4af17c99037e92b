# A verification development for OpenClaw's gateway

OpenClaw is a personal-assistant gateway: one Node.js process that receives
messages from chat channels, runs agent turns on them and sends the answers
back. This directory holds TLA+ models of the parts of that process whose
correctness depends on order, failure and interleaving, TLC configurations that
check them on small instances, and theorems about them that TLAPS checks for
every instance. The code is under `src/src/` of the repository; paths below are
relative to it.

`PROJECT.json` is the index: the components, the runs, the mapping from every
definition to the lines it stands for, the hazards, the mutants (a plausible bug
for every property, kept as an operator next to the definition it changes), the
findings and the theorems.

## 1. Inventory

The process has one JavaScript thread. Functions run to completion between
`await`s, so a model's action is one stretch of code between two awaits, and the
interleavings are those of promise continuations, timers, signals and file
operations.

| Part | State | Operations | What is hard | What makes it correct |
|---|---|---|---|---|
| **Command queue** `process/command-queue.ts` | lanes: FIFO queue, active ids, cap, generation; a draining flag | enqueue, completion, cap change, clear, mark draining, reset, wait for active tasks | late completions after a reset, lowering the cap under load, waiting on a snapshot | cap, FIFO, no idle slot, every entry settles once and eventually |
| **Agent runs on lanes** `agents/pi-embedded-runner/{run,compact,lanes}.ts`, `agents/lanes.ts`, `gateway/server-lanes.ts` | two nested entries per run, a third for a manual cron run | submit, enter the global lane, end, return | exclusion by nesting two queues, waiting cycles between lanes, clears between the levels | one turn per session, in order; no deadlock |
| **Gateway run loop** `cli/gateway-cli/run-loop.ts`, `process/restart-recovery.ts` | server, lock, `shuttingDown`, the promise the loop awaits | start, signals, drain, close, respawn, restart in process | signals at any await, a drain that times out, closes that hang, starts that fail | nothing runs when a drain is reported, the lock is handed over, a restart ends in a working gateway |
| **Follow-up queue** `auto-reply/reply/queue/*`, `utils/queue-helpers.ts` | a map from session key to queue object; items, dropped count, mode, cap; a drain per object; recent message ids | enqueue, drain loop, turns, clear, finalize | items are removed after an awaited turn; a drain outlives a clear; eviction during a turn; redelivery | nothing accepted is lost, asked twice or reordered; everything is answered |
| **Outbound delivery queue** `infra/outbound/{deliver,delivery-queue-*}.ts` | one file per delivery, markers, `failed/` | persist, send, acknowledge in two phases, fail, recover | crashes between any two steps, recovery beside live senders, partial failures | write-ahead: what was persisted is delivered or still on disk |
| **Cron service** `cron/service/*`, `cron/schedule.ts` | jobs with run state, a timer, a store file, a lock chain | start, catch-up, timer tick, manual run, add, update, remove, reads | edits during a run, missed ticks, a check and a claim in two sections, crashes with jobs marked, reloads beside running jobs | a due job runs, once, and not beside itself; no slot is skipped |
| **Heartbeat wake** `infra/heartbeat-wake.ts` | pending wakes, one timer, a running flag, handler generation | request, timer, set and dispose handler | coalescing against retry cool-down, handler replacement, failure within a batch | a requested wake is delivered, with its strength; one batch at a time |
| **Node registry** `gateway/node-registry.ts` | nodes by id and by connection, pending invokes | register, unregister, invoke, result, timeout | reconnect before the old socket closes, late results | an invoke settles once; a connected node is registered |
| **Exec approvals** `gateway/exec-approval-manager.ts`, `gateway/node-invoke-system-run-approval.ts` | pending records with timers | register, resolve, expire, consume | decision against timeout, grace window, two runs with one approval | one decision, one run out of an allowance for one |
| **Locks** `agents/session-write-lock.ts`; the same protocol in `plugin-sdk/file-lock.ts`, `infra/gateway-lock.ts` | lock files, held counts | acquire, share, release, reclaim, watchdog, sweep | stale files, pid reuse, two reclaimers, removal by path | mutual exclusion between processes |
| **Subagent registry** `agents/subagent-registry*.ts` | runs, announcement state, a file | spawn, complete, announce, retry, sweep, restore | announcement retries against restart and cleanup | a completion is announced once |
| **Active run registry** `agents/pi-embedded-runner/runs.ts` | handles of active runs | set, clear, abort, wait | a handle replaced by the next run | abort reaches the run it was meant for |
| **ACP control plane** `acp/control-plane/*` | sessions, actor queues, a runtime cache | open, prompt, cancel, close | cancel against a queued prompt, idle eviction | operations of a session do not overlap |
| **Channels** `gateway/server-channels.ts`, `channel-health-monitor.ts` | account tasks, restart attempts | start, stop, restart with backoff | stop during a start, restart storms | at most one task per account |
| **Supervised processes** `process/supervisor/*`, `agents/bash-process-registry.ts` | child processes, timers | spawn, kill, exit | exit against timeout | one exit record |
| **Failover and auth profiles** `agents/model-fallback.ts`, `agents/auth-profiles/*` | cool-down windows | choose, mark failure | clock windows | a profile in cool-down is not chosen |
| **Pairing** `infra/*-pairing.ts`, `pairing/*` | request and approval files | request, approve, revoke | concurrent file updates | no approval is lost |
| **Block replies** `auto-reply/reply/block-reply-*.ts`, `reply-dispatcher.ts` | buffers, a send chain | enqueue, flush, abort | flush against timeout | blocks arrive in order |
| Configuration, plugins, `extensions/`, native apps, web UI | | | | input, output and presentation: no protocol of their own |

Interactions: a channel message becomes a run (*agent runs on lanes*) or, while
the session is busy, an item of the *follow-up queue*, whose drain submits runs
in turn; both rest on the *command queue*. A session reset clears the follow-up
queue of the session and its lane (`clearSessionQueues`). Cron, heartbeat and
subagents submit runs. `node.invoke` takes an exec approval and a node of the
registry in one synchronous stretch. Answers go through the *outbound delivery queue*. The
*run loop* drains and resets the lanes and starts recovery of deliveries with
every life of the server.

## 2. Modules

```
CommandQueue --- AgentLanes --- GatewayRunLoop      NodeRegistry --- NodeRuns
                     | INSTANCE                     ExecApprovals ------'
                SessionTurns
FollowupQueue   DeliveryQueue   HeartbeatWake   CronService   SessionWriteLock
```

A line is EXTENDS. Every module that a run checks has an `MC...` module with its
instance. The theorems are in the `...Proofs` modules, those about AgentLanes in
GatewayRunLoopProofs.

**CommandQueue.** One action per exported function; the pump each of them ends
with is part of the action (`PumpFrom`), as the longest prefix of the queue that
fits under the cap. `state.draining` is TRUE only inside a pump and is no
variable. Task ids are never reused, so an entry stands for its id. The running
task is arbitrary code: `Complete` is enabled as soon as the entry runs.

**AgentLanes** composes the runs over the queue. A run's session entry queues
its global entry synchronously, inside the pump that starts it; the two halves
of that handler are two actions (`Submit` ... `EnterGlobalLane`), and `Quiet`
disables everything else between them, so no one observes the state in between.
`Restart` takes the steps of a restart in any order. `AgentSpec` allows it and is
what the theorems are about; the run loop, which fixes the order, implements it.
A cron job leaves its lane when the run it dispatched is over (`CronReturns`), or
before that, when it is skipped or runs into its timeout (`CronReturnsEarly`).

**SessionTurns** is what the lanes promise a session: a line of runs, of which
only the head executes, once. `AgentLanes` implements it under the mapping
`LineOf` (property `ServesSessionsInTurn`).

**GatewayRunLoop** extends AgentLanes with the loop, the signals and the closure
of `request()`. The closure is split at its awaits: `marked` (between
`markGatewayDraining` and the snapshot, one synchronous stretch), `draining`,
`closing`, `respawning`, `relocking`. `loop = "awaiting"` stands for a
`restartResolver` that resolves the promise the loop awaits; a restart signal
may come at any time, and `early` records that one came while the loop awaited
no promise. Active embedded run handles can only delay the drain or make it time
out, so `DrainEnds` may report a timeout although the tasks are gone. Whether a
new process is spawned is nondeterministic (`ProcessEnds` or `RestartInProcess`).

**FollowupQueue** models one session key. Queue objects have identities, because
a drain keeps its object across awaits while the map entry is deleted or
replaced; `current` is the map entry. A turn (`turn[q]`) records what the agent
was shown (`prompt`), which dropped messages it reported (`report`) and how many
items will be removed when it returns (`take`), which is what the code keeps
across the await. `fate` is history. The run that made the session busy is
`main`; between its end and its finalisation messages may still be enqueued.
The summary is abstracted to the set of messages `droppedCount` counts (the
bullet lines, at most `cap`, are wording), the debounce to one await, and the
recent-id window to one that does not end.

**DeliveryQueue** has one worker per delivery and one per recovery, all running
the same core. Every file operation and every send is a step; a failing send may
or may not have reached the recipient; a failing file operation leaves the file
as it was. `Crash` keeps the files only. Nothing awaits or cancels a recovery
(`server.impl.ts:1132`): `RestartInProcess` starts a further one while live
senders, and a recovery that is not through its list, go on. `copies` and
`aborted` are history; `shared` holds the entries that a recovery found in the
hands of another worker: its sender, or a recovery that works on it or has it in
its list. Plugin
hooks that cancel a payload and the migration of entries without
`lastAttemptAt` are left out; the order in which recovery visits entries is left
open.

**HeartbeatWake.** `requestHeartbeatNow` files a wake and arms the timer in one
step (`Request`); the timer callback runs to its first await in one step
(`Fire...`), and so does each answer of the handler, with the `finally` block of
the last one (`Answered`, `Busy`, `Throws`). A callback is a slot of `batch`, so
that callbacks of a replaced handler go on beside those of the new one. A timer
holds the time it has left; it may fire late. `handlerGeneration` is the number
of the handler. A wake is its priority: its reason is passed on unread.

**NodeRegistry** and **ExecApprovals** are the two classes, one action per method
and timer. A connection is registered once, and a node may register a second one
before the first is seen to close. A record of an approval keeps its decision
after it has left the map, since the callers hold on to it; `clock` is the time
against `expiresAtMs` (`TimerExpires` may come later), and `promise` is what all who wait
are told. **NodeRuns** is `node.invoke` of `system.run` over both: lookup,
check of the record, consumption and the request on the socket are one stretch
without an await (`Forward`); waiting for a node to be woken is an await of its
own (`Wake`, `WakeEnds`).

**CronService.** Whatever reads and writes the store runs in `locked()`, one
section at a time: each section is an action. The tick is five of them
(`TimerCollects`, `Begins`, `Ends`, `TickApplies`, `TickEnds`), a start four
(`ClearMarks`, `Plan`, `CatchupApplies`, `Started`), a manual run three
(`Preflight`, `Prepares`, `Finishes`). `run` holds, for each of the tick, the
catch-up and the manual runs, the executions it has claimed and their results
until they are applied. `attached` says whether the jobs the tick holds are still the
objects of the store, which a forced reload replaces. Next runs are computed as the code
does (`ComputeNext`, `Recomputed`, `Maintained`, `Applied`), with time as an
integer; a cron expression is every multiple of `Period`. A service comes to its
end in two ways. `Crash` is the end of the process. `Reload` is a reload of the
configuration (`server-reload-handlers.ts:79`) or an in-process restart: `stop`
clears the timer only, and a new service starts at once beside what the old one
has begun. The module then follows the new one, with the store as it finds it;
of the old one there is what it writes (`Elsewhere`: any job may become any record of
`Foreign`, at any time), as long as `overlap` says that it may be at work. It may
apply results, arm its stopped timer again, collect, and save a copy of the store
that has grown old. `unmarked` and `overlap` are history.

**SessionWriteLock.** A lock file has a number, so that a removal by path can
hit another file than the one that was read. Each await of
`acquireSessionWriteLock`, `releaseHeldLock`, the watchdog and the startup sweep
is an action. `Crash` leaves the file of a dead process, `Exit` removes it.
`Signalled` is a termination signal to a process that listens to it itself, as
the gateway does: `handleTerminationSignal` removes the files and does not end
the process, whose turns write on while the gateway drains and closes.
`stolen` records that the file of a live lock was removed.

## 3. Runs

| Run | Instance | Shows |
|---|---|---|
| `lanes` | 2 lanes, 4 entries, caps to 2, a reset | accounts, no idle slot, true drains, FIFO, settling once |
| `sessions` | 2 user runs and a manual cron run of one session, no restart, fair | exclusion; refinement of SessionTurns; no waiting cycle |
| `run_loop` | 2 runs of a session, 2 restart signals at any time, stops, fair | true drains, the lock, one run per session and life; the drain window closes, work survives, resets come between servers |
| `followups` | 3 messages, 2 routes, drop policy `new`, fair | nothing lost, order, everything answered, draining ends |
| `followups_clears` | evicting policies, one clear, 2 objects | not asked twice; the ways in which a message is lost |
| `deliveries` | 2 deliveries, one of best effort, 2 recoveries, a crash or an in-process restart | write-ahead, final acknowledgement, retry limit |
| `heartbeat` | 2 targets, 2 priorities, 2 handlers, fair | timers, no wake lost or weakened, one batch, cool-down, delivery |
| `nodes` | 1 node with 2 connections, 2 runs with 1 approval registered twice, fair | consistent maps, reachability, one run per approval, decisions kept, replies |
| `cron` | a recurring job and a one-shot, 1 manual run, 2 calls, crashes or reloads in all | exclusion within a service, no stuck mark, a live timer, no slot skipped, one-shots once |
| `session_lock` | 2 tasks in a process, 1 in another, 3 locks, a crash, a signal, an old file, a watchdog, a sweep | one writer until a live lock is removed, and by whom |
| `cron_catchup` | a recurring job and a one-shot, no calls | expected to fail: section 6 |
| `session_two_writers` | as `session_lock`, a crash only | expected to fail: section 6 |

**Bounds.** `MaxConcurrent` (2) lets a lane run more than one entry and be
lowered below its load; `MaxGeneration` (resets) and `MaxRestarts` let a task
outlive one reset and complete after it; three runs of one session are the
least for overtaking behind a running one. Three messages of two routes give a batch,
a mixed batch and an eviction during a turn; two queue objects are needed for a
drain that outlives a clear, and a third cannot be alive with one clear. One
start of the delivery queue after the first lets a sender and two recoveries
meet, in one process or on both sides of a crash; a third recovery would be one
more worker like the second. `MAX_RETRIES` is 2 (5 in the code, which only shifts
the limit). Two targets
give a batch whose first wake fails before the second is asked for, and two
handlers a batch that outlives its handler. Two connections are a reconnect
before the old one closes; two runs of one approval are a replay. In `cron` the
clock (3) reaches a job's slot, its retry and the slot after; `MaxCalls` (2)
counts calls and restarts together: an edit in the middle of a manual run, a
crash or a reload in one, a restart of a restarted service; one job of two is
deferred by the catch-up (`MaxMissed` 1). What a replaced service writes
(`MCForeign`) is a recurring job that executes or a one-shot that is due: a mark
and a due time that the service in place has no hand in. Three locks are the
dead process's, the one that is removed under its holder, and the one made
beside it; one signal (`MaxSignals`) is enough to remove a live one. Symmetry is
used in safety runs only, over elements that no definition tells apart.

**Deadlock** is not checked where the system comes to rest by design: every run
and message has been handled, or the process has exited.

**Fairness.** Turns end (runs carry timeouts, `LaneFairness`); promise
continuations run; `start` and `close` return, throw or are cut off by the
force-exit timer (`GatewayFairness`); debounce timers fire, the ordinary run ends
and finalizes (its `catch` finalizes as well), and a follow-up turn that is
retried again and again returns at last (strong fairness of `TurnReturns`: agent
errors are reported without throwing). Time passes, wake timers fire and the
handler in place answers (`HeartbeatWake`); approvals, invokes and the wait for
a node have timers (`NodeRuns`). Signals, messages, clears, requests, results of
nodes, decisions and submissions are never owed.

## 4. Proofs

All theorems hold for every value of the constants that satisfies the named
assumptions of the modules (lanes and entries of any number, any cap and number
of resets; sessions with lanes of their own; any deliveries, payloads and
crashes; any targets and delays; any nodes, connections, calls and approvals; any
jobs, schedules and manual runs; any processes and tasks; any messages, routes,
queue settings and clears). One has a hypothesis of its own, `FollowupNoneLost`.
Every inductive invariant was model-checked before it was proved.

*CommandQueueProofs.* The inductive invariant joins the types, `LaneAccounting`,
`NoIdleSlot` and `DrainedIsTrue`. Accounting is needed for all others: that a
started entry has no slot yet makes the cardinalities of the pump exact. The
pump is treated once, by lemmas on `Slots`, `Started` and `Remaining`, and every
handler cites them. `CapRespected` and `SettledIsFinal` are step properties that follow
from it. So does `NoOvertaking`: a handler lets the queue of a lane grow at its
end and shrink at its head (`Suffix`), and what has left the head is no longer
waiting (`FifoStepHolds`).

*GatewayRunLoopProofs*, AgentLanes. `AgentUsesTheQueue`: each action is a queue
step, so the queue's invariant is available. On top of it `NestedInSession` and
`OneTurnPerLifecycle` are inductive; exclusion without restarts follows, since
without a reset all generations are equal. `LanesServeInTurn` is the refinement
of SessionTurns: the line of a session is the run that holds its lane, then the
runs of the lane's queue (`SessionLine`). What arriving, leaving, and being
cleared do to a line is a lemma on sequences each (`LineGrows`, `LineMovesUp`,
`LineKeepsHead`); a step of the lanes changes the line of one session as one
step of SessionTurns does and leaves the others as they are (`LaneStepServes`).

*GatewayRunLoopProofs*, GatewayRunLoop. `GatewayImplementsAgentLanes` carries the
theorems of AgentLanes to the whole gateway, the refinement excepted, which holds
without restarts only. `DrainLeavesNoRun` needs to know that the lanes refuse
entries from the snapshot on, so that no run starts whose session entry was not
waited for. `LockHandedOver` needs to know which steps of the closure hold the
lock, and `ResetBetweenServers` that a server that is up while the loop is about
to resume is one whose start a signal interrupted (`EarlyKnown`).

*FollowupQueueProofs.* The invariant says where a message can be (`Held`): a
queued one has one place in one object, what was counted as dropped has left,
and what is left of the prompt of a turn in flight is the head of the queue it
was taken from. `NeverAskedAgain` and `InOrder` follow from it step by step, and
so does `LostOnlyBy`, for a turn whose prompt is still whole takes nothing else
(`TakesPrompt`). `FollowupNoneLost` is for `Undisturbed` queues: a message that
finds the queue full is turned away, and the session is not cleared. There the
drain never loses its key and the prompt stays whole (`QuietInv`), so of the
three ways none is left. Without that hypothesis the code does lose messages
(section 6). `InOrder` is proved for all settings and clears; the run checks it
for those of `followups` only.

*DeliveryQueueProofs.* `NotLost` is not inductive: the file does not show that an
acknowledged delivery is complete, its worker knows. The invariant adds that the
payloads a worker has passed have been received (`PassedReached`), that a worker
about to acknowledge has passed all of them or was aborted (`AcksComplete`), and
that a sender starts with the first (`IdleStartsFirst`). Three lemmas say what a
step can do (`SendingBefore`, `AckingBefore`, `EntryLeaves`), the rest is logic.
`AckedIsFinal` and `GivesUp` rest on who works on an entry (`OwnerInv`), for any
number of recoveries at once: a delivery has one sender, each recovery takes
entries of its own scan only, once each, no two workers have one entry, what a
recovery has read is what the file says, and an entry that a worker sends still
has its file, all of it unless a recovery found the entry in the hands of another
worker (`shared`). That such entries are left out is not caution: section 6 says
what two workers do to one entry.

*HeartbeatWakeProofs.* `WakeArmed` and `WakeKept` are inductive with the types.
`OneBatch` needs that `running` is set while a batch of the handler in place is
open, and that a new handler has a number no batch has; `CooldownKept` needs that
the timer of the cool-down is the one armed, with no less time left than the
cool-down has.

*NodeRunsProofs.* For the registry the missing fact is that a call waits under
the node its connection belongs to: a close rejects the calls of a node, not
those of a connection. For the approvals it is that the record, the promise and
who resolved it agree (`RecordAgrees`), and that an allowance that was used is
gone from the record (`Spent`). `ToldOnce` is stated and proved, and not checked
by a run.

*SessionWriteLockProofs.* The count of the holders must be exact (`Counted`, a
cardinality), or the lock would be released under one of them; numbers never come
back (`Numbered`), so a file that was judged stale is nobody's lock
(`DecidedStale`); all locks in force are in one process (`OneProcess`).

*CronServiceProofs.* Every change of the jobs is one of a few (`JobsChange`), and
what maintenance, a result and an edit do to a record is a lemma each;
`NoSlotSkipped` and `OneShotOnce` follow from them and the types. For `Exclusion`
and `MarkClaimed` the invariant is that a claimed job is marked and has one
claimant unless its mark was cleared (`Claims`), that a tick lasts as long as its
batch and that a process that is down holds nothing (`Asleep`); every step of a
process that is up is shown to be `Steady` for each job, and only that is used.
What another service writes (`Elsewhere`, any set `Foreign` of records) touches
no claim (`ElsewhereClaims`): it can only unmark a job, or mark one that this
service has not claimed. `MarkClaimed`, `SchedulerAlive` and what they rest on
are therefore stated while no former service is at work (`~overlap`), the rest for
every state.
`SchedulerAlive` is not inductive: a maintenance could bring a next run back with
no timer armed. It cannot, as a stored, enabled job without one is, from the end
of the start on, a one-shot that has succeeded (`NextKnown`).

Only model-checked are the liveness properties, `RunSettles`,
`DrainWindowCloses`, `AcceptedRunSettles`, `Answered`, `DrainsRest`,
`WakeDelivered` and `RunReplied`: they need fairness and ENABLED, which are out
of the reach of the proof system. Every other property of a passing run is
proved. `CapRespected`, `NestedInSession`, `ToldOnce` and the type invariants are
proved and not checked by a run of their own; of CronService the types are proved
without the bounds of a run (`Shaped`).

## 5. Not modelled

The parts listed as `not_modelled` in `PROJECT.json`, and inside the modelled
ones: the content of turns, prompts and messages, logging and callbacks without
effect on control, `params.enqueue` overrides of a run, the handles of active
runs (a nondeterministic count), steering of an active run, channel adapters.

Of the cron service: patches other than of schedule and `enabled`, a store that
cannot be written, schedules that cannot be computed, the two hours after which
a mark counts as stuck, failure alerts, and the turn that an execution that timed
out leaves behind. A service that was replaced is not followed step by step: what
it executes, and when it is done, is not in the state, so nothing is claimed of
the two services together, and the set `Foreign` of a run stands for what it may
write. The jobs in memory and the file are one variable. A second process on the
same store is not modelled.

Of approvals: finding an id by its prefix, and what operators
are shown. Of nodes: `sendEvent`, and actions queued for a node that is offline.
Of the session lock: platforms without the start time of a process, on which a
task of the same process may take another's file for an orphan. Of the runs on
lanes: a cron job that does anything else in its lane after its timeout.

## 6. Findings

Where the code does not do what the repository says of it; each is a
counterexample of the run named.

1. `cron_catchup`: a comment has the catch-up of a start preserve the slots that
   became due while it ran (`timer.ts:988`); the next section of `start`
   recomputes every next run that is past due (`ops.ts:124`).
2. `session_two_writers`: the changelog has session locks be single-writer
   (`CHANGELOG.md:3963`). Two tasks that find the file of a dead process both
   remove it, the second one after the first has made its own
   (`session-write-lock.ts:557`). `gateway-lock.ts` and `file-lock.ts` have the
   same steps.

The models have further behaviours that a reader may not expect; the properties
say where they leave one out. They follow from the actions named.

*Lanes and run loop.*

- After a drain that timed out, `Reset` forgets runs that still execute, and the
  next run of the session executes beside the stale one. `OneTurnPerLifecycle`
  is the part of `docs/concepts/queue.md:20` that holds across a restart.
- A restart signal while the server starts resolves no promise
  (`run-loop.ts:92`): the gateway may refuse work for ever, or start a second
  server while the first is up (`early`).
- After a failed start the lock is released, and no later restart in the process
  acquires it again (`ReleaseAfterFailure`, `RestartInProcess` without `hadLock`).

*Follow-ups.*

- A message is lost when a drain that outlives a clear deletes the queue that
  was created after it (`drain.ts:180`), when the cap evicts items of the turn
  in flight and the drain removes as many as it had read (`drain.ts:138`), and
  outside collect mode when the turn that carries a summary takes the item at
  the head with it (`drain.ts:152`). `LostOnlyBy` says that there is no other way.
- A summary without any item to carry it is never sent while the drain goes
  round (`BeginTurn` with no next turn).

*Deliveries.*

- Recovery reads every entry of the directory, those that live senders of the
  process are sending included (`Load` while a sender is busy), and a crash
  after the last send and before the rename replays the delivery.
- An in-process restart starts a recovery while the last one may still go
  through its list (`server.impl.ts:1132`, `RestartInProcess`). Both send an entry
  they have both read. A failure that one notes writes the file again that the
  other has acknowledged (`FailWrite`), so that it is sent once more at the next
  start; and both write the count they have read plus one, so that an entry may
  be sent more than `MAX_RETRIES` times. `NotLost` holds all the same.
- Recovery acknowledges a best-effort delivery whose payload failed
  (`delivery-queue-recovery.ts:194`, against `deliver.ts:517-520`).

*Heartbeats.*

- The cool-down is no "hard minimum" (`heartbeat-wake.ts:123`) when another timer
  was armed as it began: the retry keeps that one (`early`).
- The `finally` block of a batch of a replaced handler resets `running`, which
  by then belongs to the new one (`late`).

*Nodes and approvals.*

- The old connection of a node that has come back closes late and unregisters
  the new session (`node-registry.ts:87`, `cut`).
- `askFallback` after a timeout reaches only as far as the instant of the expiry:
  a record past it is refused first (`node-invoke-system-run-approval.ts:160`).

*Cron.*

- A reload of the configuration, or an in-process restart, starts a service while
  jobs of the old one execute. Its `start` takes their marks for those of a dead
  process and clears them (`ops.ts:103-110`), so a job that is due again, or is
  run by hand, executes beside itself. The tick of the old one arms the timer of
  a service that was stopped as it ends (`timer.ts:728-729`), and collects jobs
  from then on. `service.prevents-duplicate-timers.test.ts:17` has two services
  on one store not do a job twice when both are idle; the comment at `ops.ts:448`
  has a mark be what keeps others from the job, which holds within a service.
  `Exclusion` claims no more.
- `add` and the end of `start` skip slots of jobs that are past due.
- Disabling a job that runs clears its mark; a forced run of it, or of a job
  that is disabled anyway, can be joined by another (`unmarked`). A job disabled
  or removed while it waits in a batch is executed all the same.
- A one-shot that the start found interrupted is skipped by the catch-up and
  collected by the first tick.
- The catch-up puts deferred jobs off by their `enabled` flag alone, one-shots
  that have succeeded meanwhile included.

*Session lock.*

- A live lock older than `staleMs` is taken away by another process although
  `maxHoldMs` may be longer; a startup sweep takes one whose content is not
  written yet. On SIGTERM and SIGINT the gateway removes the files of all its
  locks (`session-write-lock.ts:237`), and lives on, as it listens to both itself
  (`run-loop.ts:211`): its turns write to their transcripts without a lock until
  it has drained and closed. `StolenOnlyBy` lists the ways.

## 7. Plan

What is left, in this order:

1. **SubagentRegistry**: completion, announcement with retries, restore after a
   restart; a completion is announced, and once.
2. **A gateway of queues**: FollowupQueue over AgentLanes, so that a turn of the
   drain is a run on the session's lane, with clears of both; CronService over
   its lane.
3. **ACP control plane** and **channels**: actor queues with cancellation; one
   task per account through stops and restarts with backoff.
4. Theorems: which of the three ways of `LostOnlyBy` are left without clears, and
   without evictions; the refinement of SessionTurns across restarts, with the
   runs a reset forgot outside the lines; what a batch of CronService may do to
   the jobs it was not given.

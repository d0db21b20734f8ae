# Jarvis: a TLA+ development

This directory models the coordination core of Jarvis (`src/packages/`): Python
processes that share no memory and coordinate through JSON files, exclusive file
creation and SQLite, around an App Server that runs the actual work ("turns").
It holds TLA+ modules translated from that code, TLC configurations that check
them on small instances, and theorems that the TLA+ proof system checks for
every value of the constants.

- [The system](#the-system): its parts, their state and how they interact
- What the modules model, and how: [HoldLifecycle](#holdlifecycle), [ProcessLock](#processlock),
  [Heartbeat](#heartbeat), [Loop](#loop), [Dispatcher](#dispatcher)
- [Runs](#runs), [bounds](#bounds), [fairness](#fairness)
- [Proofs](#proofs)
- [What the runs found](#what-the-runs-found)
- [What is not modelled](#what-is-not-modelled)
- [Plan](#plan)

To check a run, `tlc -workers 2 -config HoldLifecycle.cfg MCHoldLifecycle.tla`; to
check the proofs, `tlapm` on each module whose name ends in `_proofs`.

## The system

Jarvis lets a user thread (the "main agent") hand long work to the Codex App
Server and be sure that the work is bounded, stoppable and never done twice. The
components, the state each keeps and what makes each correct:

| Component (under `src/packages/`) | State | Operations | What makes it correct |
|---|---|---|---|
| **Hold Host service** `adapters/codex_app_server/jarvis_hold_host_service.py` | the claim directory `.user-host-claim/owner.json`, `request.json`, `ack.json`, `result.json`, a health file | scan, claim, requeue of a dead owner's claim, `request_host_stop`, `reconcile_hold`, start of a Host | one Host holds a request; a dead Host's turn is observed again, not started again; a Hold is released only when nothing runs |
| **Turn holder** `adapters/codex_app_server/jarvis_task_hold_host.py` | local variables of `hold_task`, `ack.json`, `result.json`, `request.lock` | create or resume a thread, start a turn, wait, record, continue, interrupt, report | a stop is never overtaken by a dispatch; at most the budget of turns; each turn recorded before the next is started |
| **Hold turn monitor** `jarvis_monitor/hold_turn_monitor.py` | none | `observe`: continue, stop or blocked | the budget and the stop are looked at before every continuation |
| **Task provisioning adapter** `adapters/codex_app_server/task_provisioning_adapter.py` | the Hold's files, `close.json`, `turn-history.sqlite` | `provision`, `hold_status`, `close_hold`, `request_hold_stop`, `resume_with_monitor`, `refresh_close_report` | a close never misses the dispatch it races with; a Hold is reported closed only with evidence |
| **Native task launcher** `jarvis_runtime/jarvis_native_task_launcher.py` | the App Server connection; a SQLite queue (`NativeTaskQueue`) | dispatch phases, wait for a terminal turn; claim, complete, reconcile of a queue item | a lost answer to `turn/start` is "unknown", never "not sent" |
| **ProcessLock** `jarvis_runtime/coo_dispatcher_store.py:121-228` | a lock file with a pid | acquire, release, reclaim from a dead or an old owner | one holder; a dead owner does not block for ever |
| **Loop store and controller** `jarvis_control/loop.py` | `loop.json`, a child Hold per lane batch | `start`, `tick`, `reconcile`, `close`, `stop`, rotation of holders | a close is sticky; items are covered once; budgets hold; a Loop ends only when its children have |
| **Heartbeat store and service** `jarvis_runtime/jarvis_heartbeat_service.py` | SQLite tables of heartbeats, runs, in-flight turns, receipts; a pid lock | claim of due heartbeats, trigger, delivery, recording, recovery | a due heartbeat is delivered at most once per occurrence; an unknown delivery is reconciled, not repeated |
| **Local heartbeat scheduler** `jarvis_runtime/jarvis_local_heartbeat.py`, **Monitor service** `jarvis_monitor/service.py` | a schedule file | register, tick, cancel | a Loop is ticked until it ends |
| **Dispatcher store** `jarvis_runtime/coo_dispatcher_store.py` | a JSON state file: packets, events, outbox, deliveries | ingest, create and decide packets, mark dispatched, enqueue and record deliveries | an approved packet is dispatched once; an outbox message is delivered at most once |
| **Codex bridge and journal** `jarvis_codex_bridge/` | an append-only journal of commands | submit, replay, reconcile | a command id has one effect |
| **Control service** `jarvis_control/service.py`, `provisioning.py` | none of its own | routes calls; splits a lane into batches | receipts say what the callee said |
| **Feishu notification** `adapters/feishu_outbox_notification.py` | delivery files | send once | at most one send per event |
| **MCP server**, **connections and wiring**, **probes, contracts, SDK** | none | transport, configuration, data classes | no protocol |

How they interact. An MCP call reaches the control service, which asks the
provisioning adapter to `provision` a Hold: a directory with `request.json` and
`ack.json` (phase `queued`). A Hold Host, a process of its own, scans the
directories, claims one by `mkdir`, and runs `hold_task`, which talks to the App
Server: one thread, one turn at a time, and after every terminal turn the monitor
decides whether to continue. Callers in other processes stop, close, reconcile or
resume the Hold by writing the same files, some of them under `request.lock`
(a `ProcessLock`). A Loop drives a sequence of Holds and is itself ticked by the
local heartbeat. The heartbeat service and the dispatcher are separate paths from
external events to the App Server.

What is hard in this code:

- *processes interleave at every file access*: a Host reads `request.json`, then
  `ack.json`, then tries to claim, and anything may happen in between;
- *processes die at any point*, and their claim, their lock, their half-written
  protocol step and their running turn stay behind;
- *the App Server's answer may be lost*: whether a turn runs is then unknown;
- *stops race with dispatches*, resumes with late results, reconciliations with
  a holder that is still alive;
- *two Hosts may run at once* when the health record of the first went stale.

`PROJECT.json` lists these hazards at their lines, with the properties that
cover each.

## HoldLifecycle

`HoldLifecycle.tla` composes the Hold Host service, the turn holder, the
monitor's decision, the provisioning adapter's operations on one Hold, and the
dispatch phases of the App Server client. They are one module because they share
every file of the Hold: no part of it can be checked without the others.

State. Each file is a variable that keeps the fields the protocol tells apart:

| Variable | Code |
|---|---|
| `req` | `request.json`: request id, mode (`create`, `resume`, `recover`), turn id, first turn count, `stop_requested`, `host_stop` with its turn |
| `ack` | `ack.json`: request id, phase, turn id, turn count |
| `res` | `result.json`: request id, status, turn, `terminal_confirmed`, and the evidence flags that `hold_status` and `reconcile_hold` read |
| `claim` | the claim directory, and the pid in `owner.json` |
| `close` | `close.json`: the request it is bound to, "not dispatched", "closed" |
| `history` | `turn-history.sqlite` |
| `rlock` | the owner of `request.lock` |
| `pc`, `scan`, `my` | where each Host is, what `run_once` read, `hold_task`'s locals |
| `closer` | `close_hold`: where it is, the request id it bound, and the copy of `request.json` that it read and writes back |
| `resumer` | `resume_with_monitor`: where it is, and the last request id it gave |
| `alive`, `crashed` | processes |
| `issued`, `turns`, `told` | the App Server (external): the turns it started, their state, the notifications each client has |

Actions. The writes of a claim, of a dispatch and of a result are steps of their
own, so a Host can die between any two:

| Actions | Code |
|---|---|
| `ReadRequest`, `ReadAck`, `ClaimMkdir`, `ClaimOwner`, `ClaimRecheck`, `ClaimAck` | the scan of `run_once` and `_claim` |
| `RequeueDeadClaim`, `RequeueLock`, `RequeueRequest`, `RequeueAck`, `RecoveryFailed`, `ReleaseOwner`, `ReleaseDir` | `_requeue_dead_claim`, `_release_claim` |
| `HoldStarted`, `LockStart`, `StopBeforeDispatch`, `CancelAck`, `AttachRecovered` | the entry of `hold_task`: the last look at the stop under `request.lock`, or the attachment to a turn that is recovered |
| `StartThread`, `ThreadStarted`, `TurnStarting`, `StartTurn`, `TurnStarted`, `TurnHolding`, `AdvanceRequest` | the dispatch of a turn, first or continuation, and the reports between its phases |
| `PollGivesUp`, `PollInterrupt`, `PollTimeout` | `control_poll`: an exact stop of the running turn |
| `Observe`, `LockRecord`, `Record`, `DecisionAck` | a terminal turn: the monitor's decision, the history, the stop looked at again under the lock |
| `WriteResult`, `HoldFails`, `StartFails`, `StartTurnFails`, `WriteFailure`, `FailAck`, `HolderExit` | how `hold_task` ends |
| `HostFinally`, `HostReport` | the `finally` block of `run_once` |
| `StartHost`, `Crash` | processes |
| `RequestHoldStop`; `CloseBind`, `CloseInspect`, `CloseLatch`, `CloseCancel`, `CloseReport`; `RequestHostStop`; `ReconcileHold`, `ReconcileUndispatched`; `ResumeCheck`, `ResumeArchive`, `ResumeRequest`, `ResumeAck` | the callers |
| `TurnEnds`, `StartTurn(h, FALSE)` (the answer to `turn/start` is lost) | the App Server and the connection |

(`PROJECT.json`'s map gives the lines of every definition.)

Abstractions, all of which keep the order of the control:

- Turn ids and request ids are numbered in the order they are made; 0 is the
  empty id. Texts, prompts, thread names and times are left out.
- The few blocks that end a Hold (`hold_task`'s last writes, the `finally` block,
  the cancellation in `close_hold`, the confirmation in `reconcile_hold`) write
  more than one file and are one step per block. Each file of theirs is written
  once in the block, so a crash inside one leaves a state that differs from a
  crash before or after it only in which of those files is new.
- A read of `request.json` and the write that follows it under the same `request.lock` are
  one step, but for `close_hold` and `hold_task`'s checks, where other files are read or
  written in between.
- A pid belongs to one process: Hosts are incarnations, so a reused pid, which
  would make a dead owner look alive, is left out.
- `request.lock` is an atomic lock that a dead owner loses at once, `Lock` of the
  next section. `ProcessLock` implements it in its Windows form.
- The undispatched case of `reconcile_hold` asks any live Host that is not the
  holder, not the one of the recorded pid.
- What `observe` decides from the text of an answer is a nondeterministic choice
  between the decisions that text can lead to. The runs set `AutoContinue` to
  TRUE: with FALSE, every Hold has one turn.

Properties. Invariants:

- `TypeOK`: types.
- `LockDiscipline`: whoever is in a section under `request.lock` owns it, across
  crashes and reclaimed locks; and from the check of the stop to the dispatch no
  stop is latched.
- `HolderOwnsClaim`: a live Host that holds the Hold owns its claim until it has
  finished, so neither a reconciliation nor another Host's requeue releases a Hold that
  is being held. It is checked and proved of Hosts that run one after another.
- `OneTurnAtATime`: the App Server never runs two turns of the Hold (this and the next two,
  and `HistoryBeforeContinuation`, with at most one crash).
- `ReleasedMeansQuiet`: when `hold_status` says released, no turn of the Hold is in
  progress.
- `ClosedMeansQuiet`: when a close is reported done, no turn of the closed request is
  in progress.
- `OneHolder`: two Hosts that overlap never both hold the request (refuted).
- `WithinBudget`: never more turns than `max_turns`.
- `NoRepeatedItem`: no turn number is dispatched twice for one request (refuted
  with a crash, proved without).

Action properties:

- `NoDispatchAfterStop`: once a stop is latched, no step starts a turn.
- `HistoryBeforeContinuation`: a continuation is dispatched only when every
  turn before it is in the history, whoever held it.

Liveness: `Answered`, a queued request gets a result, with one exception that TLC found
and the code has. `close_hold` writes `request.json` back as it read it, and
`resume_with_monitor` takes no lock. A close that has read request 1 and not yet written
its stop waits while the Host finishes request 1, the Hold is released, and a resumption
writes request 2 and its queued acknowledgement; then the close writes request 1 back. The
acknowledgement names a request that no file holds any more: no Host takes it, and
later closes refuse it as a conflict. `Answered` leaves out exactly that (`req.rid < r`).

## ProcessLock

`ProcessLock.tla` is the class of that name (`coo_dispatcher_store.py:121-228`), one
action per file operation: `Create` (`O_EXCL`), `WriteOwner` (the pid), and for a
process that finds the file `FileExists`, then by the form of the lock

- `exclusive` (`owner_alive` given, Windows): `OpenExclusive`, `ReadOwner`, `Delete` by
  handle;
- `flock` (`owner_alive` given, POSIX): `OpenShared`, `FlockCompare`, `ReadOwner`,
  `Delete` by path;
- `age` (no `owner_alive`): `FoundAge`, `Delete` by path;

and `Retry` or `TimesOut`. `Exit` unlinks the path, which on Windows waits for an
inspector's handle and may fail (`ExitFails`). `Die` may come between any two. The
form is chosen in `Init` and never changes, since the platform and the caller fix it.
The state is the inode that the path names, what is known of each inode (`by`, who
created it; `written`; `old`), each process's open handle, and where it is. The Hold's
files use the `owner_alive` forms; the dispatcher's, the Loop's and the native queue's
stores use the age form.

`Lock.tla` is what the class promises: one owner, and only a dead owner loses the
lock to somebody else. `owner` is refined by the creator of the file that the path
names.

Assumed: a live owner of an age-form lock is done within `stale_seconds` (`Ages`);
a pid is not reused. A live process that overstays breaks the age form by design.

Properties: `TypeOK`; `FileHasOneUser` (who may touch the file that the path names);
`ExclusiveMutex` (the Windows form excludes); `ImplementsLock`; `MutualExclusion` and
`KeepsLiveLock` (refuted for the age and the flock form); and the liveness property
`AbandonedRemoved`: the file of a dead owner does not block a process that keeps
trying. For the `owner_alive` forms this holds only of a file with a pid in it: a
crash between `O_EXCL` and the write leaves an empty file that they never remove,
and the property says so.

## Heartbeat

`HeartbeatStore.tla` has the statements of `HeartbeatStore`
(`jarvis_heartbeat_service.py`) as operators from one row of the `heartbeats` table to
the row: what a `WHERE` asks (`MayArm`, `MayDeliver`, `IsDue`, ...) and what the
`UPDATE` leaves (`ArmedRow`, `DeliveredRow`, `RecordedRow`, ...). `Heartbeat.tla` is the
service that runs them: scheduler processes, a worker thread per claimed run, the
commands of the CLI, and the App Server and master queue it talks to.

| Variable | Code |
|---|---|
| `row`, `run` | the tables `heartbeats` and `heartbeat_runs` |
| `proc` | the service and a `run-once` process: up or not, and what `claim_due` has read and not yet written |
| `w` | the worker of each run: its place in `_execute_claim`, and its locals |
| `turn`, `user` | the App Server (external): the turn of each run; the user's own turns in the observed thread |
| `seen`, `journal` | the bridge's monitor state and its receipt journal |
| `queue`, `qlock` | the master queue file and its lock file |
| `cmd` | a CLI command that has read its row and not yet written |

| Actions | Code |
|---|---|
| `RecoverRead`, `RecoverWrite`, `Begin` | `HeartbeatService.__init__`: the SELECT and the UPDATEs of `recover_native_probe_handoffs`; then `run_forever`'s `PidLock`, or `run_once` |
| `Select`, `Write` | `claim_due`: its SELECTs, its transaction |
| `Submit` | `run_once`: a target or a pool that is busy |
| `BeginPrompt`, `BeginPlain`, `BeginQuota`, `Arm`, `Inspect`, `Observe`, `ClaimReceipt`, `BeginQueue` | `_execute_claim` up to the wake, by the kind of heartbeat |
| `Read`, `StartTurn`, `NoteTurn`, `WaitTurn`, `Fail` | `WakeController.wake` and `run_existing_task`: the status of the thread, `turn/start` (whose answer may be lost), `record_inflight_turn`, the wait |
| `SettlePrompt`, `SettleQuota`, `SettleTerminal`, `SettleContinue`, `SettleQueue`, `Record` | what follows the wake, and `record_run` |
| `CommandRead`, `CommandWrite`, `CompleteDelivery` | pause, resume, cancel, update, complete-delivery |
| `Crash`; `Tick`, `UserTurn`, `TurnEnds`, `WorkerEnds` | a process dies; time and the outside |

A connection of the store runs a SELECT outside a transaction and opens one at its
first write. So `claim_due`, `set_status`, `update` and `recover_native_probe_handoffs`
read in one step and write in another, and statements that begin with a write are atomic.
The recovery's UPDATEs go by `heartbeat_id` alone: what happened to a row in between is
written over. A service recovers before it takes its pid lock, so a second `run-forever`
recovers, and then exits.

Abstractions. Times are what the queries compare: `next_run_epoch` is NULL, later or
due. The outcomes of `record_run` that have one fate for the row share a name. The
kinds of heartbeat are the branches of `_execute_claim`, with probes that only report
as one, `plain`. A fingerprint of a thread is the number of its last ended turn (and
for the monitor whether the thread is loaded or busy). `mix` says which heartbeats a behaviour
has, and bounds it.

Properties:

- `WithinMaxRuns`: `run_count` never passes `max_runs`, although runs overlap, are
  deferred, die or are recorded late.
- `OneTurnPerTarget`: in one process, a heartbeat never starts a turn in a thread where
  another heartbeat's turn runs, also one left running by a crash.
- `PendingDeliveryHasTurn`: in one process, a row that awaits its delivery names a run of
  its own whose turn is on record, over every crash and recovery.
- `ParkedForAReason`: an ACTIVE row without a next run has a reason on record.
- `ItemWokenOnce`: a queue item is woken at most once, whatever fails after the claim.
- `ReceiptOnce`: in one process, a terminal state of the observed thread is reported, or
  continued, at most once, unless the wake was reported as failed.
- `TriggerOnce` (action): in one process, after a completed handoff no other trigger turn is
  started.
- `NoRevivalByRun` (action): a late run never revives a terminal heartbeat.
- `HandoffSettles` (liveness): a handoff in flight ends, by its worker or by recovery.
  It is stated without CLI commands, since a row paused at the crash is not recovered, and
  not for a crash beside a second process, since the survivor does not recover again.

`WithinMaxRuns`, `ParkedForAReason` and `PendingDeliveryHasTurn` are stated for behaviours
in which no CLI command raced with another statement on its row (`hist.raced`): `set_status`
and `update` decide on a row they read before their transaction, and an `update` may fall
between recovery's read and its writes. In that window a heartbeat that reached `max_runs`
can be made ACTIVE again and run once more, or have its schedule parked; and a `resume` of
a heartbeat with its runs used up, while a run claimed earlier is still to be recorded, lets
that run be counted past the limit.

`ReceiptOnce`, `TriggerOnce`, `OneTurnPerTarget`, `ParkedForAReason` and
`PendingDeliveryHasTurn` are about one process. A second one, the service or `run-once`,
recovers in `__init__`, before the pid lock, a handoff that a live worker is in: the trigger
turn is started twice, and the row is parked under the worker. When that worker's wait fails
after recovery's SELECT and before its UPDATE, `finish_trigger_handoff` has cleared the
run, and recovery leaves the row awaiting a delivery without one. And a `run-once` worker that inspected an older state of the thread
may claim it after the service claimed a newer one, and report it again.

`JudgedOutcome` follows the code where it may surprise: with strict receipts a prompt
that was deferred because its thread was busy becomes `continuation_receipt_missing`
(lines 1299-1304) before `busy_deferral` is computed (line 1314), so the heartbeat is
paused, although line 1344 exempts deferrals from that.

## Loop

`Loop.tla` is one loop: `LoopController` (`jarvis_control/loop.py`), run by the MCP
server and by the local heartbeat host over one state file, `LoopStore`, and the row of
the local heartbeat (`jarvis_local_heartbeat.py`) that ticks the loop. The Holds
belong to their Host: here a Hold runs turns, ends, and is released, as
`HoldLifecycle` has it in detail.

| Variable | Code |
|---|---|
| `store` | `state.json`: status, children, cleanup, close |
| `proc` | each process's operation and its copy of the state |
| `hold` | the Holds of each slot, by the rounds done before them, which is what their key tells apart |
| `beat` | the row of `jarvis_local_heartbeats` |
| `env` | `expires_at` has passed; bounds |

| Actions | Code |
|---|---|
| `Start`, `Create` | `start`, up to its save |
| `Status`, `Observe` | `status`, `tick` and `reconcile` |
| `Tick`, `Claim` | `claim_due` of the local heartbeat: its SELECT, its UPDATE |
| `Reconcile`, `Rotate`, `Settle` | `_reconcile_holder_terminals`, its section under the lock, `_finalize_observed_terminals` |
| `Stop`, `Close`, `Intent`, `Reload` | `stop`, `close` |
| `Latch`, `Cancel`, `Drain`, `Save` | `_finish`, and the save after it |
| `ReadRow`, `WriteRow` | `LocalHeartbeatStore.record` |
| `ChildReport` | `refresh_close_report` and `record_child_close` |
| `HoldTurn`, `HoldEnds`, `Time`, `Crash`, `Restart` | the Holds, time, processes |

An operation loads the state, works on its copy and saves it. `Merged` is the store's
`save`: what it keeps of the state on record and what it lets the copy overwrite.

Calls fail (`Call`, bounded by a mix's `failures`): `start` may have any of its Holds or
its heartbeat refused; a status read that fails takes the place of the last receipt, so the
child's release is no longer shown; a cancellation may fail, or its answer be lost, and
the cleanup stays pending until a later operation cancels again. A loop whose heartbeat was
refused stays there for good: to cancel a row that is not there fails every time. A
`save` that lost to a newer intent may take `close` or `cleanup` out of the copy; the
code then reads a missing key and the operation ends in a `KeyError` (`AfterIntent`, `Latch`).

Abstractions. Titles, prompts and items' texts are left out. The Holds of a child are
numbered by the rounds that precede them. `ending` stands for `stopping` and `finalizing`.
The calls of one kind that an operation makes for its children in turn are one step: the
Holds that `start` asks for, before anything is on record, and what `Drain` asks and reads
of each child. A release, and the close of a Hold, are final, and nobody else reads the copy
in between, so that what the code concludes from reads at different times is also true
when the last is made. The store's own operations (`load`, `save`, the section of a
rotation) are atomic under `ProcessLock` in its age form. `lock_age` refutes that form's
exclusion once the file of an owner that died is old: after a crash in such a section two
waiters can be in it together, and a close or a binding saved by one be lost to the other.
`StopIsFinal`, `CleanupReleases` and `RoundsOnce` assume that this does not happen.

Properties: `StopIsFinal` (action): a close or cleanup on record, and its target, are
never undone, and no Hold is started after it. `CleanupReleases`: a completed
cleanup has released every Hold that its children name. `RoundsOnce`: the Holds of a slot
never run more rounds than the loop has, nor one batch twice. `HeartbeatEnds` (liveness):
the loop's heartbeat ends after its cleanup, also when the record of a tick overwrote
the cancellation. `NoOrphan` is refuted.

## Dispatcher

`Dispatcher.tla` is `DispatcherStore` (`coo_dispatcher_store.py`) and the programs that
share it: `notify` (`feishu_outbox_notification.py`) and `NativeTaskQueue`
(`jarvis_native_task_launcher.py`).

| Variable | Code |
|---|---|
| `packet`, `late` | `pending_packets/<id>.json`, and whether `expires_at` has passed |
| `made` | history: how many packets were written under each id |
| `state`, `registry` | `state.json`, `execution_registry.jsonl` |
| `ledger` | `event_ledger.jsonl`: times ingested and last status of each key |
| `outbox`, `bridge` | `outbox.jsonl` with the delivery log, and the external bridge that sends |
| `request`, `results` | `native_task_requests.jsonl`, `native_task_results.jsonl` |
| `caller` | a process in `notify`, `submit` or `recover_partial` |
| `consent` | history: the versions that were confirmed in time |

Actions: `CreatePacket`, `DecidePacket`, `MarkDispatched`, `Expire`; `IngestEvent`,
`RecordEventStatus`; `Notify`, `NotifyEnds`, `BridgeSends`, `RecordDelivery`; `Validate`,
`Submit`, `RecoverStarts`, `RecoverTurn`, `RecoverEnds`. An operation of the store runs
under one lock and writes several files: it is one action, and `Writes(k)` says how many
of its k writes were made before the process died. `validate` and the first and last
part of `recover_partial` are steps of their own, because they are outside that
lock, or under one that a waiter breaks by its age.

That lock, `dispatcher.lock`, is a `ProcessLock` in its age form, whose exclusion `lock_age`
refutes once the file of an owner that died is old. The module assumes that it excludes:
after a death in one operation, two that waited for its lock may run at the same time in the
code, and `OnRecordOnce`, `NotifiedIsDelivered` and `ConsentStands` say nothing of that.

`create_packet` takes a confirmation id from its caller and writes the file, whatever is in
it: a confirmed, or dispatched, packet becomes a pending one. `made` numbers the packets
written under one id, so that a *version* `<<id, n>>` is what was asked, confirmed,
dispatched or attached to a request.

Properties: `ConsentStands`: what was dispatched, or submitted as a task with a packet, is
a version that was confirmed while it was asked, and the confirmation still stands, whatever
packet of another id, decision, expiry or crash comes. Only a new packet under the same id
takes it back, and it needs a confirmation of its own before anything is dispatched. `NotifiedIsDelivered`: a notification that is reported
completed names a record with its own text that was sent, also past the limit of
identical messages, where `enqueue_outbox` answers with a record of another call.
`OnRecordOnce`: event keys, callbacks and requests are on record once, and a version of a
packet is dispatched a second time only after a crash between the registry and the packet.

Left out: the identity of the bot, business status, enrichment and audit (nothing
reads them back), and `register_native_task`, which nothing calls.

## Runs

| Run | Configuration | Shows |
|---|---|---|
| `hold_crash` | 2 Hosts one after another, 3 turns, 2 requests, one crash anywhere | the invariants and action properties above, with every caller at any time; 986,160 states |
| `hold_overlap` | 2 Hosts at the same time, 2 turns, 2 requests, no crash | refutes `OneHolder` |
| `hold_live` | 1 Host, 4 turns, 2 requests, no crash, fairness | `WithinBudget`, `Answered`; 159,303 states |
| `hold_repeated` | 2 Hosts, 3 turns, one crash | refutes `NoRepeatedItem` |
| `hold_released` | 3 Hosts, 3 turns, two crashes | refutes `ReleasedMeansQuiet` |
| `lock_forms` | 3 processes that may all die, 3 inodes, each form | the properties of `ProcessLock`, the refinement of `Lock`, liveness; 295,554 states |
| `lock_age` | the same, age form only | refutes `MutualExclusion` |
| `lock_flock` | the same, flock form only | refutes `KeepsLiveLock` |
| `heartbeat` | 15 mixes of 2 heartbeats, up to 3 runs, 2 queue items, one crash, second process or CLI command | the properties of `Heartbeat`; 412,880 states |
| `loop` | 7 mixes: 1 or 2 slots, 3 rounds by 2 per thread, each mode, one command or crash, up to 2 failing calls, ticks, expiry | the properties of `Loop`; 687,706 states |
| `loop_orphan` | one slot, one close | refutes `NoOrphan` |
| `dispatcher` | 2 confirmation ids used up to twice each, 1 request, 1 event, 2 texts, 2 callers, one death, in 4 combinations of programs | the properties of `Dispatcher`; 1,455,651 states up to symmetry |

Every property of a passing run has a mutant in `PROJECT.json`: a change of one
definition, the way a bug in its code would change it, under which TLC finds the
property violated in the same run.

### Bounds

`MaxIssued` (turns the App Server starts), `MaxRequests` (ids the Hold is given:
the original and its resumptions) and `MaxCrashes` bound the behaviours;
`MaxTurns` is the request's own `max_turns`. Two Hosts are what recovery needs:
one that dies and one that takes over. Two requests are what a resumption and
every late write of the previous request need, and three turns let a continuation
be followed by a resumption or by a recovery. One crash reaches every
intermediate state of the protocol, since a Host may die anywhere.
Two crashes in sequence are in `hold_released`, where they matter:
`ReleasedMeansQuiet` holds with one crash and not with two. With overlapping Hosts
even `OneHolder` is refuted, without a crash, as soon as a second request exists: with
one request it takes a third Host and a crash, since only the requeue of a dead owner's
claim makes that request queued again. The bounds are guards (`issued < MaxIssued` and
so on): the proofs need none of their values, but for the number of deaths.

A Hold at its bounds with its request answered may still be scanned, so no run of
`HoldLifecycle` switches the deadlock check off. The runs of `ProcessLock` do: when
every process has died, nothing happens any more. Three processes are one owner and two
reclaimers that compete, and inodes are reused once nothing refers to them, so the
runs are bounded by nothing else.

`Heartbeat`, `Loop` and `Dispatcher` choose one of several configurations in `Init`
(`mix`, `work`), because the parts of each that meet are few, and their product is
large. In `Heartbeat`, three claims are two runs of one heartbeat that overlap and a
third after them, or what crosses `max_runs` = 2; two heartbeats are what a shared
thread, a pool of one or one queue need; `ended` gives the queue items that were completed
before, so that two heartbeats compete for one; one crash reaches every place of a
worker, and the service starts again after it. In `Loop`, three rounds by two per thread
are two Holds of different budgets, so that a rotation, its retry, and the cut at
the end of the lane happen; the MCP server and the host are all the processes the code
has; one failing call is a refused heartbeat, whose cancellation then fails by itself,
and two are a cancellation or a status read that fails again in the next operation. In `Dispatcher`, two
confirmation ids are one packet that supersedes another, and two packets under one id
(`MaxMade`) one that replaces another; a repeat limit of 2 and three records put the limit
in and out of reach; one death is one operation cut short. Ids, texts and callers are
symmetric: only invariants are checked, and none is special. These runs switch the deadlock check off: with their bounds used up and their
work done, nothing happens any more.

### Fairness

`FairSpec` asks for weak fairness of each Host's next step (the operating system's
scheduler starts a Host and its service loop polls for ever; no other process has
to act for it) and of the end of each turn in progress (the App Server ends a turn or
fails it; a turn that never ends holds the Hold by design). A caller's call, a fault,
a timeout and a crash are never owed: `Answered` must hold whether or not they
come. It is checked without crashes: after one, a request may rightly be left to
an operator (`recovery_failed`), and a Host that died between `mkdir` and
`owner.json` leaves a claim that nobody takes over.

For `ProcessLock`, the steps of a process that wants the lock or has it are fair (the
scheduler), and a dead owner's file grows old (time passes). To want the lock, to give
up, to fail to leave and to die are not owed.

For `Heartbeat`, each worker's steps are weakly fair: threads of a running process are
scheduled, and every wait of a worker has a timeout. Nothing is assumed of the
scheduler's own loop, the CLI or the outside: a handoff must settle without them, or
else the service is down. For `Loop`, the host's calls return (weak fairness of its
steps), time passes, and its loop comes round (strong fairness of `Tick`, which is
disabled while it does something else). `Dispatcher` has no liveness property.

## Proofs

### HoldLifecycle

`HoldLifecycle_proofs.tla` proves, for any set of Hosts and any value of the
bounds, from `HoldConstants` alone:

- `TypeCorrect`: `Spec => []TypeOK`;
- `LockDisciplineHolds`: `Spec => []LockDiscipline`;
- `NoDispatchAfterStopHolds`: `Spec => NoDispatchAfterStop`.

The inductive invariant is `TypeOK /\ LockDiscipline`. The property one wants,
that no step both finds a latched stop and starts a turn, is not about a state,
and is not inductive by itself: it needs that the dispatching Host still holds the
lock (`LockOK`, with a dead owner's lock free to be taken, and a live owner's
not) and that the stop it checked is still not latched (`DecisionOK`). Every action that
latches a stop takes the lock, hence waits or finds the dispatching Host dead, in
which case no dispatch follows. The proof is one step per action; actions that
leave the lock, the program counters, the processes and the stop alone share one
lemma.

`HoldClaim_proofs.tla` proves one more, from `HoldConstants` and `~Overlap`:

- `HoldersOwnClaim`: `Spec => []HolderOwnsClaim`.

The assumption is that a Host starts when no other one runs, which `initialize_user_host`
tries to ensure with the health record; what a suspended Host does to it is
`hold_overlap`. Any number of Hosts may die, and any number of requests follow.
`HolderOwnsClaim` is not inductive: from the recheck of `_claim` until the holder is
active, only `reconcile_hold` could take the claim, and what stops it is a fact about the
result file, not about the claim. `ClaimInv` therefore adds, on top of
`TypeOK /\ LockDiscipline`:

- `OneAlive`: one Host runs at a time, so that a claiming or holding Host is the only Host
  that acts (`SoleActor`);
- the claim is a Host's own already from the recheck on (`OwningPCs`);
- `Refused`, for a Host from its scan to its claimed acknowledgement: there is no result,
  or one without a turn, or of another request, or the result of a close that cancelled
  a queued recovery, for which `reconcile_hold` asks for the proof of an exact stop. It has
  to hold of the request and of what a `close_hold` in the middle is about to write
  back (`Latched`), which is the request or one of before (`CopyKnown`). No caller makes it
  false (`StaysRefused`): a resumption numbers its request beyond every result
  (`RidsKnown`: no file, local or copy names an id that was not given), and only a
  recovery names a turn (`RecoveryKnown`), so that the cancellation of anything else
  writes a result without one.

While the Host is active, `reconcile_hold` sees it (`NotReconciled`).

`HoldQuiet_proofs.tla` proves the rest of the safety properties of `HoldLifecycle` that are
true, for any Hosts and any value of the bounds, from `HoldConstants`, `NoResultIsNone` (an
absent `result.json` is not taken for a result) and `~Overlap`. While at most one Host dies
(`MaxCrashes <= 1`), in whatever place:

- `TurnsOneAtATime`: `Spec => []OneTurnAtATime`;
- `ReleasedIsTrue`: `Spec => []ReleasedMeansQuiet`;
- `ClosedIsTrue`: `Spec => []ClosedMeansQuiet`;
- `HistoryComesFirst`: `Spec => HistoryBeforeContinuation`;

and while none does (`MaxCrashes = 0`):

- `NoItemRepeated`: `Spec => []NoRepeatedItem`;
- `BudgetKept`: `Spec => []WithinBudget`.

The bounds on deaths are not conveniences: `hold_released` refutes `ReleasedMeansQuiet` with
two, and `hold_repeated` refutes `NoRepeatedItem` with one. What the proofs add to those runs
is that the refutations need that second, or first, death, whatever the number of Hosts,
turns, requests and calls.

None of the six is inductive. Hosts and callers write the files of a Hold, and each of them
concludes from what it reads that a turn runs or does not. The invariant has four layers on top of `ClaimInv`, each of one conjunct per file
and one per place of a Host:

- `ProtocolInv` is about files and places only: beside a queued or claimed request no
  result stands that a resumption would accept (`Unresumed`); a Host past its claim finds
  no result of its own before it is done, unless a stop is latched; a holder's request is
  the one on file, and so is the copy that a `close_hold` writes back.
- `RecoveryInv` is where the one death is used: after it, and until the claim of the dead Host is
  requeued, neither the request nor a copy of it names a turn, so that the recovery takes its
  turn from the acknowledgement (the second death breaks this: the request names the turn
  of the first recovery), and the acknowledgement is of the request it recovers.
- `TurnsInv` relates all of it to the App Server: `Names`, a durable turn id is that of the
  turn in progress, if any is, and the turns before it are in the history, or the stop is
  latched and none will be started; `Shows`, what a result's or a holder's flags claim of
  the turns is so; `CloseTurns`, a close concluded for a request leaves no turn of it; and,
  for a Host about to dispatch, nothing is in progress and all of its request's turns
  are recorded.
- `NumbersInv`: without recoveries every count starts at 1, and a Host about to
  dispatch has a number above that of every turn of its request and within the budget.

The layers were checked with TLC as invariants before they were proved: the first three with
two Hosts and a crash (986,160 states), all with one Host, four turns, three requests and no
crash (1,696,078 states). `OneHolder` is refuted
(`hold_overlap`). `Answered` is liveness under fairness, which is out of the prover's reach.

### ProcessLock

`ProcessLock_proofs.tla` proves, for any processes and inodes, from `LockConstants`:

- `LockInvariant`: `Spec => []LockInv`, and from it `TypeCorrect`;
- `ExclusiveMutexHolds`: `Spec => []ExclusiveMutex`;
- `ImplementsLockHolds`: `Spec => ImplementsLock`, and `ExclusiveImplementsLock`:
  `Spec /\ form = "exclusive" => L!Spec`;
- `OneUserHolds`: `Spec => []FileHasOneUser`.

`LockInv` adds to the types that a file is open before it is used (`FilesKnown`:
without it even the types are not inductive, since a pid is written through a
handle) and `FileHasOneUser`: a process that created the file or is inside
created the file that the path names; an inspector's handle is the only one
open on that file; and a file about to be deleted has a dead creator. An inspector's
exclusive handle keeps the owner from unlinking the file, so what was
read of it stays true of the path until it is deleted, which is what the other
two forms lack. Each step maps to a step of `Lock` or to none: `Create` to `Acquire`,
`Exit` to `Release`, `Delete` to `Reclaim`.

`AbandonedRemoved` is liveness and stays with TLC.

### Dispatcher

`Dispatcher_proofs.tla` proves, for any packets, requests, events, texts, callers, bounds
and deaths, from `DispatcherConstants`:

- `TypeCorrect`: `Spec => []TypeOK`;
- `Consented`: `Spec => []ConsentStands`;
- `RecordedOnce`: `Spec => []OnRecordOnce`;
- `Notified`: `Spec => []NotifiedIsDelivered`.

Two inductive invariants stand on the types. `ConsentInv` says that every packet that is
confirmed or dispatched was consented to, in the version that is on file; that a version in
the registry, and that of a request or of a caller between `validate` and `submit`, was
consented to, and is confirmed or dispatched while it is the one on file; and that a packet
still only confirmed has at most one registry entry per death. `ConfirmedStays` is the lemma
that no step, not even a cut one, takes a confirmation back, unless it writes a new packet
under the same id. `DeliveryInv` adds to `NotifiedIsDelivered` that a record in state
`delivered` was sent, that the record in the bridge's hands was sent if it will say so,
and that a caller that waits has a record with its own text: `RecordFor` names the
record just appended or, past the limit, the last of a row of identical ones, and the
outbox only grows.

### Heartbeat

For any heartbeats, runs, mixes, `MaxRuns` and numbers of snapshots and items, from
`StoreConstants`, `HeartbeatConstants` and `NoQueueConstant` (a queue file that is absent is
not one of its states). Every safety and action property of `Heartbeat` is a theorem.

`Heartbeat_proofs.tla` proves

- `HandoffInvariant`: `Spec => []Inv`, and from it `TypeCorrect`;
- `NoRevival`: `Spec => NoRevivalByRun`.

`Inv` adds to the types `WorkInv` and `HandoffInv`. A worker at work has a heartbeat, the
runs beyond the last claim are blank, and the worker of a quota trigger that waits for its
turn, or has it completed, has that turn on record. A handoff in flight names a run of
its own heartbeat, with any number of processes: only `Arm` makes one, and a recovery,
whatever it writes over, leaves the row in another state.

`HeartbeatRuns_proofs.tla` proves what takes several runs to break:

- `ItemsWokenOnce`: `Spec => []ItemWokenOnce`, from `PlacesAndItems`;
- `OneTurn`, `ReceiptsOnce`, `PendingDelivery`: `Spec => []OneTurnPerTarget`,
  `Spec => []ReceiptOnce`, `Spec => []PendingDeliveryHasTurn`, and
  `TriggeredOnce`: `Spec => TriggerOnce`, from `OneProcessInvariant`;
- `RunsBounded`: `Spec => []WithinMaxRuns`;
- `ParkedOnRecord`: `Spec => []ParkedForAReason`.

The service has many actions but a worker's step has few effects on what other
workers see. The lemmas `Effect` and `Alone` say so once; steps of anyone else are
`Outside`. On them stand small invariants, each the reason for one property:

- `PlaceInv`: where a worker of each kind can be, and what it then has in its locals;
- `ItemInv`: an item was woken by the run that claimed it;
- `SoloInv`: in one process no two workers are submitted to one target, which with
  `ThreadInv` (a worker between its look at the thread and its turn saw it idle, and
  nobody of the service has been there since) is `OneTurnPerTarget`, also after a crash;
- `TrigInv`: a completed handoff stays completed, and no worker of it is before its turn;
- `ContInv`: a state that was reported is the last one claimed, or older than any that a
  worker still holds;
- `PendInv`: a handoff in flight has an open run; what a recovery has read of a row and its
  run is still so when it writes (nothing else of the one process runs between, and a row
  that a command changed is excused); and a row that awaits its delivery names a run of its
  own with its turn on record, because the recovery that left it so has read that turn;
- `RunsInv`: an ACTIVE heartbeat with a run selected or at work has a run left, where the
  runs at work count as used only when they are recorded;
- `ParkInv`: an ACTIVE row without a next run is excused (by its handoff, receipt, alert, or
  a worker still to record), and what the worker is to record has a reason in it.

`SoloInv`, `ThreadInv`, `TrigInv`, `ContInv`, `PendInv` and `ParkInv` are about one process,
and `RunsInv`, `ParkInv` and the last part of `PendInv` about behaviours without a raced
command, as the properties are.
`HandoffSettles` is liveness and stays with TLC.

### Loop

`Loop_proofs.tla` proves, for any slots, mixes and numbers of rounds and Holds, from
`LoopConstants`:

- `LoopInvariant`: `Spec => []Inv`, and from it `TypeCorrect`;
- `CleanupReleasesHolds`: `Spec => []CleanupReleases`;
- `RoundsOnceHolds`: `Spec => []RoundsOnce`;
- `StopFinal`: `Spec => StopIsFinal`.

An operation works on a copy of the state that may be older than the file, so the
invariant is about every copy as well as the record: what it says of the Holds (`Known`)
was true, and stays true, because Holds only grow (`Grown`: turns are added, a Hold that
ended does not start again, a release is not undone). A call that fails only takes evidence
away, or leaves the cleanup pending. To this come the order of the
Holds of a slot, by which a rotation's next Hold begins where the last one ended, and what
an operation in the middle of a rotation or of a start has made sure of. `StopIsFinal` is proved
of each step: `Merged` keeps a recorded close or cleanup against every copy, and the
steps that start a Hold look at the record under the lock.

`HeartbeatEnds` is liveness and stays with TLC.

## What the runs found

Six disagreements between the code and what its documents say, each the
counterexample of a run:

1. *A repeated item* (`hold_repeated`, `NoRepeatedItem`). `ack.json` takes a
   continuation's new turn id at `turn_started` and its new count only at
   `turn_holding`. A Host that dies in between is recovered with the new turn and
   the old count, and the next continuation repeats a turn number, hence a lane
   item, that was already dispatched.
2. *A release while a turn runs* (`hold_released`, `ReleasedMeansQuiet`). A
   recovered holder that continues clears the turn id in `ack.json` before it
   dispatches, but `request.json` still names the previous turn. If its Host
   dies too, the third Host recovers the previous terminal turn, and a
   reconciliation confirms that one while the continuation runs.
3. *Two owners of an aged lock* (`lock_age`, `MutualExclusion`). Two waiters see the
   same old file; the second unlinks the new file of the first.
4. *A live lock removed on POSIX* (`lock_flock`, `KeepsLiveLock`). The owner leaves and
   its process exits after the inspector compared the inodes; another process takes
   the lock; the inspector reads the dead pid from its handle and unlinks the path.
   `HoldLifecycle` assumes that this does not happen to `request.lock`; on Windows (the
   "primary tested host environment" of `src/README.md`), `ExclusiveImplementsLock` proves
   that it does not.
5. *A Hold without a loop* (`loop_orphan`, `NoOrphan`). `close` loads the state without
   the lock. A rotation finds no close yet, starts the child's next Hold and saves its
   binding. `close` then saves its older copy: `save` protects recorded intents from older
   copies but not bindings, so the child names its previous Hold again. The cleanup
   drains that one and completes, and the new Hold runs on, named by nothing.
6. *Two holders* (`hold_overlap`, `OneHolder`). A Host that has finished, and is no longer
   active, is suspended while it releases its claim, between `owner.unlink` and `rmdir`. A
   reconciliation has released the claim, the Hold is resumed, and the Host's health goes
   stale: a second Host starts and makes the claim directory for the new request. The
   first one wakes up, removes that directory before `owner.json` is in it, scans and
   makes it again. Both find the request queued in their recheck, and both hold it.

## What is not modelled

In the modelled components: the exception path of `run_once` of the Hold Host other
than its confirmation of an exact stop, writes that fail part-way without a crash
(only the Dispatcher has writes cut short), the bounded worker queue, the health
files' contents and cadence (a Host may simply start beside another when `Overlap`),
output verification, and `update_runtime`; of the heartbeats, the validation of
requests, the desktop, audit and notices, `wake-now` and `recover-codex`; of the local
scheduler, heartbeats that call anything but the loop's tick; of the bridge,
`ContinuousTerminalContinuationMonitor` and the transport; of the native queue,
`run_next`, whose turn is the one `HoldLifecycle` models for a Hold.

Not modelled: the control and monitor services, which route calls and keep no state (but
for the failed receipts that a loop's calls get from them), the MCP server, connections and wiring, probes, contracts and the SDK, which have no
protocol of their own.

## Plan

| Order | Module | State | Next |
|---|---|---|---|
| 1 | `HoldLifecycle` | checked; every safety property proved, but for `OneHolder`, which is refuted | a second resumer; failing writes |
| 2 | `Lock`, `ProcessLock` | checked; mutual exclusion and refinement proved | |
| 3 | `HeartbeatStore`, `Heartbeat` | checked; every safety property proved | |
| 4 | `Loop` | checked and proved | |
| 5 | `Dispatcher` | checked and proved | |
| 6 | `LaneBatches` | not begun | the arithmetic of `provisioning.py`: batches partition the lane |

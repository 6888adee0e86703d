# BenShu: TLA+ models of task control, durable tasks, scheduling, approvals and locks

BenShu is a local agent system written in Rust: a gateway (`apps/gateway`)
serves a desktop panel, an agent (`crates/brain`) answers chats in a loop of
provider calls and tool calls, long work is delegated to a continuous-task
executor, a scheduler runs jobs at later times, and a novel studio keeps whole
projects in files. This directory models the
part of it where a mistake is hardest to find by testing: **who may stop,
pause, resume, restart or finish a piece of work, and what remains of it when
several of them do so at once or when the process dies in between.**

Each component has a module, a model-checking module `MC<module>.tla` with
`.cfg` files for TLC, and a module `<module>Proofs.tla` with theorems that
TLAPS checks. `PROJECT.json` lists the components, the runs, the mutants, the
correspondence of definitions and source lines, the findings, the hazards and
the theorems.

    tlc -workers 2 -config MCForegroundTask.cfg MCForegroundTask
    tlapm ForegroundTaskProofs.tla

## 1. Inventory of the system

### 1.1 Components that are modelled

**Foreground tasks** (`crates/brain/src/agent/foreground_runtime.rs`,
`runtime_support.rs`). *State:* `Agent.active_task`, a map from session to the
handle (token, `PauseController`) of the session's task, behind a tokio Mutex;
in each controller an atomic flag, a queue of instructions and a `Notify`.
*Operations:* `run_foreground_chat` takes the previous handle from the slot,
cancels it, spawns a job, inserts the new handle and waits for the job's
result; `pause_foreground_task`, `resume_foreground_task`,
`resume_foreground_task_with_input`, `cancel_foreground_task`. The job itself
loops over steps and looks at the token and the pause flag at every step.
*Hard:* the slot is emptied and filled in two critical sections, a finished job
cleans up after its successor may have moved in, and a pause or resume meets
the job at any of its checkpoints. *Correct if* every running job can be
reached by stop and pause, a pause takes effect at the next checkpoint, a stop
ends even a paused job, and a resume is not lost.

**Durable chat tasks** (`apps/gateway/src/api/handlers/chat.rs`,
`crates/state/src/task.rs`). *State:* one `TaskState` record per task in redb,
the table `cancel_tokens`, and the spawned executions, heartbeats and recovery
watchers. *Operations:* create, execute, record the outcome or the error,
heartbeat and event checkpoints, stop, pause, resume, provider recovery,
recovery after a restart. *Hard:* every handler loads the record in one
transaction and saves the whole record in another; several executions of one
task can overlap; a crash keeps the record only. *Correct if* an end is final,
a task paused by a provider outage is taken up again, a user's pause is not
overridden and nothing is cancelled that nobody wanted to cancel.

**Continuous tasks** (`crates/brain/src/runtime/continuous_task.rs`, delegated
to by `crates/builtin-tools/src/tool/delegation/continuous.rs`). *State:* the
plan, the current step and attempt, the artifact file, the runtime events, the
checkpoints, and the same task record that the gateway changes. *Operations:*
the loop over steps and attempts with timeouts, blockers, retries, repetition
test and budgets; `record_step_attempt` and `record_step` of the sinks.
*Hard:* a step is recorded in four places one after the other, each of which
may fail; the artifact is appended to by threads that nobody waits for and
rewritten as a whole in between; pause and cancellation are learnt only from the
record. *Correct if*
the records agree whatever fails, `Completed` means complete, and a held task
stops writing.

**Cron scheduler** (`crates/scheduler/src/lib.rs`). *State:* the DashMap
`jobs`, the redb store, the tokio_cron_scheduler runtime behind a Mutex.
*Operations:* `add_job`, `remove_job`, `update_job_status`, `load_jobs`, and
`register_job_runtime`, which three of them share and which gives a job a new
id each time. *Hard:* DashMap shards and the Mutex are taken in different
orders, jobs fire while they are being registered, and a crash may fall
between the two transactions in which a job changes its id. *Correct if* what
can fire is known, a one-shot job succeeds at most once, a removed job stays
removed, and requests return.

**Circuit breaker** (`crates/brain/src/agent/provider/resilient.rs`). *State:*
closed, open or half open, a failure counter and the time of the last failure,
behind a tokio Mutex that is free while a provider works. *Operations:*
`check_state`, `report_success`, `report_failure`, around `stream_completion`
with a timeout on the primary provider. *Hard:* a request reports into a state
that others have moved on. *Correct if* the circuit opens only on a streak of
failures, keeps its cool-down, cannot get stuck and closes after a recovery.

**Approval gate** (`apps/gateway/src/api/security.rs`). *State:* a DashMap of
pending requests, a bounded list of decision receipts, a oneshot channel per
request. *Operations:* `approve_with_timeout`, `add_request`, `resolve`,
`resolve_by_challenge`, `expire`. *Hard:* an answer, another answer and the
timeout meet between the accesses of table, channel and receipts; a waiting
call can be dropped. *Correct if* only an approved action goes ahead, one
decision is recorded and it is true, and every call returns.

**Approval of a chapter** (`crates/builtin-tools/src/tool/writing/
novel_studio`: `approval_transaction.rs`, `snapshot.rs`, and the operations
around them). *State:* the project directory: manifest, chapters, records
(pending and approved settlement, journal, receipt), before images, snapshots.
*Operations:* approve with replay, recovery and rollback, restore a snapshot,
draft, audit, settle, reject, repair. *Hard:* a transaction over many files,
which a crash or a tool timeout interrupts between two of them, or whose own
error path fails, followed by any other operation. *Correct if* a chapter that
counts as approved has its evidence, an approval is not lost, and a rollback
restores what was there.

**Project lock** (`project_lock.rs` and `storage.rs` of the studio). *State:* a
registry of weak references to mutexes, a lock file, a heartbeat file, the
blocking threads. *Operations:* `acquire_project_lock`, the heartbeat task, the
drop of the guard, `atomic_write_file`. *Hard:* a future that is dropped leaves
its blocking thread behind. *Correct if* operations exclude each other, within
and between processes, and the lock always comes free.

How they interact: a chat message creates a durable task, whose execution calls
`run_foreground_chat`; a step of the foreground job calls the provider through
the circuit breaker, may wait at the approval gate, and may delegate to a
continuous task, whose sink writes the durable task's record, or call the novel
studio, whose operations run under the project lock (which is why
`ApprovalTransaction` lets one operation run at a time). The gateway's controls
act on the foreground slot and on the record; the tool timeouts of the executor
drop the futures of the last three. A scheduled job's payload starts a chat.
The retry policy (`runtime-policy-core`) counts the retries of the foreground
job and classifies provider errors.

### 1.2 Components that are not modelled (yet)

`PROJECT.json` lists each of them with its reason. They fall into three groups.

* Planned, see section 2: message bus and memory hub, coordinator, completion
  gate, loop guard. The resource arbiter has no caller that releases what it
  grants, and the MCP manager is constructed and not called: neither has a
  protocol to check yet.
* Text processing and heuristics around a provider call: the body of a
  reasoning step, writing workflows, quality gates, compression, hardness.
* I/O and numeric code: connectors, MCP, panel, image service, inference and
  vector kernels, telemetry.

## 2. Plan

In this order, the most important behaviour first.

| # | module | subject | state |
|---|--------|---------|-------|
| 1 | `ForegroundTask` | slot, preemption, pause controller | modelled, checked, proved |
| 2 | `SupervisedTask` | durable task record, recovery, restart | modelled, checked, proved |
| 3 | `ContinuousTask` | executor and sinks | modelled, checked, proved |
| 4 | `CronScheduler` | registry, store, runtime, locks | modelled, checked, proved |
| 5 | `TaskLedger` | abstract specification: steps delivered once and confirmed in order, outputs missing only after a fault; `ContinuousTask` refines it | checked, proved |
| 6 | `ResilientProvider` | circuit breaker under concurrent requests | modelled, checked, proved |
| 7 | `ApprovalGate` | approval requests racing answers, timeouts and dropped calls | modelled, checked, proved |
| 8 | `ApprovalTransaction` | journal, before image, receipt, rollback, snapshots | modelled, checked, proved |
| 9 | `ProjectLock` | mutex, file lock, heartbeat, abandoned threads | modelled, checked, proved |
| 10 | `ChatControl` | composition of `ForegroundTask` and `SupervisedTask`: one stop, pause or resume acts on both | planned |
| 11 | `MessageBus` | subscriptions, bounded mailboxes, slow receivers (`crates/comm`) | planned |
| 12 | `LoopGuard`, `CompletionGate` | pure operators against a reference definition | planned |

Also planned: `cancel_session` of the coordinator, which cancels
`current_task_token`, a token foreground jobs do not listen to
(`multi_agent.rs:1226`), and `save_preserving_completion_fields` of the task
store.

## 3. How the modules correspond to the code

Common conventions: an action is what happens without another task being able
to intervene, that is a critical section, one transaction, one atomic access or
the code between two awaits that touches nothing shared. Handlers that load and
save are two actions. What a provider, a tool or the file system answers is a
nondeterministic choice among the outcomes the code tells apart. Texts,
timestamps and logging are left out.

### 3.1 ForegroundTask

`slot` is the session's entry of `active_task`, `caller` and `previous` the
calls of `run_foreground_chat`, `job`, `site`, `steps`, `attempt` and `result`
the spawned job, `paused`, `queued` and `woken` its controller, `req` and
`target` the control requests. `since` and `overtaken` are history.

* `TakePrevious`, `SpawnJob`, `InsertHandle`: the call. `CallDropped` is a call
  that is dropped while it waits for the Mutex the second time; after the
  insertion nobody can tell a call that waits from one that was dropped.
* `Preflight`, `StepBoundary`, `Work`, `LoopFails`: the job up to the recovery
  loop, the head of `execute_loop`, the body of a step, and the recovery
  loop's treatment of errors.
* `CheckPaused`, `Subscribe`, `Wake`, `CancelWakes`, `Drain`: `wait_if_paused`,
  at the two places that call it (`site`).
* `Cleanup`: the removal of the job's own handle.
* `PauseRequest`/`SetPaused`, `PauseWithNote`/`QueueInput` (the note is queued
  before the flag is set), `ResumeRequest`/`ClearPaused`/`NotifyWaiters`,
  `ResumeWithInput`/`QueueInput`, `StopRequest`/`StopTake`/`StopCancel`: the
  control calls; each fetches the controller under the Mutex and uses it after
  the unlock.

Starts of a session overlap freely. The gateway refuses a message while it finds
a handle in the slot, but looks before it starts, and the resumed and the
recovered runs do not look (`chat.rs:3462`). `ActiveJobControllable` therefore
names the calls it excepts: those that put their handle into the slot while
another call was between its take and its insert (`overtaken`), and those that
were dropped. That a job of the first kind is out of reach is a counterexample
of its own (4.2). A step that exceeds the token quota is one that fails
(`Work`).

### 3.2 SupervisedTask

`task` is the stored record, reduced to its status and to who caused its latest
pause checkpoint; `token` is the entry in `cancel_tokens`; `pc` and `copy` say
where each handler stands and what record it holds. `stopped` and `selfPaused`
are history. Handlers are runs, the beat of each run, requests and watchers.

* `StartRun`, `OutcomeLoad`, `OutcomeSave`, `OutcomeError`, `ChatFails`,
  `MarkFailedLoad`, `MarkFailedSave`, `EndRun`: `execute_supervised_chat`,
  `update_supervisor_task_from_outcome`, `mark_supervisor_task_failed` (which
  runs twice for an error) and the spawner.
* `BeatLoad`, `BeatSave`: `record_supervisor_checkpoint`.
* `StopRequest`/`StopLoad`/`StopSave`, `PauseRequest`/`PauseSave`,
  `ResumeRequest`/`ResumeSave`, `MarkRunningLoad`/`MarkRunningSave`: controls.
* `PushLoad`, `PushSave`, `WatchCheck`, `ProbeOk`, `ProbeFails`,
  `WatchResumeLoad`, `WatchResumeSave`: provider recovery.
* `Crash`, `RecoverAfterRestart`.

Assumptions: the health URL of the main brain is configured (otherwise the
watcher returns at once); one task of one session on the chat-session route,
not the direct-writer or creation-planning routes; a resume request may reach
`mark_latest_session_task_running` whether or not the foreground slot is
occupied, which allows more than the code; a save and the spawning of the
recovery watcher after it (`chat.rs:4248` and 4250, 5645 and 5646, 3460 and
3462) are one action, so that no crash falls between the two (after the saves of
a pause the restart's own recovery takes over; after the third the record is
Running, which a restart ignores, see `InterruptedTaskRecovers`); the second
disjunct of `task_needs_durable_reschedule`, which depends on `result.paused`,
is left out.

### 3.3 ContinuousTask

`pc` and `then` follow `run_with_checkpoint_sink` and the sink it calls;
`status` is the stored task, `held` the copy the sink has loaded; `file`,
`logged` and `checkpoints` are the three records of a step; `harm` and `late`
are history.
`NextStep` and `EndOfPlan` are the loop; `AttemptGate`, `AttemptLoad`,
`AttemptSave` are `record_step_attempt`; `BudgetExceeded`, `AttemptFails`,
`DeclaredBlocker`, `RunnerBlocked`, `ProviderDisconnects`, `OutputAccepted` are
what becomes of an attempt; `StepCheck`, `AppendOutput`, `Refresh`, `Truncate`,
`Rewrite`, `LogCheckpoint`, `StepLoad`, `StepSave` are `record_step`;
`SinkFails` is every `?` in the sink, `ProcessEnds` a crash or a dropped run.
`PauseTask`, `ResumeTask`, `CancelTask`, `FinishTask` are the gateway, whose
handlers take effect at their save here. Outputs matter only for the test for
an exact repetition. When the attempts are used up the run has failed, or is
paused if the last error reads like a provider disconnect.

The artifact. `FileAppendCheckpointSink.record_step` opens the file for
appending, calls `write_all` and drops the handle without a flush
(`continuous_task.rs:655-669`): `AppendOutput` only hands the output to a thread
(`pending`), from which it lands (`Land`) or is lost without anybody being told
(`WriteFails`), in no order with the outputs of other steps, also after the end
of the run or of the process. Then `refresh_declared_artifact_progress`
(675-687) reads the whole file and, when a progress line is out of date, which
depends on the text and is left open, writes it back: `Refresh` takes the copy,
`Truncate` and `Rewrite` are the two halves of `tokio::fs::write`. An output
that is in flight at the read is missing from the copy and may be wiped out by
the rewrite (`harm` gets "overtaken"), and a rewrite that fails or is
interrupted leaves a prefix of the copy (`CutShort`, "failed"). The properties
say what holds of the artifact in any case, and what holds as long as neither
has happened (`Intact`). The two `write_all` of a step, its heading and its
text, are one output.

### 3.4 CronScheduler

`jobs`, `store`, `runtime`, `mutex` are the scheduler's; `guard` is the shard
of the DashMap that a `get_mut` has locked; `used` are the ids given out. A
process is a request, an execution or `load_jobs`. `RegisterCheck` to
`RegisterStoreSave` are `register_job_runtime`, await by await; `AddJob`;
`RemoveJob` to `RemoveEntry`; `Fire` and `ExecuteEnds` (external: the behaviour
of tokio_cron_scheduler as the code uses it); `UpdateStatus`, `Disable`,
`SaveStatus` are `update_job_status`, which keeps its shard locked throughout;
`Tick`, `Crash`, `LoadNext`. Transactions of the store do not fail here, nor does
`sched.remove`, whose error the code ignores (`lib.rs:488`: the job would stay
on the runtime with its entry gone); no future of `add_job` is dropped while it
waits for `sched.add` (403-406); execution records, which the scheduler never
writes, are left out.

### 3.5 TaskLedger

What a continuous task promises about its artifact, without retries, pauses,
threads and rewrites: a step is delivered, to the artifact or to who brings it
there, once and only when the one before it is confirmed; the task is complete
only when all are confirmed; nothing is delivered after the end; and as long as
nothing has spoilt the artifact, what has been delivered stays and what is
confirmed has been delivered. `ContinuousTask!Ledger` maps the outputs in the
file and with the threads to what is delivered, `Intact` to `sound`, the
executor's checkpoints to what is confirmed, and the end of the run to the
phase. `ImplementsLedger` is the refinement, checked by TLC and proved.

### 3.6 ResilientProvider

`state`, `failures` and `last` are `CircuitStateInternal`; `pc` says where each
request of `stream_completion` stands. `CheckState` is part of
`StreamCompletion` and of `GetDynamicMetadata`; `PrimaryAnswers` and
`PrimaryFails` are the provider, or the timeout on it; `ReportSuccess`,
`ReportFailure` take the Mutex. `Drop` is a caller that goes away: nothing is
reported. Time is a saturating count of ticks since the last failure and the
counter saturates at the threshold, which is all the code compares them with.
`flaky` says whether the primary may fail; `streak` is history.

### 3.7 ApprovalGate

`pending`, `chan` and `receipts` are the table, the channels and the receipts;
`pc` follows `approve_with_timeout`, `apc` an answer by id or by code. The code
touches the three one after the other, without a common lock, and so does the
model. `ReadBack` is the `expect()` after the insertion; `DropCall` is a tool
whose timeout, or whose cancellation, drops the future that waits. A channel that holds
an answer is polled before the timer, as in `tokio::time::timeout`.

### 3.8 ApprovalTransaction

`disk` has three of the managed entries, `project.json`, `chapters/` and
`reviews/`, in the order in which they are copied and renamed; the other nine
hold nothing that an approval reads. `backups` are the before images, `aside`
is the directory into which a restore moves the entries. A body stands for its
fingerprint; the latest passing review, the settlement and the truth that a
receipt names are compared by body, review number and set of settlements.
`ApproveReplay`, `ApproveRecover`, `ApproveRollback` and `ApproveFresh` are the
four ways through the head of `approve_chapter_transaction`; `Clean` to
`Cleanup` are its writes in order.

* Snapshots: `Checkpoint` removes the directory of an automatic one,
  `TakeSnapshot` starts one on demand, over an existing directory if it is told
  to overwrite; `Save` copies the entries (`Over`: copying over a directory keeps
  the files that the project no longer has); `ListSnapshot` is the write of the
  manifest that makes the snapshot known, and a manifest that is restored
  from before that has lost it.
* `MoveOut`, `Install`, `Discard` are `copy_project_state_from_snapshot` rename
  by rename. `RenameFails` is its error path, in which the errors of removing
  what was installed and of moving back what was moved out are ignored
  (`snapshot.rs:260-278`) before both directories are deleted: each entry that
  has been touched comes back, stays as it is or is gone. `mixed` records that
  not all came back.
* `WriteBody`, `RetirePending` and `Reopen` are the three writes of a revision
  (chapter file, pending settlement, manifest), of which a new draft has the
  first and the last; `SettleState` and `SettledStatus` the two of a settlement.
* `Repair` is `repair_project_state` with its optional last chapter: the third
  disjunct is a chapter that is not approved, or above the last one, and is
  therefore left out of the story bible (`state_truth.rs:140-150`, 333). `cut`
  records that this was done to an approved chapter.
* `Crash` may fall between any two of these steps, also inside the deletion of a
  directory.

What stays abstract: the write of one file is atomic (`atomic_write_file`), and
an interruption inside the copying or deleting of one *entry* is not
distinguished from one before or after it. There is one chapter; of the others
only what reaches it is kept, as an open choice: whether it is the latest
approved one, to which alone the truth of a receipt is compared
(`TruthMatches`), and whether a repair ends before it. There is one snapshot
directory, so `Restorable` and the overwriting meet as often as they can.
`Cleanup` may be followed by an automatic snapshot after a replay as well, which
the code does not take: more than the code does. The metadata and the gates
behind a passing review are not told apart.

### 3.9 ProjectLock

A mutex is named after the task that made it; `registry` and `mutex` are the
weak and the strong references. `flock` is held by a task, or by an abandoned
poll, which is named after its process. `Call` to `Acquired` are
`acquire_project_lock` await by await, `LocalBusy` and `FileBusy` its two
timeouts, `BeatFails` its `?`; `DropBeat`, `DropFile`, `DropLocal` are the drop
of the guard in the order of the code and of the fields. `GiveUp*` is the tool
timeout that drops the future; `Orphan*`, `LateBeat` and `LateWrite` are what
the blocking threads still do. Every call names a project: an operation with an
empty `project_path` has no key and takes no lock (`project_lock.rs:152-167`). It
usually fails in `require_project_path`, but where the output root itself holds
a `project.json` it works on that project (`storage.rs:51-54`) without excluding
anybody; the properties are about the operations that lock.

## 4. Runs

### 4.1 What holds

| run | instance | shows |
|-----|----------|-------|
| `foreground_slot` | 2 calls, 2 requests, 2 steps, 1 retry | `ActiveJobControllable`: a running job's handle is in the slot or about to be inserted or cancelled, whatever clean-ups, preemptions and stops interleave, unless its call was dropped or its start was overtaken by another. `PauseStopsAtNextCheckpoint`: at most one more step begins. |
| `foreground_cancel_ends` | 2 calls, 1 request, 1 step | `CancelledJobEnds`: a cancelled job ends and leaves the slot, paused or not. |
| `supervised_task` | 2 runs, 1 request, 2 watchers, 1 crash | `CancelIsFinal`, `EndIsFinal`: once no handler holds an older copy, nothing undoes a cancellation or another end. `ProviderPauseWatched`: a task paused by a disconnect has a recovery task at work, or its probes are used up, across a crash. |
| `continuous_records` | plans of 0 to 3 steps, 1 retry, 3 controls | `RecordsAgree`: no record runs ahead, no output comes twice, and none is missing unless a write failed or was overtaken by a rewrite; `CompletedIsWhole`, `StopsWithinOneStep`, `RunEnds`; `ImplementsLedger`: the run implements `TaskLedger`. |
| `cron_registry` | 2 requests, 2 executions, 3 ids, 1 crash | `ScheduledJobsKnown`, `DisabledJobOff`, `OneShotOnce`, `CanceledRepeatStaysGone`. |
| `resilient_circuit` | 3 requests, threshold 3, timeout 2 | `OpenCircuitCanReset`, `OpensOnStreak`, `CoolDown`; `CircuitRecovers`: with the primary back for good and requests coming in, the circuit closes and stays closed. |
| `approval_gate` | 2 calls, 2 answers, 2 codes, 3 receipts | `OnlyApprovedProceeds`, `OneVerdict`, `DenialIsTrue`, `NothingLeftBehind`, `EveryCallReturns`. |
| `novel_approval` | 2 bodies, 1 transaction, 1 review, 1 snapshot, 1 interruption or failed restore | `TrustedHasEvidence`, `TrustedUntilEdited`, `PreparedIsSettled`. |
| `project_lock` | 3 tasks, 2 processes, 1 abandoned poll each, 1 crash | `MutualExclusion`, `OnePerProcess`, `HeartbeatWhileHeld`, `LockComesFree`. |

`CHECK_DEADLOCK FALSE` is given where requests and restarts are finite in number
and the system rests when they are used up. `ResilientProvider` and
`ProjectLock`, whose requests and calls never end, are checked for deadlock.

Why the bounds suffice. Two calls are a task and its successor, which is all
the slot ever relates; two requests are enough to pause and resume, or pause
and stop. Two runs are a run and its rescheduled successor. The plans contain a
chain, a budget shorter than the plan, a dependency that cannot be met, an
empty plan and a budget of zero; three controls are a pause, a resume and a
cancellation. Two requests, two executions and three ids allow a job to be
added, fail, be retried under a new id and be removed meanwhile, with a restart
at any point. Three requests reach the
threshold with one of them late; two answers are enough for a decision and a
competing one, two codes for a collision and none. One transaction, two bodies
and one interruption allow an approval to be interrupted at each of its writes,
recovered or rolled back, and followed by an edit, a repair or a restored
snapshot; `MCApprovalTransactionRedraft.cfg` repeats the safety properties with
two transactions and two reviews (11 million states), and the inductive
invariant of the proofs has been checked with two interruptions as well. Three
tasks in two processes are two rivals in one process and one outside. What is
also proved (section 5) does not depend on the bounds.

Every property of these runs has a mutant in `PROJECT.json`, a small change of
the code it is about, with which TLC reports the property violated. The
mutated definitions stand before the originals and are marked as mutants.

### 4.2 What the code does not do

Three runs end in a counterexample; each is a disagreement between the code and
something a document, a message or a test of the repository says.

* `foreground_lost_wakeup` (1 call, 2 requests): `wait_if_paused` tests the
  flag before it creates the `Notified` future, so a resume between the two
  wakes nobody and the resumed job waits forever.
* `cron_deadlock` (2 requests, 1 execution): `update_job_status` awaits the
  Mutex with a shard locked, `remove_job` wants the shard with the Mutex
  locked.
* `approval_rollback` (1 transaction, 2 snapshots, 2 interruptions): an approval
  is interrupted after its Prepared journal, and a snapshot taken, which holds
  the journal. The next approval rolls back and is interrupted while it deletes
  the before image: `project.json` is left of it. The snapshot is taken again
  with `overwrite`, which copies over the old directory and keeps the journal in
  it, and restored: the Prepared journal is back. The next approval takes the
  remains for the before image, restores them and deletes the chapter's body,
  while it reports that the project "was restored to its complete pre-commit
  state" (`approval_transaction.rs:252`).

The modules state more such properties. They are not among the runs; the `.cfg`
files named here reproduce the counterexamples (those that list two or more
properties with `tlc -continue`; `BibleHoldsOnlyApproved` is a comment in its
file, to be put in the place of the other).

| property | cfg | counterexample |
|----------|-----|----------------|
| `OverlappingStartsControllable` | `MCForegroundTaskOverlap` | two overlapping starts both find the slot empty; the second handle replaces the first, and the first job, "an active reasoning task that can be preempted" (`runtime_support.rs:62`), can no longer be stopped or paused |
| `SlotHoldsLiveJob` | `MCForegroundTaskStale` | a job that ends before its caller inserts the handle has already cleaned up; the dead handle stays and the session looks busy until the next start or stop |
| `StopTakesItsTask` | `MCForegroundTaskStop` | the stop is spawned and answered before it runs, and may take a task started after it |
| `RecoveryRespectsUserPause` | `MCSupervisedTaskUserPause` | the watcher checks who paused the task before its health probe and resumes it after; a resume and a second pause by the user during the probe are overridden (the test at `chat.rs:7404` is named `provider_recovery_never_overrides_a_later_explicit_user_pause`) |
| `CancelledOnlyOnRequest` | `MCSupervisedTaskResume` | resuming a task whose run still waits starts a second run, which preempts the first; the first run's error marks the resumed task Cancelled |
| `CancelSticks` | `MCContinuousTaskCancel` | the sink loads the record, the user cancels, the sink saves its copy as Running, and the run goes on |
| `CompletedArtifactIsWhole` | `MCContinuousTaskWhole` | the output of a step is still with the file thread when the artifact is read back; it lands, the rewrite truncates it away, and the run reports Completed with every step checkpointed |
| `ErrorFinalizesActiveTask` | `MCSupervisedTaskLateError` | the error handler loads a Running record; the task ends; the handler saves over it |
| `EndIsRecorded` | `MCSupervisedTaskHeartbeat` | a heartbeat saves the Running copy it loaded before the outcome was saved; the ended task stays Running |
| `InterruptedTaskRecovers` | `MCSupervisedTaskCrash` | a restart looks for paused tasks only; one that was Running at the crash stays so |
| `ScheduledJobRuns` | `MCCronSchedulerPast` | a one-shot job whose time is not in the future is accepted and not registered |
| `CanceledJobStaysGone` | `MCCronSchedulerCanceled` | a removal between the end of a failed execution and its retry is undone by the retry |
| `PersistedJobStays` | `MCCronSchedulerPersist` | a crash between removing the old record and saving the new one loses the job |
| `HalfOpenTriesOne` | `MCResilientProviderProbe` | "Try one request" (`resilient.rs:164`): every request that comes in before the first probe reports goes to the primary |
| `ExistsAfterInsertion` | `MCApprovalGateRefuted` | "approval request must exist immediately after insertion" (`security.rs:271`): an answer between the insertion and the read makes the call panic |
| `ProceedingIsTrue` | `MCApprovalGateRefuted` | "Action approved via button interact. Proceeding..." (`bridge.rs:1760`): the call has timed out between the removal and the send, or has been dropped |
| `CodeNamesRequest` | `MCApprovalGateRefuted` | two pending requests with the same four-digit code: the answer goes to either |
| `PendingIsAwaited` | `MCApprovalGateRefuted` | a dropped call leaves its request in the table |
| `ApprovedIsImmutable` | `MCApprovalTransactionImmutable` | `approved_chapter_is_immutable` (`approval_transaction.rs:23`) guards the rejection only; a revision, a new draft or an audit opens an approved chapter |
| `BibleHoldsApproved` | `MCApprovalTransactionBible` | `repair_project_state` up to an earlier chapter rebuilds the story bible without the approved chapters above it (`state_truth.rs:148`), which keep their status and their receipts |
| `BibleHoldsOnlyApproved` | `MCApprovalTransactionBible` | a chapter that is revised and approved again leaves its first settlement in the story bible until the next repair |
| `RollbackIsComplete` | `MCApprovalTransactionComplete` | an interruption between the renames of a restore leaves the project without `project.json`, and no operation can read it |
| `StudioSerializes` | `MCProjectLockSerial` | "The studio serializes individual file mutations" (`novel_workflow_driver.rs:383`): the write of an operation that was given up lands while the next one holds the lock |
| `DropRemovesHeartbeat`, `HeartbeatNamesHolder` | `MCProjectLockHeartbeat` | a heartbeat write under way when the guard is dropped brings the file back, or replaces the successor's (the test at `project_lock.rs:192` is named `..._guard_drop_cannot_recreate_it`) |

`DisabledJobOff` is stated up to the first restart: `load_jobs` does not look
at `enabled` and schedules disabled jobs again. So is
`CanceledRepeatStaysGone`: an execution that has locked the entry before
`remove_job` deletes it may save the job after `store.remove_job`, and the next
restart registers it again.

### 4.3 Fairness

Weak fairness for every spawned task and accepted request: the tokio runtime
keeps polling them, and each ends its waits (provider and tool calls have
timeouts, `execute_payload` too). No fairness for users: nobody owes the system
a request, an answer, a resume or a crash. `RunEnds` therefore excludes runs
that are left paused, and `CircuitRecovers` and `PreparedIsSettled` have as a
hypothesis that requests, or approvals, keep coming. `CircuitRecovers` also
assumes that only finitely many requests are dropped: a caller that always goes
away before it reports keeps the circuit from closing. In `CronScheduler` time
passes and due jobs fire; in `ResilientProvider` time passes, the primary
provider has a timeout, and the fallback, which has none, gets no fairness. In
`ProjectLock` an operation that holds the lock ends some time; the waits for
the two locks get no fairness, since they may time out. Strong fairness is used
nowhere: a process that waits for a lock that others take and release forever
is not promised it.

## 5. Proofs

The theorems hold for every value of the constants that satisfies the `ASSUME`s
of the module: distinctness of the special values and bounds in `Nat`. The sets
of calls, requests, runs, watchers, ids and shards may be infinite.

**ForegroundTaskProofs.** `TypeCorrect`: `TypeOK` bounds the steps by
`MaxSteps`; it is inductive together with `StepBudget` (between the head of a
step and its body the budget is not yet used up). `Controllable`:
`ActiveJobControllable` is inductive together with `StartsOverlap` (a handle in
the slot while another call is starting is that of an overtaken call); nothing
is assumed about the starts. `PauseIsPrompt`:
`PauseStopsAtNextCheckpoint` needs `PauseInv`, which adds that a paused job that
has just passed its pause check has begun no step since.

**SupervisedTaskProofs.** `TypeCorrect` with `ProbeBudget` (a probing watcher
has a probe left). `CancellationIsFinal` and `EndStaysFinal` are action
properties: they follow for every step from `TypeOK` and `HeldCopy`, which
says, handler by handler, what status the copy it is going to save can have.
`PauseStaysWatched` (`ProviderPauseWatched`) has one case per handler and uses
that runs, requests and watchers are different handlers (`DistinctAssumption`).

**ContinuousTaskProofs.** One invariant, `TypeOK /\ Progress /\ Refreshing /\
RecordsAgree /\ HeldProgress /\ CompletedIsWhole`. `Progress` ties the program
counter to the records, without which `RecordsAgree` is not inductive;
`Refreshing` is about the text that is going to replace the artifact: it holds
no step twice, none that is still with a thread and, as long as the artifact is
intact, everything the file held when it was truncated. `HeldProgress` says that
a step handed over while the task is held came from an executor that has yet to
come back to the gate. From it: `TypeCorrect`, `RecordsInOrder`
(`RecordsAgree`), `CompletedRuns`, `HeldTasksStop`.

The same invariant gives the refinement `RunIsALedger`: the initial states map
to initial states of `TaskLedger` and every step to a step or a stutter.

**ResilientProviderProofs.** `OpenCircuitCanReset` is inductive together with
`TypeOK` and `ClosedCounts` (while the circuit is closed the counter is the
streak); `TypeCorrect`, `CircuitCanReset`, and the action properties
`OpensOnlyOnStreak` and `CoolsDown` follow.

**ApprovalGateProofs.** The invariant adds to the properties: `Table` (a request
is in the table, or with at most one answer, or expired), `Channels` (what is in
a channel was put there by who took the request) and `Records` (a decision on
record is that of who took the request). It rests on the atomic removal from
the table, and on nothing else: `TypeCorrect`, `ApprovalNeeded`,
`DecisionsOnRecord`, `RecordedDenials` (`DenialIsTrue`), `ReturnCleansUp`.

**ApprovalTransactionProofs.** The invariant has two layers. `Sound` is about one
file at a time, and so survives every mixture of entries: a receipt names a
passing review of its own body, and an approved manifest a review whose body is
in its story bible unless it is marked as cut. It holds of the disk, of what a
restore has set aside, and of everything that can be restored (`Sources`; a
before image moreover is never of an approved chapter). `Agree` relates manifest
and records: an approved chapter and its receipt are about the same, settled
body. It holds of the disk unless a failed restore has mixed two states, and of
a source from the moment it has been checked (`RestorableAgrees`).
`InTransaction` follows the program counter through the writes of an approval,
`Replacing` through the renames of a restore. Each has a lemma of its own, one
case per action (`DiskStep`, `SourcesStep`, `TransactionStep`, `ReplaceStep`);
that reviews are only added (`HistoryGrows`) carries what was sound over to the
next state. `TypeCorrect`, `EvidenceOfApproval` and `ApprovalsLast`, for any
number of bodies, transactions, reviews, snapshots and interruptions.

**ProjectLockProofs.** `FileOwner` and `LocalOwner` (who is past a lock holds
it), `Waiters`, and `Registry`: all tasks of a process that refer to a mutex
refer to the one in the registry, which is what the weak references must ensure.
`TypeCorrect`, `Exclusion`, `LocalExclusion`, `HeartbeatKept`.

**CronSchedulerProofs.** `TypeCorrect` and `KnownJobs` (`ScheduledJobsKnown`).
The invariant adds `MutexOwned`, `IdsFresh`, `RegisteringSound`,
`RemovingSound` and `ExecutingSound`: an id is given out once, so what has left
the runtime never comes back, and whoever deletes an entry of `jobs` has taken
it off the runtime first. No lemma about the shards is needed for it except
that an entry under update stays.

`DisabledStaysOff` (`DisabledJobOff`) adds `SoleExecution` (a one-shot job is
not executed twice under one id) and `EnabledUntilCounted` (until the first
restart only enabled jobs are registered), and uses that the execution that
disables a job keeps its shard locked until it has taken it off the runtime.

`OneShotRunsOnce` (`OneShotOnce`) is the deepest result. A job has up to five
kinds of copies: the entry, the stored record, what a restart has read, and the
records in the hands of executions and registrations; crashes fall between any
two of their writes. The argument:

1. every copy comes from the request that added the job (`RecordsOwned`); the
   copies under one id agree on job and time (`CopiesAgree`); the time of what
   has fired is past in every copy, and a retry replaces such a job only
   (`FiredIsPast`), so `register_job_runtime` refuses an old copy after a
   restart; what a registration has not finished is on the runtime as long as
   its time has not come (`NotYetFired`); and `load_jobs` runs alone
   (`BootAlone`);
2. a *chance* is a place that the job may still come to a successful execution
   from: the runtime, an execution that runs or is going to retry, a
   registration that is not going to be refused, a record that `load_jobs` has
   read. `OneChance`: there is at most one. `OneStoredChance`: a restart would
   make at most one, out of the stored copy of the very job that has the chance,
   or of the one that its registration is replacing. `NoChanceAfterSuccess`:
   after a success there is none, in memory or in the store;
3. every step is shown to give the job no new chance (`Quiet`), to move the only
   one (`Moved`: adding to the runtime, firing, retrying, loading), to let the
   stored copy back it (`SaveBacks`), to use it up (`SuccessTakesChance`), or to
   start over from the store (`CrashSound`).

`CanceledRepeatsEnd` (`CanceledRepeatStaysGone`) is the part of "successfully
canceled" that holds: until the first restart a repeating job keeps the id of
its only registration (`RepeatsKeepIds`, which rests on `RecordsOwned` and on
`FiredIsPast`: only one-shot jobs are retried), and an execution updates the
entry of its job but never makes one.

Before the proofs TLC has checked every part of these invariants on the instance
of `cron_registry` and on one with a single job, 3 executions, 4 ids, 2 retries
and 2 crashes.

Only model-checked: the liveness properties (`CancelledJobEnds`, `RunEnds`,
`CircuitRecovers`, `EveryCallReturns`, `PreparedIsSettled`, `LockComesFree`) and
the temporal counterexamples, which need fairness and ENABLED and so lie beyond
the prover. Every invariant and every action property of the passing runs is a
theorem.

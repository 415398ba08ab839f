# NOJV: a TLA+ model of the judge

NOJV is an online judge. Students submit programs through a SvelteKit
application; PostgreSQL keeps every fact that matters; Temporal workflows and
activities do the work that takes time; sandboxes in Kubernetes or Docker run
the programs. This directory models the parts in which several processes share
rows, leases and timers, and in which each of them may stop at any point.

Source paths below are relative to the repository.

## 1. The system

| Component | State | Operations | Interacts with |
|---|---|---|---|
| Durable work outbox (`packages/db/src/repositories/durable-work.ts`, `apps/worker/.../durable-work-runner.ts`, `workflows/durable-work.ts`) | the `DurableWork` table; the cron drain | enqueue, cancel, reactivate, reschedule, claim, complete, retry or bury | every component that must do something after its transaction |
| Durable judging (`packages/application/src/submission/judge-*.ts`, `apps/worker/.../durable-judge.ts`, `activities/judge-execution.ts`) | `Submission`, `JudgeExecution`, `JudgeStage`; one workflow per recovery epoch; sandbox resources named by lease tokens | accept, dispatch, claim, run a stage, checkpoint, commit, apply effects, finish, recover, clean up | outbox (dispatch), Temporal, executors, scoring |
| Problem content (`problem/*.ts`) and judge snapshots (`judge-snapshot*.ts`) | `Problem`, `Testcase`, `JudgeExecutionObject` | edit, delete, pin a version, compact old snapshots | storage lifecycle, judging |
| Rejudge control (`rejudge-control.ts`) | `SubmissionRejudgeLog`, executions of an operation | dispatch, cancel | judging, outbox |
| Per-student dispatch gate (`judge-recovery.ts:16-84`) | reads the student's executions | admit, wake the next | judging |
| Submission acceptance (`creation.ts`, `submit-cooldown.ts`, `attempt-window.ts`) | `Submission` in pending upload | reserve, upload, publish, fail | exam session, storage lifecycle, judging |
| Stale submission sweep (`sweep.ts`) | none of its own | reconcile executions, fail legacy rows, prune | judging |
| Storage object lifecycle (`storage-object-lifecycle.ts`) | cleanup rows of the outbox, objects in the bucket | guard, swap, clean up | outbox, judging, problem content |
| Exam session, credentials, proctoring (`exam/*.ts`, `proctoring/*.ts`) | sessions, IP bindings, issued credentials | start, end, auto close, release, issue, revoke | lifecycle timers, acceptance |
| Lifecycle timers (`packages/temporal/src/dispatch.ts`, `lifecycle-reconciliation.ts`, workflows of contests, exams, assignments) | schedule revisions, running workflows | reconcile, replace, cancel | exams, contests, assignments |
| Judge slot supplier (`judge-slot-supplier.ts`) | budget, issued and used slots, waiters | reserve, release, adjust, signal | worker |
| Executors and testcase cache (`apps/worker/src/sandbox/**`) | sandbox resources, cache entries | execute, clean up, reconcile, collect | judging |
| Scoring (`scoring/*.ts`, `contest/scoring.ts`, `exam/scoring.ts`) | scores and boards | recompute | judging, score overrides |
| Web, sandbox runner, mailer, registry, redis, storage clients | rendering, process and network I/O | | all |

`PROJECT.json` lists every component with its status. What makes the behaviour
hard, at the line where it bites, is its `hazards` list. The themes are:

* a worker dies, or is only slow and comes back after its lease was taken over;
* a value is read, something slow happens, and it is used after it changed;
* a sweeper, an outbox handler, a workflow and a user act on one row in an
  order nobody wrote a test for;
* a step is retried that may have happened already;
* something accepted must be finished in the end, whoever dies meanwhile.

Properties that make the components correct, in short: outbox rows are run at
most `maxAttempts` times, are never lost, and a late worker cannot touch a row
that is no longer its own; a submission is judged by one execution at a time, its
previous result stays visible until the new one commits, a committed result is
scored and finalized, and sandbox resources are removed before the row forgets
their token; the gate lets one execution of a student run at a time; an object
is deleted only when nothing refers to it; a student has one active exam session
and it ends; a lifecycle workflow follows the newest schedule; slots in use never
exceed what was issued and no waiter is forgotten.

## 2. The modules

| Module | What it is |
|---|---|
| `DurableWork` | the outbox: table, batches, cron drain |
| `MCDurableWork` | its instance for TLC |
| `DurableWorkProofs` | its theorems |
| `JudgePromise` | the abstract specification of judging one submission |
| `JudgeExecution` | the rows, workflow, activities and sweeper that judge it; refines `JudgePromise` |
| `MCJudgeExecution` | its instance for TLC |
| `JudgeExecutionProofs` | its theorems |
| `StorageLifecycle` | the objects of a problem in the bucket: writers, references, cleanup |
| `MCStorageLifecycle` | its instance for TLC |
| `StorageLifecycleProofs` | its theorems |

| `DispatchGate` | the gate over all executions of a student, its callers, the sweeper's page |
| `SubmissionAcceptance` | the requests of a student, their limits, publication, the stale sweep |
| `LifecycleTimers` | schedules and the Temporal timers that follow them |
| `ExamSession` | the sessions of a student over several exams; extends `LifecycleTimers` |
| `SlotSupplier` | the worker's activity slots under load |
| `TestcaseCache` | the testcases a stage mounts in Kubernetes, and their collection |
| `MCDispatchGate`, `MCSubmissionAcceptance`, `MCExamSession`, `MCSlotSupplier`, `MCTestcaseCache` | their instances for TLC |
| `DispatchGateProofs`, `SubmissionAcceptanceProofs`, `ExamSessionProofs`, `SlotSupplierProofs`, `TestcaseCacheProofs` | their theorems |

The modules meet where one takes as a free choice what another decides:
`JudgeExecution` lets the gate answer as it likes, and `DispatchGate` reduces an
execution to open or ended; `SubmissionAcceptance` has one exam session that ends
at any moment, and `ExamSession` says how; `StorageLifecycle` and
`JudgeExecution` know rows of the outbox by the states `DurableWork` gives them;
the Pods of `TestcaseCache` are the sandbox resources of `JudgeExecution`.

Definitions whose comment begins with "Mutant" are altered copies of the
definition below them. No specification uses them: each is a plausible bug that
some property must notice when it replaces the original.

### DurableWork

`work[k]` is the row of a (kind, dedupeKey) pair, `batch[o]` the call of
`processDurableWorkBatch` that drew the UUID `o`, `drain` the cron workflow
(`drainDurableWork`) with its fairness offset and the batches it awaits. `hist`
is a history variable: how often the row was handed to a handler since it was
last activated, by which batches, and whether one of those runs returned.

| Action | Code |
|---|---|
| `EnqueueMany`, `Cancel`, `Reactivate`, `Reschedule` | the repository operations of the same name |
| `LaunchWave`, `FinishWave` | the waves of `drainDurableWork`, its end, `continueAsNew` and the next cron run |
| `ClaimBatch` | one `claimBatch` statement of the scan over the rotated kinds |
| `HandlerEnds` | the handler returns or throws |
| `Complete`, `RetryOrDead`, `LeaseLost` | the fenced updates and `DurableWorkLeaseLostError` |
| `Crash`, `ActivityTimeout` | the worker dies; Temporal gives the activity up while its code runs on |
| `BecomesDue`, `LeaseExpires` | time passes `availableAt`, `leaseExpiresAt` |

Abstractions. Time is what the SQL compares: whether a row is due and whether
its lease has expired, each of which may become true at any moment, so every
ratio of timeouts is covered. The batch reads the clock once before its scan
(`claimNow`); an older clock only makes it see less, which a delayed `BecomesDue`
or `LeaseExpires` covers. The order of candidates (`availableAt`, `createdAt`,
`id`) is a free choice and `SKIP LOCKED` is covered by it. Payloads are left
out: `assertCanonicalEnqueue` and the argument checks only reject calls.

### JudgePromise and JudgeExecution

`JudgePromise` says what judging promises: executions are opened one after the
other, an open one is voided or committed, a committed one is finalized before
anything else happens, and the submission shows the last committed result.

`JudgeExecution` models one submission. `sub` is its row, `exec[e]` the
`JudgeExecution` row of generation `e`, `wf[e]` the workflow of its current
recovery epoch, `task` the activities in flight, `live` the lease tokens whose
sandbox resources exist, `outbox` the pending dispatch rows. `committed` and
`scored` are history variables.

| Actions | Code |
|---|---|
| `Accept`, `Rejudge`, `CancelRejudge` | `createJudgeExecution` as called by `createQueuedSubmissionRecord` and `dispatchRejudge`; `cancelRejudge` |
| `Dispatch` | the outbox handler and the direct attempts, with the per-student gate as a free choice |
| `Redispatch`, `TerminateStalled`, `NewEpoch`, `CleanupTerminal` | the branches of `reconcileJudgeExecutions` and `judgeCleanupWorkflow` |
| `ReadStatus` ... `Recover` | `durableJudgeWorkflow`, one action per step between two awaits |
| `ClaimJudgeLease` ... `CompleteJudge` | the activities, one action per transaction or external effect |
| `StorageFails`, `WorkerCrash`, `ResourcesExpire`, `LeaseLapses` | failures and time |

Abstractions. Transactions lock the Submission or the execution row and are
atomic. `saveJudgeStage` locks only the execution; a checkpoint between the
checks of `createJudgeExecution` and its update can turn a running execution
into a finalizing one that is cancelled nevertheless, which is harmless since
the commit needs the lock of the Submission row, and is not modelled. An activity
is a task that outlives the workflow that waits for it; the short journal
activities (`setJudgeExecutionState`, `finishJudgeExecution`, the status read)
are single steps of the workflow whose answers may be lost, and a second, later
execution of them is not modelled. A workflow has the epoch of its row: a new
epoch is made only when the old workflow is closed, and `REJECT_DUPLICATE` starts
a workflowId once. Sleeps and retry delays are left out; the failure counter only
chooses between `waiting_capacity`, `blocked` and `recovering`, which is a free
choice. `continueAsNew` forgets `published`, whose only use is to avoid
publishing twice what may be published again. A checkpoint is a count, a verdict
is named by its execution, the deferred cleanup goes on in the task slot of its
stage. Of the storage lifecycle one fact is kept, since a retry depends on it:
`guarded` says that the outbox has a write guard for the verdict object of this
epoch, which `guardStorageObjectWrites` will not enqueue a second time
(`durable-work.ts:150-166`). The objects of stages are named after a lease
token, which is used once. The cleanup of a guard that has become due while the
object is being stored is covered by `StorageFails`. Executors are known by what
they promise: a removal that is reported has happened, and `reconcile` removes
nothing of a run that is active in the worker Pod that owns the lease.

`LateClaims` says whether an `executeJudgeStage` that Temporal gave up before
its first heartbeat may still reach its claim, `LateCommits` whether a
`completePinnedJudge` that timed out may still commit. The code prevents
neither. Runs that set them to FALSE show what holds when worker processes do
not stall for longer than those timeouts; section 6 says what breaks otherwise.

### StorageLifecycle

One problem and its objects. `problem` is the row with its `storageGeneration`
and the key of its current version, `exec[e]` the executions with the keys they
pin (`JudgeExecutionObject`) and, for a format-1 snapshot, the text it embeds,
`object` the keys that are in the bucket, `row[k]` the `storage.object.cleanup`
row of a key. `edit`, `accept`, `compact` and `cleaner` are the processes: what
each of them holds between two statements.

| Actions | Code |
|---|---|
| `GuardWrite`, `PutVersion`, `CommitEdit`, `EditFails` | an edit such as `updateTestcaseRecord`: `putGuardedImmutableText`, then the transaction under the Problem lock |
| `DeleteProblem` | `deleteProblemRecord` |
| `ReadGeneration`, `ReadContext`, `CommitAcceptance`, `AcceptanceFails` | `prepareJudgeSnapshot` and `createJudgeExecution` |
| `EndExecution` | the execution becomes completed or cancelled |
| `ReadLegacy`, `GuardPinned`, `PutPinned`, `CommitCompaction`, `CompactionFails` | `compactJudgeSnapshot` |
| `BecomesDue`, `ClaimCleanup`, `CompleteCleanup`, `CleanupFails` | the outbox, as far as a cleanup row goes |
| `CheckReferences`, `DeleteObject` | `cleanupUnreferencedStorageObject` |

Abstractions. A problem has one versioned object at a time, which stands for
any of its pointers: the swap treats each of them alike. A version is a
randomUUID in the code and a number here that has not been used. The objects of
snapshots, stage results and sources have random keys, are guarded the same way
and referred to by one row, and are left out, as are images (with quotas and an
inventory of their own) and source manifests (whose children are removed with
them). The row has the states the swap and the guard look at; attempts, burial
and the fairness of the drain are those of `DurableWork`, so a cleanup that fails
20 times is a `CleanupFails` that is not followed by another try. `CleanupFails`
with `reported = FALSE` is a worker that dies, or one whose fenced update is
refused: the row stays leased and is claimed again. The check after
`getJudgeContext` (`judge-snapshot.ts:193`) only makes a failure come earlier.

`WithinGrace` says that an edit or a compaction ends within the hour
(`READER_GRACE_MS`) after it guarded its key or read the version it reuses. No
code enforces it: `cancel` also accepts a row that is leased, so the commit of a
writer that stalls for more than an hour can succeed while a handler that saw no
reference is about to delete the object. Everything else holds without it.

### DispatchGate

The executions of one student, numbered by `createdAt`. `exec[e]` is the row
(state, queue class, whether it is a rejudge, recovery epoch), `wf[e]` the
workflow of its current epoch, `row[e]` the outbox row of that workflow, `gate`
the calls of `executeJudgeExecutionDispatch` in flight, `due` the open executions
in the order of `nextAttemptAt`, `wake` the class `dispatchNextJudgeExecutions`
is at.

| Action | Code |
|---|---|
| `Accept`, `Cancel` | `createJudgeExecution` of a submission or a rejudge, which supersedes; `cancelRejudge` |
| `Finish`, `Demote`, `WorkflowDies` | `finishJudgeExecution`; `setJudgeExecutionState` of an execution that must wait; a workflow that closes without finishing |
| `WakeNext`, `WakeLost` | `dispatchNextJudgeExecutions`, one class at a time; the process that runs it dies |
| `ClaimRow`, `LeaseExpires` | the outbox, as far as a dispatch row goes |
| `ReadRun`, `CheckBlocker`, `StartWorkflow`, `GateFails` | the gate: the read of the execution, the look for a blocker, the start, and a failure before or after each |
| `SweepMissing`, `SweepRunning`, `SweepClosed` | what `reconcileJudgeExecutions` does with an execution of its page |

Abstractions. A gate run reads, looks and starts in three steps, and everything
may happen in between; `REJECT_DUPLICATE` makes the start idempotent. Time is the
order of `nextAttemptAt` only: a row that is put off goes to the end, a new one
is due now and comes before those that were put off (`InsertNow`). The lease of
an execution is `MayHoldLease`: it was started at least once. Executions become
visible in any order: the timestamp is taken by the request and the commit comes
later. `missed` is history: which older executions were not there yet when the gate
run that started an execution looked. The two safety properties speak of it, since
the gate cannot hold back what it started before a late commit. What nobody reads
any more is forgotten (`Ended`, `Forget`, the class of a run that has looked).

### SubmissionAcceptance

The requests of one student for one problem, in several contexts. `req[r]` is
where a request is, `row[r]` its `Submission` (`updated` is `updatedAt` as far as
the sweep may ask for it), `exec[r]` its execution, `session` the exam session,
`sweep` the run of `sweepStaleSubmissions`. `erred` and `swept` are history.

| Action | Code |
|---|---|
| `Arrive`, `Admit`, `Count`, `Insert` | the first transaction of `createQueuedSubmissionRecord`: `receivedAt`, the exam session under its locks, cooldown and daily limit under theirs, the pending row |
| `Publish`, `PublishFails`, `GiveUp`, `Die` | the second transaction, its failures, `completeIfInProgress` of the error path, and the death of the request |
| `Shows`, `Judge` | what judging writes to the submission |
| `SessionEnds` | hand-in or auto close, which the locks of `Admit` hold off |
| `SweepReads`, `SweepLooks`, `SweepKills`, `SweepFails` | the list of stale submissions, the look for an execution, the conditional update, a failure |

Abstractions. The transactions read committed data, so a check and its insert are
one step only under an advisory lock: `LocksFree` says which locks those are
(cooldown per context, daily limit per context and window) and is the guard of
`Count`. The outcome of `Publish` may be unknown to the request, which then goes
on to the error path. Uploading, the snapshot and the sources are the time between
`Insert` and `Publish`.

### LifecycleTimers and ExamSession

`sched[x]` is the window of an exam with its revision, `run[x]` the latest run of
its workflow, `rec[p]` a call of `reconcileLifecycleWorkflow`. A fingerprint is the
window it is made of. `part[x]` is the participation of the student, `session[x]`
the `ActiveExamSession` row, `entry[r]` a request that enters, `releasing` the
releases that have read an active session.

| Action | Code |
|---|---|
| `Reschedule`, `Ensure` | `updateExamRecord` with the replacement that follows it; one exam of the 5-minute reconciler's page |
| `Describe`, `Terminate`, `StartRun`, `RecFails` | the loop of `reconcileLifecycleWorkflow` around `decideLifecycleReconciliation`, eight rounds at most; a process that dies |
| `RunFails`, `AutoClose` | the workflow fails; its timer fires and `autoCloseForExam` runs |
| `Arrive`, `Lock`, `Enter`, `EntryFails` | `startSessionWithGate`: the look at the exam, the advisory lock of the student with the gate, the write |
| `HandIn`, `ReleaseReads`, `ReleaseWrites`, `ResetIpBinding` | `endSession`, `releaseSessionAsInstructor` (which takes no lock of the student), `resetStudentIpBinding` |

Abstractions. A run is terminated by its runId; a revision has one window, so
seeing the same revision twice is the same decision (`SeenRun`). A workflow that
fires and its activity are one step: the activity checks revision and window
again, which is `IsCurrent`. The unique index on active sessions is left out since
it only backs up the lock. Addresses, credentials and heartbeats are left out.
`Reverts` lets a schedule return to a window it had, `LateEntry` lets an entry be
written after the end; section 6 says what breaks with them.

### SlotSupplier

One `NodeLoadSlotSupplier`, an object on one event loop: a method is a step, and
methods come in any order. `AdjustOverloaded` and `AdjustHealthy` are the branches
of `adjust`, `Signal` is `signal`, `ReserveSlot`, `Abort`, `TryReserveSlot`,
`MarkSlotUsed` and `ReleaseSlot` the methods the SDK calls. `permit[c]` is what a
caller has, `quiet` is history. `Pauses` are in samples. A load is whether some
limit is exceeded; how it is measured is left out.

### TestcaseCache

One set of `KubernetesTestcaseCache`, found by its content hash. `index` is its
ConfigMap, `shards` the shard ConfigMaps with their owner, `run[r]` a stage with
what it read last, `sweep` one run of `collectTestcaseCache`.

| Action | Code |
|---|---|
| `Start`, `Loop`, `CreateIndex`, `Decide`, `UploadShard`, `Annotate` | `ensure`: the loop with its deadline, the creation that may conflict, the decision on what was read, the shards, and the conditional patch that touches or publishes |
| `CreatePod`, `Stop` | the stage that mounts the set, and its end, failure, abort or death |
| `ListIndexes`, `ListPods`, `DeleteIndex` | the sweep: two lists in any order, the deletion with its precondition |
| `Vanish`, `CollectShard` | the cluster: a marked index goes, and the shards whose owner is gone |

Abstractions. Every call to the API server is a step and so is every decision on
its answer. A `resourceVersion` is the record itself, since every patch changes
the state or the last use. There is one set and one sweep at a time (the code's `running`),
and a sweep that cannot delete the set ends at once. An error of the API or an
abort is `Stop`; a call of a dead stage that is still on its way is left out. The
clocks agree. `Touch + Setup <= Idle` is an assumption of the module: the code has
ten minutes, a setup bounded by the stage's deadline, and twelve hours.

## 3. The runs

| Run | Shows | Instance |
|---|---|---|
| `durable_work` | attempts, leases and results of the outbox agree, and every row is finished once workers stop dying | 2 kinds with a row each, 2 batches at a time, 2 attempts |
| `judge_rejudge` | rejudges that supersede, commit or are cancelled; verdicts come from finalizing; refinement of `JudgePromise`; leases that were left are released | 2 executions, 2 epochs, 1 stage, 1 token, 1 activity, late commits |
| `judge_live` | effects precede completion, a lease outlives its sandbox, and an execution ends once failures stop, unless a failure left a write guard (section 6) | 1 execution, 2 epochs, 2 stages, 1 token, 2 activities |
| `storage` | nothing that is referred to is removed; garbage has a row; acceptance pins the current version | 2 texts, 2 versions, 2 executions (1 of format 1), 1 edit, 2 handlers, compaction and deletion |
| `dispatch_gate` | one at a time and in order, but for what commits too late to be seen, and nobody waits for ever | 2 executions in either order of commit, 2 gate runs, 2 epochs, a page of 2 |
| `submission_acceptance` | cooldown and daily limit hold however checks interleave; nothing is inserted after the end of an exam; what the sweep gave up is not judged, and a verdict stays | 2 requests, an exam with a cooldown, an assignment with a limit |
| `exam_entries` | one active session, and a hand-in is final | 2 exams, 2 entries, 1 reconciliation |
| `exam_timers` | the current timer survives, closes nobody early and everybody in the end | 1 exam, 3 revisions, 2 reconciliations, time 0 to 3 |
| `slot_supplier` | no permit is lost, no waiter forgotten or overtaken, no pause cut short | 4 callers, budget 1 to 3, cooldown 2, pauses 4 and 2 |
| `testcase_cache` | a published set is complete, a Pod keeps its testcases, whoever asks gets an answer | 2 stages, 2 shards, 2 incarnations, time 0 to 4 |
| `judge_left_guard`, `judge_cancelled_rejudge` | the disagreements 1 and 2 of section 6 | the smallest instance that shows each |

Bounds. Two batches at a time are the smallest number with which a lease can be
taken over while its first holder still runs; two attempts separate the retry
from the burial. Two activities are one live and one abandoned; two epochs are
one workflow and its replacement; two stages separate a checkpoint that goes on
from the last one; two executions are a result and its rejudge. `MaxEpochs`
also bounds the sweeper's termination of stalled workflows, so that the last
epoch is not terminated for ever. `MaxExecs` bounds `Accept` and `Rejudge`,
`Tasks` the activities in flight, `Tokens` the lease tokens (a fresh one is one
to which nobody refers). In `StorageLifecycle` two versions are one that is
current or retired and one that is staged, two handlers one that lost its lease
and one that took it over, two texts one that the compaction can reuse and one
that it must store. Two gate runs are one that looked and one that starts
meanwhile, and the page holds all executions, since a smaller one starves
(section 6). Two requests are enough for two to pass a check together; the
horizon of `SubmissionAcceptance` lets the sweep reach whatever the last request
left. Three revisions are a timer, its replacement and one that arrives too late;
`MaxRounds` is eight in the code, and three let two reconciliations undo each
other's work. Four callers for three slots leave somebody to overtake. Two
incarnations of the testcase set and one deletion let old shards meet a new set.
The proofs of section 4 hold without the bounds. Symmetry is used for tokens and
tasks in the run with a finding, for editors, cleaners and texts, and never with
liveness.

Deadlock is checked in every run but five. In `storage`, `dispatch_gate`,
`submission_acceptance`, `exam_entries` and `exam_timers` the system comes to
rest: when all versions are used, all executions have ended, time is over or no
request is left, nothing remains to be done.

### Fairness

`DurableWork`: the cron schedule starts the drain every minute and Temporal
runs a started batch, so launching, scanning, handlers and fenced updates are
weakly fair, and time passes. Nothing is assumed of callers, crashes or
timeouts. `WorkSettles` assumes that these stop, and
has one row per kind: within a kind the oldest `availableAt` goes first, and
since a reactivated row keeps its old one, a row that is reactivated for ever
could keep a younger row of its kind waiting. Between kinds the rotation must
and does prevent that. `Disturbance` names what is assumed to stop: crashes,
timeouts, lost leases, and reschedules that put a row off.

`DispatchGate` (`FairSpec`): a started gate run goes on, the wake-up goes on, the
sweeper runs every minute, leases expire and a workflow finishes or dies; the
claim of a row is strongly fair since all handlers may be busy now and then.
`AcceptedIsJudged` assumes that gate runs stop failing and wake-ups stop being
lost (`Fault`); that the wake-up of one class may find nobody, or everybody
leased, is not a fault.

`SubmissionAcceptance`: time passes and the sweep runs every minute; its steps are
strongly fair per submission because a sweep may fail on another one. Nothing is
assumed of requests: each of them may die at any point, or never go on.

`ExamSession`: time passes, reconciliations that run go on, the timer of a run
fires; the reconciler gets to each exam it lists strongly, since the processes
that reconcile may all be busy. `EndedIsClosed` assumes that reconciliations and
timers stop failing. Nothing is assumed of students and instructors.

`SlotSupplier`: stages end and the SDK returns unused permits, so `ReleaseSlot`
is weakly fair; samples and signals are not, the budget need never grow.

`TestcaseCache`: time passes and a stage that is neither aborted nor dead goes on.
Nothing is assumed of the sweep, nor that the cluster removes what it has marked.

`JudgeExecution` (`FairSpec`): Temporal runs every workflow and activity on and
reports those whose worker died; the outbox and the minute sweeper run again and
again; a lease that nobody renews lapses. Strong fairness is assumed where a
retry loop visits a step again and again: the activity queue serves a stage and
a completion in the end, the reconciliation is safe in the end, the gate opens
in the end. `ExecutionEnds` and `ExecutionEndsOrLeftGuard` assume that failures
stop; `Fault` names the steps that are failures and not also what happens
without one. The first is what the documents say and fails (section 6); the
second is what the code achieves. `LeftLeaseIsReleased`
(`CleanupSpec`) does not, and needs only that activities end, leases lapse and
the sweeper looks for them.

`StorageLifecycle` (`FairSpec`): the outbox claims a due row again and again
(strong, since a row that is retired once more is not due for a while) and runs
its handler on; an edit or a compaction that began ends, well or not, and the
compaction is started again; the grace hour passes. No passing run uses it: it is
there for `LegacyIsCompacted` (section 6). That a row which exists is handled in the end is
`WorkSettles` of `DurableWork`; `GarbageHasRow` says that garbage has one.

## 4. Proofs

TLAPS checks the theorems for every value of the constants that satisfies the
named assumptions of the module. All proof modules are built alike: lemmas on the
operators and row updates, one lemma per action (or one frame lemma for the
actions that change one row), `Init => IInv`, `IInv /\ [Next]_vars => IInv'`, and
a temporal step by PTL. Every module has a `TypeCorrect`; the types
are proved only and no run checks them.

`DurableWorkProofs`. The inductive invariant `IInv` is `TypeOK /\ RowsInv`.
The safety invariants of the run are not inductive by themselves: that a row
succeeds only if it was served depends on the batches that may still complete it.
`ReturnedWasServed` adds that a batch whose handler returned, and which still
holds the lease, is one whose run is recorded as served, and `HandledRowExists`
that a batch handles a row that exists. Proved: `AttemptsBoundRuns`,
`SuccessIsServed`, `DeadIsTried`, `FenceNamesClaimer`, and the action property
`FinishedIsStable`.

`JudgeExecutionProofs` is built in layers; each invariant is inductive together
with those before it, and TLC checked each of them on instances of `judge_live`
and `judge_rejudge` before it was proved.

- `IInv` is `TypeOK /\ FenceInv`. `TypeOK` is a real claim here: the number of
  checkpoints stays within the stages, which needs that an activity that saves
  has an index below the number of stages (`StagesHaveLeases`).
  `OpenExecutionOwnsSubmission` needs that activities and workflows belong to
  executions that exist (`ActivitiesHaveRows`), so that a late answer cannot
  create one, and `CompletedIsFenced`, that a completed execution has no lease,
  so that no late checkpoint reopens it. Proved: `OwnerIsFenced`.
- `JInv` adds what an activity is to the workflow that waits for it (`SlotInv`:
  each has its own, of its own epoch), that the submission names the open execution
  or none once its verdict is there (`OwnerInv`), and that a workflow past
  publishing has nothing left to publish (`SettledInv`): an answer "nothing to
  publish" means that a late activity committed or that the execution ended.
  Proved, late claims and late commits included:
  `VerdictBeforeCompletion`, `ResultIsVisible`.
- `FinalInv` ties a workflow to its row: past the last stage the row is finalizing
  with a checkpoint, and no activity that is still to claim is left behind by a
  workflow that went on. This is false when a claim that Temporal gave up may
  arrive (`LateClaims`, section 6, item 4), so the theorems assume
  `~LateClaims`, which is the program without that disagreement. Proved:
  `VerdictIsDecided` and `PromiseIsKept`: the initial states map to those of
  `JudgePromise`, and every step to a step of it or a stutter.
- `ScoredInv` follows the answer of the effects from the commit to the row. It
  needs that no commit survives its workflow's timeout, hence `~LateCommits`
  (section 6, item 5), but holds with late claims. Proved:
  `EffectsBeforeCompletion`.
- `TokenInv` says that no two activities share a token, that one about to give up
  its lease has nothing live under it, and that one that ended names a token only
  when a deferred cleanup still keeps it. `LeaseInv` adds what the workflow knows of
  the lease: it is gone while the job is queued and once the workflow finishes, and
  otherwise that of the activity it awaits, of the token it reconciles, or of the
  cleanup it left behind. `LeaseInv` rests on `FinalInv` (who is still to claim is
  awaited, or its workflow is closed), hence `~LateClaims`. Proved: `LeaseIsLast`.

`StorageLifecycleProofs`. `IInv` is `KeyInv /\ AcceptanceIsCurrent`. That no
reference dangles needs, under `WithinGrace`, that the current version has no
cleanup under way (`CurrentIsQuiet`), that a row that is due belongs to a key no
writer holds (`DueIsUnused`), and that this stays so for a handler that lost its
lease and still runs (`HandlersAreSafe`): once it saw no reference there can be
none later, since only the current version is ever pinned anew. `EditsAreFresh`
keeps two edits from each other's key. `AcceptanceIsCurrent` relates what an
acceptance has read to the generation it read first. `GarbageInv` adds for
the converse, that what is not referred to has a row: whoever is about to store
an object has guarded its key (`WritesAreGuarded`), an edit never stores the key
of a compaction (`VersionsAreApart`), and an execution gets its pins once, by its
acceptance or by a compaction (`PinsAreFinal`), so that only the end of a
reference has to enqueue a row. Proved: `ReferencesHold` and `GarbageIsKnown`
(assuming `WithinGrace`), and `AcceptancePinsCurrent` without an assumption.

`DispatchGateProofs`. A gate run that found no blocker has nothing older before it
but what it missed (`Clear`), and this stays true until it starts: work only ends
or goes to the background (`Steady`), and what is accepted later is younger or was
missed. `StartFacts` carries it over to what was started. A rejudge is background
work from the start, and a submission only after it was started once (`ExecFacts`),
which is what tells the two kinds apart in `Overtaking`. Nothing is assumed of the
order of commits. Proved: `Single` (`OneAtATime`), `Overtaking`
(`InAcceptanceOrder`).

`SubmissionAcceptanceProofs`. Most of `IInv` is about one request, its row and
its execution (`RowOk`), and `OneRow` serves all steps of one submission. The
cooldown needs what a request that has counted knows (`LimitOk`): everything
inserted is earlier by more than the cooldown, and no second request of the
context is between count and insert. The sweep needs `Spared`: whoever it is about
to give up has no execution, or was published after the cutoff was fixed, so that
the second condition of the update fails. `Held` keeps the session open while a
request is let in. Proved: `CooldownHolds`, `GivenUpIsNotJudged`,
`ClosedExamsStayClosed`, `VerdictStays`. For the daily limit (`DailyLimitHolds`)
the invariant is about requests that have not inserted yet: one that counted and
found room has its place reserved, and `LimitInv` bounds the rows of a window
and the reserved places together. That a request reserves in one window only, the
one it counted, is the uniqueness of quotient and remainder (`Remainder`,
`StartOfWindow`); the bound itself is arithmetic on cardinalities
(`FiniteSetTheorems`) and needs that `Requests` is finite (`RequestAssumption`).

`ExamSessionProofs`. `IInv` is `TimerInv /\ SessionInv`. A reconciliation never
knows a revision newer than the schedule's, and one that is about to terminate a
run saw one that is older than, or of another window than, its own, so that it
never names the current one (`CurrentTimerIsSpared`); of the sessions, a request
that holds the lock saw no other session, and nobody becomes active without it
(`SessionsExclude`); a participation that was handed in stays so, whatever reason
the session shows (`HandInIsFinal`); the check of revision and window gives
`NobodyIsClosedEarly`.

`SlotSupplierProofs`. The counters are cardinalities of sets of callers, and waking
moves a prefix of the queue into one of them; `QueueIsExact` (nobody twice in the
queue) makes the two sizes equal. Proved: `CountersAreExact`,
`NobodyWaitsBesideASlot`, `GrantsFitTheBudget`, `PausesAreKept`,
`NobodyIsOvertaken`.

`TestcaseCacheProofs`. Shards are named after the incarnation, so those of a
deleted one neither count for nor spoil a new one (`PublishedIsComplete`). A stage
that was answered less than a setup ago, or has its Pod, keeps the sweep from the
set: either the use is too recent to be collectable, or the Pod is listed, or the
precondition of the deletion fails (`PodsKeepTheirTestcases`, which rests on
`Touch + Setup <= Idle`).

Only model-checked: liveness (`WorkSettles`, `ExecutionEndsOrLeftGuard`,
`LeftLeaseIsReleased`, `AcceptedIsJudged`, `PendingIsResolved`, `EndedIsClosed`,
`EveryReservationIsAnswered`, `EnsureEnds`): fairness and ENABLED are out of the
prover's reach. Every other property of the passing runs has a theorem.

## 5. Not modelled

* Scopes, permissions and progress views of rejudges; the grouping of stages and
  the contents of verdicts; retention pruning; images, source manifests and quotas
  of the bucket.
* Kubernetes and Docker calls but those of the testcase cache. The sweep of
  orphaned run payloads (`testcase-cache-gc.ts:131`) is safe only because a
  setup is much shorter than the age it asks for; a model would assume just that.
* Exam credentials, IP bindings and heartbeats; reminders and the effects of the
  timers of contests and assignments, which are reconciled as those of exams are.
* Scoring, output comparison and plagiarism, which are sequential computations on
  data; score overrides, API tokens and step-up, which are single transactions.
* The web application, the sandbox runner, the registry, and the thin clients of
  Redis, the bucket, the mailer and Docker: request handling and I/O. Most of the
  repository's lines are of this kind (pages, components, seeds, scripts).

`PROJECT.json` has the status and the reason of every component.

## 6. Where the code and its documents disagree

Runs show these:

1. *A failed commit is never retried with success* (`judge_left_guard`).
   `completeJudge` (`judge-lifecycle.ts:31`) enqueues the write guard of an
   object named after the workflowId. When the attempt then fails to store the
   object or to commit, every later attempt of the epoch finds a row whose
   `availableAt` differs from its own and throws. The workflow retries for ever,
   which is progress to the sweeper, and a rejudge is refused while the
   execution is finalizing (`docs/decisions/judge.md:106`,
   `docs/architecture/JUDGE_PIPELINE.md:102`). Only a termination of the
   workflow by hand, or a stall of it, gives the execution a new epoch.
2. *A cancelled rejudge leaves a system_error that nobody retries*
   (`judge_cancelled_rejudge`; `docs/decisions/judge.md:106`). `dispatchRejudge`
   accepts a submission whose execution is recovering and cancels it; cancelling
   the rejudge restores `system_error`.

The passing runs leave out more, each behind a constant or a definition that is
named; with the values given, TLC finds the property violated:

3. *Some snapshots are never compacted* (`LegacyIsCompacted` under `FairSpec`;
   `Texts = {a, b}`, `MaxVersions = 1`, `Execs = Legacy = {x, y}`, one editor, one
   cleaner, `Deletable = FALSE`). The compaction guards a key named after the
   content before it looks whether the object exists
   (`judge-snapshot-compaction.ts:135`). A second execution with the same text, or
   a run that stopped after the guard, finds a row with another `availableAt` and
   throws on every run (`docs/decisions/judge.md:113`,
   `docs/runbooks/judge-queue.md:130`).
4. *A late claim undoes finalizing* (`LateClaims`). `claimJudgeLease`
   (`judge-admission.ts:14`) refuses cancelled and completed executions only. A
   claim that runs after Temporal gave the activity up, and after the requeued
   attempt checkpointed the last stage, sets a finalizing execution to running;
   `createJudgeExecution` and `cancelRejudge` protect finalizing ones only, so
   they cancel an execution whose verdict is committed and not finalized
   (`docs/operations/RELIABILITY.md:145`). `judge_rejudge` with `LateClaims` and
   a second activity violates `KeepsPromise`. With the claim, the execution also
   commits from a state other than finalizing, and finishing it drops the lease of
   the late claim before its sandbox is gone; `VerdictFromFinalizing` and
   `LeaseOutlivesSandbox` are therefore checked, and proved, without late claims.
5. *A late commit skips the effects* (`LateCommits`). When the timed-out
   attempt of `completePinnedJudge` commits between the two reads of its retry
   (`judge-execution.ts:248`, `judge-lifecycle.ts:24`), the retry answers null,
   and the workflow completes the execution without scores and notification
   (`RELIABILITY.md:145`). `judge_live` with `LateCommits` violates
   `CompletedIsScored`.
6. *An object can stay for ever* (`problem.alive` in `GarbageHasRow`).
   `commitStoragePointerSwap` leaves a removed pointer's row alone when it is
   leased (`storage-object-lifecycle.ts:128`). If its handler has already found
   the object referenced, it completes the row and nobody removes the object
   (`docs/operations/SECURITY.md:139`). With the objects modelled here it takes
   the deletion of the problem: without one, only the current version loses its
   reference, and that one has no cleanup under way.
7. *A full page starves* (`SweepLimit = 1` in `dispatch_gate`: `AcceptedIsJudged`
   fails). An execution without a workflow keeps its `nextAttemptAt`
   (`judge-recovery.ts:150`), so executions that wait behind a blocker stay at the
   head of the sweeper's page (`judge-recovery.ts:107-114`), and those beyond it
   are not looked at, though the blocker may be among them (`RELIABILITY.md:146`,
   `docs/runbooks/judge-queue.md:112-121`). It takes 100 of them.
8. *The gate promises less than JDG-12* (`docs/decisions/judge.md:136`,
   `docs/runbooks/judge-queue.md:36`: at most one dispatched execution of a
   student). An execution that is demoted keeps its workflow, so that foreground
   work starts beside it, and background work of the two kinds may overlap. And a
   submission whose transaction commits late has an older `createdAt` than one
   that already passed the gate, and nothing blocks it: two submissions of one
   student run at once, or the younger one first. `OneAtATime` and
   `InAcceptanceOrder` say what remains; without the exception `x \in missed[e]`
   TLC finds both violated.
9. *A session can outlive its exam* (`LateEntry = TRUE`, one exam, `MaxTime = 2`,
   `MaxRevision = 1`, one reconciliation, one request: `EndedIsClosed` fails). A
   request that was let in before the end writes its session after the timer has
   fired (`session.ts:352`, `participation.ts:184-205`); the reconciler still
   lists the exam, but a run that completed for the same window is kept
   (`lifecycle-reconciliation.ts:64-69`), so nothing closes the session
   (`docs/features/exams.md:109`, ASM-19).
10. *A schedule that returns to an old window* (`Reverts = TRUE` in `exam_timers`).
    A run that was started for that window under an older revision is kept, since
    the window is the same, but its activity compares revisions
    (`session.ts:253`) and closes nobody; completed, it is still kept for the
    window. The exam is not closed.
11. *A system error is not counted* (`Clean` in `CooldownKept` and
    `DailyLimitKept`). While a submission shows `system_error` it counts neither
    for the cooldown nor for the daily limit, and recovering work shows a verdict
    later; a day may then have more than its limit
    (`docs/features/assignments.md:98-100`, PRB-16 and PRB-22 of
    `docs/decisions/problems.md:183,245`).
12. *An accepted submission can show a failed upload.* When the outcome of the
    publishing transaction is unknown, the error path writes `system_error` over a
    queued submission (`creation.ts:470`) until judging writes again.
    `VerdictIsKept` says that a verdict is safe from it.

## 7. Plan

Done: `DurableWork`, `JudgePromise` and `JudgeExecution`, `StorageLifecycle`,
`DispatchGate`, `SubmissionAcceptance`, `LifecycleTimers` and `ExamSession`,
`SlotSupplier`, `TestcaseCache`, each with proofs.

Left, in this order:

1. Images and source manifests in `StorageLifecycle`, an abstract specification of
   a bucket without garbage, and reclamation as a liveness property.
2. The effects of the timers of contests and assignments; exam credentials and IP
   bindings.
3. Scoring and output comparison as functions, checked against reference
   definitions over bounded inputs.

# MARE central service: formal models

MARE is a unified file manager. A central Go service (`services/center`) keeps
a catalogue of assets and of their replicas on storage endpoints in PostgreSQL
and does all long work as jobs; agents (`services/agent`) give it access to the
machines media are imported from; a Tauri/React client (`client`) drives it
over HTTP. This directory holds TLA+ models of the parts whose behaviour
depends on the order of concurrent steps, the TLC configurations that check
them, and proofs of their main theorems.

Paths below are relative to the repository; `center/` abbreviates
`services/center/internal/`.

## 1. Inventory

| Component (code) | State | Operations | What is hard | What makes it correct |
|---|---|---|---|---|
| Job engine (`center/jobs`) | tables `jobs`, `job_items`, `job_attempts`; the worker's position and snapshot; `runningItems` | create, pause, resume, cancel, retry, reprioritise a job; pause, resume, cancel an item; the worker's claim, start, finish, finalise; recovery | worker and handlers interleave between transactions; late interrupts; crashes; errors that are dropped | finished work is never redone; verdicts and counters are true; nothing is stuck; user decisions are kept |
| External transfer tasks (`center/jobs/service_external_*.go`, `center/integration/downloader_aria2.go`, `center/assets/heavy_ops_cloud.go`) | the external-task columns of `job_items`; the aria2 or CloudDrive2 task list | enqueue, record, wait, recover; pause, resume, cancel from controls | two engines without a common transaction; the record may be missing or stale | at most one live transfer per destination; a replica is recorded only after its transfer completed; cancelled work stops |
| Issues (`center/issues`) | `issues`, `issue_events`, counters on `jobs` and `issues` | synchronise after a job or scan; retry, ignore, confirm, postpone, archive | derived state recomputed by several callers; partial failure between an action and the job call it makes | an issue is open exactly while its cause persists; one issue per cause |
| Notifications (`center/notifications`) | `notifications` | upsert from an issue or a job, mark stale | select-then-insert without a lock; late synchronisations | notices agree with the issue or job they are about |
| Governance scheduler (`center/governance`) | `next_auto_scan_at`, `next_heartbeat_at` of mounts | tick: claim due mount, create job | claim and creation are separate transactions | every due mount is scanned, none twice |
| Job event stream (`center/jobs/broker.go`, SSE in `center/http/router.go`) | subscribers' buffers, `job_events` | publish, subscribe, cancel | full buffers | - (events may be dropped; state is loaded again) |
| Asset catalogue (`center/assets`) | `assets`, `asset_replicas`, `directories` | scan, replicate, verify, delete a replica or asset, rename, tag | scans race with transfers and deletions | a replica marked available exists; an asset with a replica is not deleted |
| Import sessions (`center/importing`, `agent/importing`) | `import_*` tables, transfer state on the agent | discover, browse, plan, start, report | device vanishes, agent restarts | each selected file is imported once or reported |
| Agent registry (`center/agentregistry`) | `agents` | register, heartbeat, list with age | ordering of registrations | an agent shown online was heard of recently |
| Storage nodes (`center/storage`) | `storage_nodes`, `mounts`, credentials | CRUD, connection tests, scan plans | external probing during edits | mounts in use are not deleted |
| Integration providers (`center/integration`) | `cloud_integrations`, CloudDrive2 session | log in, list, upload, download | external service | - |
| Tags (`center/tags`) | `tags`, `tag_groups`, scopes | CRUD, merge | few | names unique within scope |
| Migrations (`center/db`) | `schema_migrations` | up | crash between migrations | each migration applied once, in order |
| HTTP layer, wiring, runtime status (`center/http`, `center/app`, `center/runtime`) | none of their own | decode, route, start, stop | shutdown order | - |
| Agent process (`services/agent`) | identity file, transfer state | register, heartbeat, serve files | reconnects | - |
| Client, contracts, generated code | - | - | - | - |

How they interact: handlers in `center/http/router.go` call the services; the
services create jobs through `jobs.Service.CreateJob`; the single worker
goroutine runs the executor registered for the job's intent
(`center/app/app.go`), which updates the catalogue and drives external
engines; after a job settles the engine calls `issues.SyncJobIssues` and the
notification service; every change is published through the broker to the
clients' event streams.

## 2. Modules

| Module | What it is |
|---|---|
| `JobEngine` | the job engine: worker, controls, interrupts, crash, recovery, database faults; its properties |
| `ExecutionLedger` | what the engine promises about executions, as an abstract specification |
| `JobEngineProofs` | theorems about `JobEngine` and their proofs |
| `JobEngineRunningProofs` | the theorem that a RUNNING job is being worked on |
| `CloudDownload` | `JobEngine` joined with the download executor, aria2 and what controls do to aria2 |
| `CloudDownloadProofs` | theorems about `CloudDownload` and their proofs |
| `IssueCentre` | issues, counters and notices: the pipelines of worker and callers, statement by statement where others can come in between |
| `IssueCentreProofs` | theorems about `IssueCentre` and their proofs |
| `IssueCentreSettleProofs` | the theorems that its counters and notices are right once the pipelines are through, and that pipelines end |
| `Catalogue` | assets, replicas and the files they describe, under copies, uploads, deletions, scans and whoever else changes files |
| `CatalogueProofs` | theorems about `Catalogue` and their proofs |
| `Governance` | the scheduler of scans and connection tests, mount settings, issues of missing replicas |
| `GovernanceProofs` | theorems about `Governance` and their proofs |
| `GovernanceExpectations` | what a document says of governance and the code does not keep |
| `ImportSession` | imports: draft, submission and executor in the center, the copies of the agent |
| `ImportProofs` | theorems about `ImportSession` and their proofs |
| `ImportExpectations` | what the code says of imports and does not keep |
| `MCJobEngine`, `MCCloudDownload`, `MCIssueCentre`, `MCCatalogue`, `MCGovernance`, `MCImportSession` | instances for TLC |

How they are composed: `CloudDownload` extends `JobEngine` and joins their steps.
The other components meet the engine at a narrow place (an item is executed,
one at a time, and may be executed again; a job is queued, controlled and
settles), and each module states that place as its own few actions, in which
everything is allowed that the engine's model shows to happen there.

`PROJECT.json` maps the definitions that model code to their lines.

### 2.1 JobEngine

State. `job`, `prio`, `item`, `attempts`, `backoff`, `counts` and `openRuns` are
the tables; `pc`, `wjob`, `witem`, `todo`, `ready`, `late` and `outcome` are
where `executeJob` stands and its local variables; `sums` are the counters `refreshJobAggregate`
has read and not yet written; `running`, `stopped` and
`signals` are `runningItems`, the context of the executor, and the calls of
`interruptRunningItem` that a handler makes after its commit.

Actions. One per control operation (`PauseJob` ... `CancelJobItem`), one per
transaction of the worker (`Claim`, `CreateJobAttempt`, `LoadItems`, `Visit`,
`StartItem`, `FinishItemCompleted`, `FinishItemFailed`, `FinalizeJob`, ...),
and one for each in-memory step that others can observe (`Interrupt`,
`RegisterRunningItem`, `ExecutorReturns`). `Fault` is a database call of the
worker that fails, with the continuation `executeJob` gives it; `Crash` and
`Restart` lose and restart the process.

What is abstracted, and why it is sound:

* A transaction is one step. Controls, `finishItemFailed` and `finalizeJob` select the job
  FOR UPDATE, and `startItem` inserts an attempt, which locks the job row against them
  through the foreign key. `finishItemCompleted` locks its item first and the job only in the
  UPDATE of its counters: a control that writes the same item waits for it, or the two
  deadlock and one is rolled back; one that writes only other items (`PauseJobItem`,
  `ResumeJobItem`, `CancelJobItem`) or none (`UpdatePriority`) touches neither COMPLETED nor FAILED
  ones, so that the counts are the same on either side of it. A transaction aborted by the database, as
  deadlock victim or otherwise, is `Fault` for the worker and no step at all for a handler.
* `refreshJobAggregate` is the exception: a transaction that counts the items in a SELECT and
  then updates the job, without having locked anything before. It follows an interruption
  (`handleItemExecutionInterruption`) and `cancelPendingItems`, and is two
  steps, `SelectCounts` and `UpdateCounts`, between which controls may commit.
* `FOR UPDATE SKIP LOCKED` in `claimNextJob` passes over a job whose row is
  held: while a client may still call controls the worker may take any
  claimable job (`MayBeLocked`).
* The items of a job are created in one transaction and share `created_at`, by
  which they are ordered, so the loop visits them in any order.
* A graceful shutdown cancels the context every database call uses, so nothing
  is written after it: it is a `Crash`.
* Whether an error message is one `shouldAutoRetry` accepts is left open.
* Events, progress figures, timestamps, published messages and the
  synchronisation of issues and notifications are left out; none is read back
  by the engine.

### 2.2 ExecutionLedger

A log of attempts per item, the set of items that are done, and the item being
executed. `JobEngine` implements it (`ImplementsLedger`) under the mapping `log` =
item-level attempts, `done` = COMPLETED items, `active` = the item in the
worker's hand between the commit of `startItem` and the next turn of the loop.

### 2.3 CloudDownload

The module extends `JobEngine`: every engine step occurs in it, joined with its
effect on the downloads, and `ExecutorReturns` is resolved into the calls
`executeCloudDownloadTask` makes.

State. `tasks` and `forgotten` are aria2's: the downloads it was given (a gid is an
index) and those it no longer knows. `record` is the latest external-task
event of each item, `replicas` the catalogue's rows, and `dl`, `gid`, `unpause` are
where the executor stands and its local variables.

Actions. `LoadExternalTaskState`, `Enqueue`, `RecoverTask`, `UpdateExternalTask`,
`ResumeTask`, `Wait`, `UpsertDownloadedReplica` and `DownloadReturns` are the
executor; `PauseDownloads` ... `CancelDownload` are the six control operations with
the calls they make to aria2 before they commit (`TellTasks`), or with some of
these calls made and the operation then aborted (`Abort`); `TaskEnds` and
`TaskForgotten` are aria2. aria2 is not restarted by a `Crash`.

Abstractions:

* A download that aria2 has queued counts as active: both are paused, resumed
  and removed alike.
* A request that aria2 cannot carry out in the download's state is answered with
  an RPC error (pause of one that is not active, unpause of one that is not
  paused, removal of one that has stopped).
* After a pause `tellStatus` reads "paused".
* A call with a cancelled context fails, and a lost call fails (`Lapse`); a
  failed call has changed nothing at the other end.
* Records are ordered by their commits. `created_at`, by which the code orders
  them, is taken when a handler starts.
* A gid belongs to one item: items of different files have different
  destinations.
* Progress, speed, addresses and headers are left out; whether
  `aria2.changeUri` succeeds on a failed download is left open.

### 2.4 IssueCentre

After each of its transactions the engine calls `syncJobIssues` and
`syncJobNotifications` (`center/jobs/issue_sync.go`). The first is one
transaction (`SyncLoad`, `SyncWrite`) followed by statements on connections of their own
(`CountJob`, `StoreJobCount`, `CountItem`, `StoreItemCount`, then `NoticeLoad`, `NoticePost`);
the second projects the notices once more. `NoticeLoad` reads the issues and the notices there are,
`NoticePost` writes by what was read, in one transaction. The same tail follows the actions of
users (`ApplyAction`, `ClearHistory`), for each job they touch (`NextJob`), and after a retry
the jobs are retried one by one (`RetryJob`).

State. `job`, `item`, `issue`, `notice`, `reminder` are the tables, reduced to the columns the
pipelines read; `hand`, `todo`, `due`, `doing` are the worker's loop; `th` holds, for the
worker and each caller of the API, the step of its pipeline and what it has
read. The engine is reduced to the transactions that start a pipeline or change
what one reads; its own interleavings are `JobEngine`'s.

* `Free`: `loadJobSnapshot` selects the row of the job FOR UPDATE, and every
  transaction that changes the job or an item of it waits, because it updates the
  job, locks it, or inserts an attempt that refers to it. `cancelPendingItems` is the
  exception: a single UPDATE of items. The lock is held from `SyncLoad` to the commit in
  `SyncWrite`. Issues are looked up without a lock, and nothing in the schema
  makes dedupe keys unique.
* `Streaming`: pgx refuses a statement on a connection whose rows are still being
  read. `resolveNoLongerDetectedIssues` does this in its transaction, so a sync
  that must resolve an issue rolls back. The constant is TRUE in every run and
  left open in the proofs, which therefore hold also of code that reads the rows first.
* A dedupe key is what is concerned, the type and the error of the failure; labels
  are reduced to `ObjectOf`. That the refresh erases an item's error, after which the
  same failure has another key, follows from `StoreItemCount` and `ItemKey`.
* A notice is looked up and written in two statements. What came in between shows in
  `NoticePost`: an INSERT may find that the notice is there by now (primary key), or
  that its issue is not (foreign key), and the projection ends there (`Refused`); an UPDATE
  writes over what another pipeline, perhaps of the job that took the issue over, has put there (`Stale`),
  or over nothing, when the notice was deleted. Which lookups came before the other pipeline's
  write is left open (`late`). The query that leaves an unchanged notice alone
  never finds one, because it compares the stored JSON with a differently
  formatted text; so every projection writes.
* `slips` is a history variable: jobs whose last pipeline was disturbed, that is,
  overlapped by another pipeline of the job, cut short by a failure or a crash, deprived
  of an issue that another job took over or whose notice it wrote to, or passed over by an automatic retry that took the job out of
  CANCELED. Counters and notices are derived data that nothing else repairs: in these
  cases they may stay wrong until the next pipeline of the job, and
  `CountersSettle` and `NoticesSettle` say that in no other case they do.
* Left out: PAUSED jobs and the pipelines of pause and resume (which only project
  notices), postponing, texts and times; issues of missing replicas are in `Governance`. Which of several
  active issues is the latest is left open.

### 2.5 Catalogue

Files are changed first and their rows afterwards, in a transaction of its own;
a scan rewrites the rows of a mount from what its walk has found. One worker
does all of this, item after item, and may be stopped between any two steps.

State. `files` is what lies on the mounts, `asset` and `replica` are the tables,
`tasks` the job items with the link to the row they name (`linked`; the database
drops links with their rows). `at`, `cur`, `meta`, `held`, `left`, `seen`, `where` are where the worker
stands and its local variables; `razing` is the handler that removes a directory.

Actions. `RequestReplicate`, `RequestUpload`, `RequestDeleteReplica`,
`DeleteEntry` with its second statement `MarkPending`, and `Retry` are users;
`Begin`, `StatSource`, `OpenTarget`, `CopyEnds`, `Register`, `CleanStaging` a copy or an
upload; `BeginDeletion`, `DeleteFile`, `DropRows` a deletion; `Walk` and `Index`
a scan; `BeginRaze`, `RazeMount`, `RazeEnds` the removal of a directory; `Edit` is somebody
at a mount; `Fail` and `Crash` stop the worker anywhere.

* A plan is made from rows and the job created in a transaction that refuses links
  to rows that have gone, so the two are one step: the plan ages while the
  job is queued, which is any length of time.
* A job is one item and the queue has no order; `JobEngine` has both.
* The assets share one directory. Size and time of modification are one
  `content`; two files with the same of both are the same to the program.
* An executor that has been interrupted returns an error: `Fail`.
* A local directory is removed only when empty; one on a NAS goes with everything in
  it (`RazeMount`). A local file that is not there is deleted without complaint,
  one on a NAS is not (`Refused`).
* `stray` and `broken` are history variables: what somebody outside, or an item that
  was stopped, has left behind since a scan or an item last put it right.

### 2.6 Governance

State. `policy`, `next`, `line`, `scanned`, `beat`, `nextBeat` are columns of mounts
(`line` is the order the claim's query sorts by), `jobs` and `beatJob` the scheduled
jobs, `half` a handler between two statements, `tick` and `claimed` where
`Tick` stands; `present`, `row`, `issue` are a file of the mount, its replica's
state and the issue about it.

Actions. `TickBegins`, `ClaimScan`, `CreateScan`, `ClaimBeat`, `CreateBeat`, `SyncMissing`
are the tick, `TickFails` any of its statements failing; `StartScan`, `EndScan`,
`BeatEnds` the worker; `ControlJob`, `SaveLocalFolder`, `DeleteLocalFolder`, `SetBeatPolicy` and
`SetBeatTime` (one handler), `ActOnIssue` users; `ComesDue`, `BeatComesDue` time.

* Times are never, to come, or due; `line` keeps their order. Intervals are
  hours, so what a loop has put off does not come due while the loop runs.
* A job that has ended leaves no trace but the claim's question for active ones; failed
  and cancelled ones can be retried and stay in view. `Slots` bounds those in view.
* `runMountScan` updates the mount and then inserts the history: a scan that fails may or may not
  have been written down (`EndScan`).
* `SyncMissing` resolves under open rows and rolls back, as
  `resolveNoLongerDetectedIssues` does in `IssueCentre`.

### 2.7 ImportSession

State. `connected` is the device, `session` and `gone` what the center believes of it;
`library`, `sel`, `lost` are the draft; `submit` and `order` are where `Submit` stands and what it
is about to create; `jobs` and `report` are its results; `counted` and `brought` are histories of what
each job's report has counted and its execution has registered; `work` is the executor, `calls` what the agent is doing,
`dest` the files on the targets, `replica` those in the catalogue.

Actions. `RefreshSessions`, `SetDraftLibrary`, `SaveSelectionTargets`, `BuildSelectionPrecheck`,
`RefreshPrecheck`, `LoadSelections`, `CreateJob`, `CreateReport` (the reads and transactions of
`Submit`, `SubmitFails` each of them failing); `StartItem`,
`CallAgent`, `TimeOut`, `RecordReportFileOutcome`, `IngestImportedReplica`, `NextFile`,
`AllFilesDone`, `EndItem` are `ExecuteImportJobItem`; `BeginTarget`, `Truncate`,
`CopyEnds`, `CopyFails` the agent's `ExecuteImport`; `Pull`, `CenterCrashes`, `StatementFails`,
`AgentCrashes` what goes wrong.

* The agent asks whether anybody still waits only between two targets: after a
  `TimeOut` a copy goes on. `Calls` has room for one call that is waited for and one
  that is not. With more the first would meet several of the second, each of which may
  already leave the file in any state; a call that finds no room is one the agent never
  takes up.
* A file on a target is part of itself or whole. A copy whose file was truncated
  under it leaves one with a hole; whether comparing size and time finds
  that is left open.
* Statuses of plans and reports, and those of a session but DISCONNECTED, are left
  out: no code reads them. The report is the set of what it has counted.
* One device and one draft; `Submit` may be called again while the first job runs.

## 3. Runs

Bounds are constants that appear in guards: `MaxControls`, `MaxCrashes`, `MaxFaults`,
`MaxMishaps` (crashes and calls that fail together), `MaxEdits`, `MaxMoves`,
`MaxRetries`, `MaxTasks`, `MaxLapses`, `MaxJobs`. In `IssueCentre`, `MaxIssues` bounds the rows
ever inserted (a sync that needs more does not commit), `MaxFailures` counts failures of
items, jobs and statements and crashes together, `MaxActions` the calls of the API.
`CHECK_DEADLOCK FALSE` is set because the systems come to rest when all jobs are settled
and the bounds used up.

| Run | Instance | Shows |
|---|---|---|
| `engine_controls` | 1 job, 2 items, all controls of jobs and items (3), 1 crash, automatic retries | verdicts are true, counters agree, no item is RUNNING without an executor, and no job without the worker but for an item paused by itself; finished is final, the ledger is implemented |
| `engine_queue` | 2 jobs with 2 and 1 items, of either priority, one without executor, one control of any kind or change of priority, 1 crash, 1 fault | what is COMPLETED has succeeded once |
| `engine_live` | 2 jobs with 2 and 1 items, job controls (2), fair | every waiting job is served; the worker lets go of paused jobs; cancellations settle |
| `downloads` | 1 job of 2 downloads, all controls (2), aborted ones included, 1 crash, 1 failing call, forgetful aria2; two disturbances beside two downloads, one beside three (`FewDisturbances`) | no replica without a complete download, no completed item without a replica, gids on record are the item's own, live downloads are lost only before they are recorded |
| `download_settle` | 1 item, automatic retries, 2 crashes, 4 downloads, 1 failing call, forgetful aria2, fair | the job is settled |
| `issue_jobs` | 2 jobs of 1 item about one object, a caller (1 call and any number of deletions of closed issues), 2 failures, 2 issues | no job raises an issue twice, ignored issues stay ignored, counters and notices settle |
| `issue_items` | 1 job of 2 items about one object, controls of a caller (2), 2 failures, 2 issues | syncs see the job as it is and explain every failure |
| `catalogue` | 1 asset, a local mount and a NAS, 2 contents, 2 jobs, 1 edit, 1 mishap | assets and replicas stay together; rows and files part only where somebody else, or an item that was stopped, has been at work |
| `governance` | a scheduled mount and one scanned at start-up, 1 control, 1 mishap, 1 file that goes, fair | no second scheduled scan of a mount; scans and heartbeats go on; losses are reported; heartbeats follow their policy |
| `recovered_stays_open` | smallest that shows it | see section 5 |
| `imports` | 1 file, 2 targets of one library, a draft for either library, 1 submission, 1 change of the draft, 1 mishap, 1 retry, fair | what imports register is whole and in the report of its own job, completed items are imported, no answer of the agent holds the worker up |
| `gone_device_passes` | the same | see section 5 |

Why the bounds are enough. Two items are enough for a snapshot to be stale for one
while the other executes; two jobs with two priorities for one to overtake the other;
three controls give pause, resume and retry around one execution, or an item cancelled alone and
the cancellation of the job that overtakes the refresh after it, and one crash
every crash point. Three downloads are enough for one to be replaced and the replacement
to be replaced. Two jobs about one object have one key, so that each can find and take
over the other's issue; two failures are a failed item and a second failure, a failed
statement or a crash on top of it. Two jobs of the catalogue are a copy and the
deletion of its source or target, or two copies onto one file, in either order, and a
scan comes at any time; a mount of each kind has either kind of refusal; assets
meet only in the removal of a directory, which asks for there being none. Two
mounts are enough for one to stand before the other in the line; what a mount does to
another goes through the line only. One mishap and one retry are an import that is
executed again beside the copy its first attempt left; two targets let one succeed and
the other fail. Directories of several files, several submissions (the run has one job, `IngestedIsReported`
says something of each) and larger catalogues are covered by the proofs, which fix no bound.

Fairness. The worker goroutine looks for a job every 750 ms and whenever it is woken, and runs until it is
told to stop (`run`, `center/jobs/service_core.go:116`), so a worker step that stays enabled is
taken: weak fairness of `WorkerStep`. Executors return (`ExecutorReturns`),
handlers make the call that follows their commit (`Interrupt`), time passes
(`RetryDue`) and the service manager restarts a dead process (`Restart`). No
fairness is assumed of users. The liveness runs of the engine allow neither crash nor fault:
after a crash recovery requeues the items of cancelled jobs too (`recoverQueuedJobs` looks at
the item only), so `CancellationSettles` does not hold then, and a failed
recovery leaves RUNNING jobs unclaimed until the next start, so
`NoGhostRunning` and `RunningIsWorked` speak of states before the first fault.

`DownloadFairSpec` assumes the same and that the executor's calls return and a
download under way ends (`TaskEnds`). `GovernanceFairness` assumes that the ticker goes on
(`TickStep`), that the worker takes up and ends scans and tests, that a handler
sends its second statement, and, strongly, that time passes: `ComesDue` is disabled
during the loop it could not overtake, again and again. `ImportSpec` assumes
that the executor goes on; the HTTP client's timeout (`TimeOut`) is one of its steps, and
nothing is assumed of the agent. Mishaps are bounded, so liveness is that of a system that
is left alone after some failures, not of one without any.

Each property of a passing run has a mutant: a plausible bug, written as an
operator just before the definition it would replace (comments say "Mutant"),
under which TLC finds the property violated.

## 4. Proofs

`JobEngineProofs` proves, for any finite set of items, any jobs, and any number
of controls, crashes and faults: `TypeCorrect`, `WorkSucceedsOnce`,
`VerdictsHold`, `FinishedForGood`, `NoGhosts`, `CountersTrue` and
`LedgerImplemented`. The assumptions are the ASSUMEs of `JobEngine`: jobs are
numbers (creation order), every item has
a job, `None` is neither, items are finitely many.

The inductive invariant is

    IInv == TypeInv /\ Created /\ Populated /\ WorkInv /\ VerdictInv /\ SucceedsOnce

* `SucceedsOnce` alone is not inductive: `CloseAttempt` writes the last attempt,
  which is the right one only because the worker is inside the turn that started
  it (`WorkInv`: at `Executing` the item in hand is not COMPLETED and its log is
  not empty; and what is `ready` and not yet visited is not COMPLETED, so that a stale
  snapshot cannot restart finished work).
* `VerdictHolds` needs that the worker never has a settled job in hand and that
  such a job's items do not move (`VerdictInv`), and `FinalizeJob`'s case analysis
  needs `Populated` (a job without items would be COMPLETED with nothing done).
* `Created` ties `item = "NONE"` to `job = "NONE"`, without which `CreateJob`
  could reset an item.

`CountersTrue` (`CountersAgree`) needs what is known between the SELECT and the UPDATE of
`refreshJobAggregate`. Nothing is COMPLETED in between, and what takes an item out of FAILED, the
cancellation or retry of the job, takes all of them: so what was read, and what is stored,
counts the successes right, and the failures right or there are none left (`CountedInv`). The
second case ends with the next refresh. Without a crash or fault the worker
makes it before it lets go of a settled job (`CalmInv`): an item found CANCELED leads to
`RecheckInterrupted`, and from there to the finalisation of the job or to the refresh after
`cancelPendingItems`.

`ItemWriters`, `JobWriters` and `AttemptWriters` say once which actions can
write what and how; the step lemmas cite them instead of splitting `Next`
again. The refinement is proved action by action from `IInv`.

`EveryPassEnds` is the argument under `JobsAreServed`, `PauseQuiesces` and `CancellationSettles`: `Left`
counts the turns of the loop that are to come and the steps to the next one. Every step of
the worker, every failure and every crash lowers it, and nobody else raises it, because the items are
read once; so a pass takes at most `8 * |Items| + 6` steps of the worker. That the worker does take
its steps is the fairness TLC's runs assume.

`JobEngineRunningProofs` adds `RunningJobsAreWorked` (`RunningIsWorked`), for all those
values and whatever controls are `Offered`. The worker could let go of a RUNNING job only in
`FinalizeJob`, which gives no verdict while an item is active; `Attended` says that while the
job is RUNNING every active item is still to be visited or is the one in hand, so that
none is left when the loop is done but a PAUSED one. `InHand` says of every other RUNNING job
that it is `Stranded`: somebody paused an item of it by itself. Where
nobody can, `Unpaused` excludes it: a PAUSED item then has a PAUSED or FAILED job, and a job that
is claimed has none. For the RUNNING items it rests on `NoGhosts`.

`CloudDownloadProofs` builds on this. `RunsOnEngine` shows that every behaviour
of download jobs is one of the engine, so its theorems carry over; `DownloadsTyped`,
`ReplicasAreComplete`, `CompletedAreRegistered`, `RecordsPointHome` and `LossesAreUnrecorded` hold for any number
of items, downloads, crashes and failing calls. The invariant is

    DInv == IInv /\ Core /\ CompletedHasReplica /\ ReplicaIsComplete
    Core == DownloadTypeOK /\ RecordPointsHome /\ Phased

`Phased` says what the executor has achieved at each of its places (a gid, a complete
task, a replica). `Kept` says what any step may do to the list of downloads: it
grows, no download changes its file, a complete one stays complete; with
`RecordPointsHome` this makes a poll still true when the replica is registered.
`LossesAreUnrecorded` (that is `LostOnlyUnrecorded`) takes one invariant more: `Traced` says that what aria2 has
forgotten has ended, that recovery looks for the gid on record, and that when a new gid is about to be recorded
the old one has ended, unless a call failed.

`IssueCentreProofs` proves `IssuesTyped`, `SyncsSeeTheJob`, `IssuesAreUnique`, `IgnoredIssuesStay`
and `SyncsExplain` for any jobs, items (finitely many), callers and bounds, and for both values
of `Streaming`. The assumptions are the three ASSUMEs of the module: the shape of the constants, and that
NULL is neither a row nor a notice. The invariant is

    IInv == DataOK /\ WorkerOK /\ ThreadsOK /\ Writing /\ Locked /\ OneIssuePerJobAndKey

* `Writing` says of every thread before its `SyncWrite` what its reads still guarantee: the job's status and
  failed items are as read (`Seen`), a key it found no issue for has none that this
  job raised, and an issue it did find still has that key (`Picked`). This is
  what makes uniqueness inductive, and what the two action properties rest on.
* `Locked` says that no two threads write for one job; `WorkerOK` that the worker
  touches items of its own job only, without which a step could change a
  job another thread has locked.

`SyncsStay` says once what a step must leave alone to keep all this; most actions are
instances of it (`Moves`, `OneJob`, `WorkerStays`, `StatusesStay`). Only `SyncLoad` and `SyncWrite` are proved from the
definitions of what they read and write (`CandidatesTyped`, `SyncWriteCases`, `RowsWritten`).

`IssueCentreSettleProofs` proves `CountersAreSettled` and `NoticesAreSettled` (`CountersSettle`
and `NoticesSettle`) for the same values. Both speak of jobs at rest, and while pipelines run
counters are stale and so may be what a thread has read. The invariant is

    SInv == IInv /\ Context /\ Settling
    Settling == \A j \in Jobs : j \notin slips => Settled(j)
    Settled(j) == Owed(j) \/ (JobCounted(j) /\ ItemsCounted(j) /\ Noticed(j))

* `Settled` says who still has to repair what: some call owes the job a refresh from the
  beginning (`Owed`), or else each of the three things written for it, its counter, the counters of
  its items, its notices, is right where it is stored, or the thread that will store it has
  read it right, or has still to read it. For the notices what was read includes the notices
  themselves (`seen`): while no other pipeline of the job runs they stay as they were, so that none is
  refused and none overlooked. At rest no thread is left to owe anything, and the two properties
  remain (`QuietSettled`).
* The proof is by what a thread does to its own job. `BesideSettled` says once what a step must
  leave alone for a job that is not its own: the worker's transactions (`EngineMoves`) and the
  pipelines of other jobs (`OtherJobs`) are instances of it, `CallSettles` covers the calls that set
  issues and go through all their jobs. A job whose issue another job takes over or whose notice it writes to, or whose refresh fails
  or overlaps another, enters `slips`, and only the next refresh that runs alone takes it out.
* `Context` says that an issue about an item belongs to the item's job, that a thread handles issues and
  items of its job only, and that the worker keeps the pipeline of its last job until it
  claims the next. Without it, a sync of one job could change the counter of another one's item (`WroteRows`).

`EveryPipelineEnds` says of each thread that `ToGo`, the steps it still has to make for the job it
is at and for the jobs its call has before it, falls with each of its steps and is never raised by
anyone: an action on many issues and a sync that others interrupt, overtake or break come to an end too. It needs
that a call has finitely many jobs before it (`Steady`). A thread may wait at `Free` for the
row of a job that a sync holds; `ToGo` counts steps, not time.

`CatalogueProofs` proves `CatalogueTyped`, `AssetsKeepReplicas`, `DriftsAreExplained`,
`CutsAreInterruptions` and `PendingHaveTasks` for any assets, finitely many mounts of
either kind, any contents, and any number of jobs, edits and mishaps. The invariant is

    IInv == CatalogueTypeOK /\ TasksOK /\ Stage /\ AssetKeepsReplica /\ PendingHasTask
              /\ Cuts /\ Seen /\ DriftIsExplained

* `Seen` says what the worker's reads and writes so far still guarantee of the files
  nobody else has changed (what it found in a source is still there, what it deleted is
  gone); it is what makes `DriftIsExplained` survive the step that writes the rows.
* `TasksOK` says that the row a linked job names exists, and that no completed deletion of
  an asset has left it: with it `PendingHasTask` survives `Register` and `Index`, which may bring an
  asset back, and `DropRows`.
* `Stage` ties the worker's place to the item in its hand; `Cuts` says where a
  truncated file and a truncated source may come from.

`ImportProofs` proves `ImportsTyped`, `ImportedFilesAreWhole`, `IngestsAreReported` and
`CompletedAreImported` for any files, finitely many targets, entries, libraries, and any
number of submissions, retries and mishaps. The invariant is

    IInv == ImportTypeOK /\ Working /\ Waiting /\ Counted /\ Brought /\ VouchedIsSound
              /\ OverwrittenIsSound /\ IngestedIsReported /\ CompletedIsImported

* `ImportedIsWhole` is about the catalogue, but a file is found good long before it
  gets there: `VouchedIsSound` says of every file found good, by a call, by the executor
  or by the catalogue, that it is whole, is being written by the copy that truncated it
  last (`Owned`), or is torn. `OverwrittenIsSound` says the same of a file that was truncated
  under the copy that is waited for, so that a comparison that fails to
  notice vouches for nothing worse.
* `Waiting` says that nobody but the executor in its call is waited for, so that what an answer
  brings is about the executor's file; `Brought` says which files have arrived, and gives
  `CompletedIsImported` at the end of the item; `Counted` says that the report of the executing job has the file
  that is about to be registered, and `IngestedIsReported` that the report of each job has what that
  job registered, so that the reports of other jobs count for nothing.

`GovernanceProofs` proves `GovernanceTyped`, `ScansAreSingle` and `BeatsFollowPolicies` for any finite set
of mounts, any slots, and any number of controls, mishaps and files that move. The invariant is

    IInv == GovernanceTypeOK /\ ScansOK /\ BeatsOK

* `ScansOK` strengthens `OneScanPerMount`: a claim is held only inside its loop (`ClaimIsBrief`), and a
  mount that is claimed has no job on its way but those a user started again (`ClaimIsFresh`). So what comes
  between the claim and the job may pause, resume, cancel and retry (failed and cancelled jobs), and still `CreateScan`
  makes the only scheduled one.
* `BeatsOK` adds that an update nobody tore still tells the policy (`HalfIsCurrent`), which is what its
  second statement writes down.
* That the first due mount exists (`FirstType`) is the well-foundedness of the naturals, and that
  moving a mount to the end of the line keeps every mount once is `ToTheEndType`.

Every safety and action property of a passing run is proved. Only model-checked: the
liveness properties (fairness and ENABLED are beyond the prover), of which `EveryPassEnds` and
`EveryPipelineEnds` prove the part that is not fairness: that what is under way
comes to its end if it goes on.

## 5. Where the code departs from its documents, comments and tests

Two are runs that end in a counterexample; `PROJECT.json` quotes the text.

* `RecoveredIsResolved`: a replica goes missing, the tick opens an issue, the file comes
  back and a scan finds it. `resolveRecoveredMissingReplicaIssues` updates the
  issue while the rows of its query are open; the connection is busy, the refresh rolls
  back, and does so at every tick. The issue stays open, and while it does no other loss
  is reported either.
* `GoneStaysBlocked`: the precheck of a disconnected session is blocked, and the status that
  follows from its verdict is written over DISCONNECTED; since `disconnected_at` is set, the
  refresh does not restore it, and the next precheck lets the session through.

Others show in the models without a run of their own.

Job engine:

* The user cancels while the worker is between its check of the job and `startItem`. No
  entry is in `runningItems`, the executor runs, fails, and `finishItemFailed` writes
  WAITING_RETRY over CANCELED: the job runs again. (The same window lets an item that was
  cancelled, or whose job was paused, after `LoadItems` be started from the snapshot.)
* Pause, resume, and only then the pause's `interruptRunningItem`: it stops the attempt
  that runs after the resume; the item reads RUNNING, so the interruption is
  taken for a failure.
* Pause one item, resume the other (the job is QUEUED and claimed), it completes, `finalizeJob`
  sees the PAUSED item and leaves the job RUNNING with nobody to finish it; only an item control or a
  restart gets it out. `RunningIsWorked` allows this and no other way to leave a job RUNNING.
* An item has failed, another is cancelled by itself while it executes. `refreshJobAggregate` counts
  one failed item; the job is cancelled, which cancels the failed item and sets `failed_items` to 0;
  the refresh writes 1. `CountersAgree` allows it until the worker lets go of the job, and
  for good after a crash or a fault in between.
* A worker that read CANCELED before the user retried the job cancels, in
  `cancelPendingItems`, the items the retry revived, and the job waits in WAITING_RETRY
  with nothing to retry.

Downloads:

* A pause between `Enqueue` and the record of its gid finds no external task. The
  interrupted executor can record nothing any more, and `handleCanceledDownload` reads
  the item with the cancelled context and gives up: the download goes on under a
  PAUSED item. (A crash in the same place makes the next attempt enqueue a second
  download of the same file: only `Recover` searches by destination, and it needs a
  recorded gid.)
* `CancelJob` removes the download of a FAILED item too, aria2 refuses, and the
  cancellation fails. (The same refusal meets pause, after other downloads of the
  job may already have been paused; their executor then waits for a download
  nobody will resume.)

Issues:

* A failure raises an issue; the retried job completes; its sync finds the issue no
  longer explained, and the UPDATE it sends while the rows of its SELECT are open fails.
  `syncJobIssues` ignores the error, and the issue stays active for ever.
* Storing the counter of an item also stores the error of its latest active issue: when the issue is
  closed the error is erased, and if the job is synchronised again while the item is still FAILED
  the failure has another dedupe key and raises a second issue.
* A job takes over the issue of another one, whose projection has looked up its notices before:
  it finds the notice under its own name and the issue no longer its own, and withdraws
  the notice of an active issue.
* An item that fails after its job was cancelled may take the job to WAITING_RETRY,
  and the notice of the cancellation stays shown; or it raises an issue that stays active
  when `cancelPendingItems` cancels the item, for that starts no sync.

Catalogue:

* A NAS refuses to delete a file that is not there, a local disk does not: an asset with a
  replica that has gone from a NAS cannot be deleted, and a deletion that is executed again
  after a crash, or after one of its mounts failed, fails for good.
* The removal of a directory on a NAS takes with it files that no scan has seen, and the
  target of a copy that is under way.
* A copy that breaks off leaves a truncated file under its final name, over the good one
  if there was one; a scan then registers it.
* A crash after the executor has committed its rows and before the item is COMPLETED: the
  deletion or upload is executed again, finds its row or its staged file gone, and the item FAILS
  although its work was done.

Governance:

* A mount with policy ON_START whose scan was cancelled is still due, and the next tick creates
  the scan again; one whose scan is paused or waits heads the line at every tick and ends the loop, so
  the mounts behind it are not scanned (`Blocked`).

Imports:

* The center gives an import call 30 seconds. A longer copy goes on in the agent while the item fails or
  is executed again, which truncates the file under it.
* `failEntry` and `completeEntry` refresh the report while the item is still RUNNING, so the status
  of report, session and plan never becomes final; a retry counts its files again.
* A session may be marked DISCONNECTED between the precheck's read of it and the UPDATE of its
  status, which overwrites the mark (`RefreshPrecheck`).
* `Submit` called twice makes two jobs; `refreshSessions` makes a session READY while its import runs.
* `SetDraftLibrary`, `ApplyTargetToAll` and `RemoveTargetFromAll` write a table that is no longer
  read: targets chosen for another library stay.

## 6. Not modelled, and why

* Half of the implementation's lines are the generated gRPC stubs of CloudDrive2; the
  contracts and the wiring have no behaviour either. `provider_cd2_115.go`, `cd2_client.go` and the
  cloud parts of storage and assets translate calls to services outside the repository: what those
  do in return, the code does not show. For the same reason uploads through CloudDrive2, which the code
  follows by polling a list of transfers, have no counterpart to `CloudDownload`.
* Queries, listings, search and the client read and present state.
* Tags, annotations, creating and renaming directories, storage nodes and credentials,
  the agent registry: single statements or transactions whose uniqueness the
  database's indexes keep, or of which the last one wins.
* Browsing a device, chunks of an upload, VERIFY (reads files, updates the one row it is about), the
  statuses of import plans and reports.
* The event streams of jobs and notices: a subscriber's buffer holds 32 events and drops the rest
  (`center/jobs/broker.go:62`); nothing is replayed and nothing promised, clients load the state again.
* The order in which a transaction locks its rows: item controls lock the item first, job
  controls the job (`center/jobs/service_item_controls.go:20`), and `refreshJobIssueCounters` keeps a pooled
  connection with open rows while it asks for another (`center/issues/sync.go:646`). PostgreSQL ends
  such a deadlock with an error, which is a `Fault`, or no step, here; the pool does not.
* Known hazards outside the properties: a WAITING_RETRY job without a WAITING_RETRY
  item is never claimed (`center/jobs/service_execution.go:26`); the error of `recoverQueuedJobs`
  is ignored (`center/jobs/service_core.go:117`); one failed download makes pause and cancel of the
  whole job fail (`center/jobs/service_controls.go:338`); an item paused while it waits for its retry
  keeps a failed download on record (`center/jobs/service_item_controls.go:146`); external tasks are ordered by
  `created_at`, which is taken when a handler starts (`center/jobs/service_external_tasks.go:166`); the error
  of recording an upload's task is ignored (`center/assets/heavy_ops_cloud.go:135`); a crash between a migration
  and its record has the migration applied again (`center/db/migrator.go:52`).

What would come next: a composition of `Catalogue` with `JobEngine`, in which an item is
executed again only as the engine allows; uploads through CloudDrive2, from a
specification of that service.

# Verification of redprint-worker

redprint-worker transcodes uploaded videos, backs the database up once a day and shows
both on a menu bar monitor. This project models the parts of it whose correctness depends
on interleavings, crashes, lost answers and time, checks them with TLC on small instances
and proves the safety of each of them with TLAPS for every value of the constants.

Source paths below are relative to the repository.

## 1. Inventory

### Transcode job queue: `src/lib/transcode/queue-queries.ts`

*State.* One row of `media_transcode_jobs` per job (status, retry count, `started_at`,
`lease_expires_at`, `created_at`, `completed_at`), the `transcode_status` of the job's
`asset_media` row, and the row of `media_variants` a completed job leaves.

*Operations.* `enqueue`, `claim`, `heartbeat`, `complete`, `fail`, `requeueStale`.

*Interaction.* The web application enqueues, every worker process claims, the sweeper and
the recovery at start requeue. All of them share nothing but the rows.

*Hard.* `claim` takes its timestamp before its transaction and that timestamp is the fence of
the attempt; `claim`'s UPDATE is by id only and relies on `FOR UPDATE SKIP LOCKED`; `fail`
reads without a lock and writes what it computed; `requeueStale` works through a list it
read earlier; heartbeats are sent on a timer that waits for nothing; the answer of a commit
may be lost; a worker whose job was taken away goes on for as long as ffmpeg runs.

*Correct if.* One owner per job; only the latest attempt passes the fence; the retry count
counts the failures that took effect; the three tables agree; final rows are never touched;
only expired leases are taken away; every queued job is eventually completed or dead.

### Worker process: `scripts/transcode-worker.ts`, `worker/runner.ts`, `recovery.ts`, `sweeper.ts`

*State.* `running`, `shuttingDown`, `currentJobId`, the heartbeat and sweeper timers, the
point at which the main loop and a `stop()` are suspended.

*Operations.* `start` (recovery, sweeper, backup scheduler, main loop), `stop`, the signal
handler, `process.exit`, the restart by the container runtime.

*Interaction.* Calls the queue, `processJob`, the backup scheduler. `stop` runs beside the loop
on the same event loop and they share the module's variables.

*Hard.* A signal at every await; a second signal; a backup that runs while the worker stops; a
hanging job; a crash followed by a restart before the lease has run out.

*Correct if.* A stop ends the process; a stopped loop takes no job; what `stop` says about the
job is so; no exit loses a job or costs it a retry.

### Adaptive polling: `worker/scheduler.ts`

State: the current interval. Operations: `delay`, `onEmpty`, `reset`. It only changes how long the
loop sleeps. Correct if the interval stays between 2 and 30 s and a found job resets it.

### Transcode pipeline: `worker/processor.ts`, `pipelines/video-mp4.ts`, `worker/temp-manager.ts`

*State.* A temporary directory per job on the host's volume, the objects `variants/{mediaId}/...` in R2.

*Operations.* Fetch the media's row, download, encode, validate, upload, first frame, thumbnail; the disk
guard, `createTempDir`, `cleanupTempDir`; what `complete` writes about the result.

*Hard.* Nothing here has a timeout; the object key does not depend on the attempt, so an attempt
that lost its lease may overwrite what its successor uploaded; a crash skips the `finally` that removes the directory;
the thumbnail's errors are swallowed; the web application may delete the media at any time.

*Correct if.* What the rows publish is there and is what they describe; directories belong to running attempts;
every job settles.

### Backup scheduler, log, uploader, retention: `src/lib/backup/backup-scheduler.ts`, `backup-logger.ts`, `backup-uploader.ts`, `retention.ts`

*State.* One timer, `stopped`, the promise of the running backup; rows of `backup_logs`; objects
under `backups/v2/`.

*Operations.* `startBackupScheduler` (with the check for today's backup), `stopBackupScheduler`,
`scheduleNext`, `msUntilNextBackup`, `executeBackup` (log, dump, upload, log, verify, retention,
log), `applyRetention`, `todayBackupExists`.

*Hard.* Every remote call may fail or take effect without an answer; the pipeline ignores what
the log says; the process exits in the middle; the rollout smoke run does the same
from another process, and the two may name their objects in the same second; hours and midnights.

*Correct if.* `success` means verified; retention never deletes what is young, nor the last
backup that can be restored; one run a day, every day; none after a stop.

### Rollout smoke and status scripts: `scripts/run-backup-once.ts`, `backup-rollout-smoke.ts`, `backup-rollout-status.ts`

*State.* A process of its own with the environment it was started with, its row of `backup_logs`, the parts of the snapshot it has read.

*Operations.* The smoke: preflight, one backup without retention, snapshot, verdict. The status: the snapshot alone.

*Hard.* The daily service of the worker, of the version before or after the rollout, writes the same table; every part of the snapshot is a statement of its own.

*Correct if.* The parts agree; the verdict is about the run that was made.

### Rollout preflight, log migration and schema export: `scripts/backup-rollout-preflight.ts`, `migrate-backup-logs.sql`, `export-bootstrap-schema.ts`

*State.* The schemas of the live and of the verify database, `bootstrap-redprint-schema.sql`.

*Operations.* `runBackupRolloutPreflight` (environment, two databases apart, psql, table, columns, verify database), the statements of the
migration, `exportBootstrapSchema` (source, `pg_dump`, validation, write).

*Hard.* What was looked at is used later; the schema changes between export, bootstrap and dump; the export may be made from another database than
the one that is backed up; a write may be cut off.

*Correct if.* A passed preflight spares the backup the failures it looks for; a schema that was exported from the live database and prepared after the last
migration is the live one; no backup passes on any other.

### Dump: `src/lib/backup/pg-dump.ts`

*State.* The temporary file, the manifest in its header, how far tables and sequences have been read.

*Operations.* `runPgDump` with its timeout, `dumpAndCompress` (manifest, tables in batches of a cursor, sequences),
`escapeCopyValue`, the check of the file, the cleanup.

*Hard.* Statements outside any transaction while the application writes; a timeout that rejects without
cancelling; text that COPY reads back differently from how it was written.

*Correct if.* Manifest, rows and sequences fit together; a returned file is whole and restores; a call that threw leaves none.

### Restore verification: `src/lib/backup/backup-verify.ts`

Downloads the object, empties the verify database, restores, falls back to disabled constraints
after a foreign key failure, compares rows, checksums and sequences, cleans up. There is one verify
database for all processes. Correct if a pass means that this object, and nothing else, was in the database.

### R2 client: `src/lib/storage/r2-client.ts`

List, get, put, delete (in parts). Correct if a failed part of a delete is reported as such.

### Monitor: polling and status: `monitor-app/src-tauri/src/main.rs`, `db.rs`, `docker.rs`, `tray.rs`, `monitor-app/src/index.html`

*State.* The cached status, the connection pool, what the popup was last told, its buttons, the icon.

*Operations.* The poll every five seconds (docker inspect, counters and current job, is there a table, has it the phase 3
columns, latest, verified, count, history), the start and stop commands, the popup's mapping of a row to a light.

*Hard.* Every question is a statement of its own while backups and jobs move; the database, the container and the schema come and go
under it; the connection is tried once; start and stop may overlap.

*Correct if.* Green means verified; the parts of the card agree; the card ends true once things are quiet.

### Monitor: git auto-pull: `monitor-app/src-tauri/src/git.rs`

*State.* One working tree with its refs; the status behind a mutex; the card the popup shows.

*Operations.* The poll of `dev` and `main`, `toggle_git_pull`, `pull_now`, each a sequence of git processes.

*Hard.* Three actors on one working tree without a lock, the operator as a fourth; the branch is read before an await; the
status is copied under the mutex and emitted after it.

*Correct if.* Only the branches asked for move, forwards; what is called up to date was level with origin; both settle.

### Other

The schema declarations shared with the web application (`src/db/schema`) and the deployment files. No behaviour of their own.

## 2. What is modelled

| Module | Models | Depends on |
|---|---|---|
| `LeasedJobs` | the promise of the queue: submit, take, finish, fail, abandon, revoke | |
| `TranscodeQueue` | rows, leases, clock, heartbeats, any number of worker processes | instantiates `LeasedJobs` |
| `WorkerLifecycle` | one process: main loop, `stop`, signals, exits, restarts | instantiates `LeasedJobs` |
| `TranscodePipeline` | inside an attempt: its calls, its directory, the objects and rows it leaves | its proofs instantiate `LeasedJobs` |
| `BackupService` | daily service and smoke run over rows and objects | |
| `BackupRollout` | the rollout by hand: migrations, bootstrap schema, preflight, smoke, status | |
| `CopyFormat` | the text of a row in a dump and how COPY reads it | |
| `DatabaseDump` | one `runPgDump` beside a writing application | `CopyFormat` |
| `RestoreVerification` | the verification: reset, restore, fallback, checks, cleanup | |
| `MonitorStatus` | the poll, the status it keeps and the lights made of it | |
| `GitAutoPull` | loop and commands on one working tree | |
| `...MC` | the instances of a module for TLC | the module |
| `BackupReportsProofs` | the theorems of `MonitorStatus` and `BackupRollout`, section 4 | both, TLAPS |
| `...Proofs` | the theorems of a module, section 4 | the module, TLAPS |

The modules meet at interfaces that one side states and the other takes for granted. `WorkerLifecycle` and
`TranscodePipeline` let the fence compare attempt numbers, which `FenceIdentifiesAttempt` of `TranscodeQueue` justifies.
`BackupService` lets only a good object pass, which `VerdictIsRight` of `RestoreVerification` states of a verification that has the
database to itself, and `RestoreVerification` is given the kinds of backup (good, dangling) that
`DanglingOnlyIfMoved` and `ManifestMatches` of `DatabaseDump` say a dump may be. `MonitorStatus` moves
the rows of `backup_logs` as `BackupService` does, and `BackupRollout` the rows of its smoke run and of the service beside it.

### TranscodeQueue

`job`, `media`, `variant` are the three tables, one job per media because there is one job type.
A record in `worker` is the local state of a process: where it is (`pc`), the job and the
`startedAt` it fences with, what `fail` has read. `sweep` is the list a `requeueStale` call works
through; `beats` are the heartbeat statements under way. `attempts` and `failures` are history.

`claim` is `ClaimBegin` (the timestamp), `ClaimSelect`/`ClaimEmpty` (the locking SELECT) and `ClaimCommit`;
`fail` is `FailRead` and `FailUpdate`; `requeueStale` is `SweepSelect` and one `RequeueStale` per row; a
heartbeat is `HeartbeatSend` and then, in any order with the others, `Heartbeat` or `HeartbeatLost`;
`complete` is one transaction whose answer may be lost. `Crash` may happen anywhere, drops the
locks of the process and leaves its heartbeats on their way. The rows each UPDATE writes
are operators of their own (`ClaimedRow`, `FailedRow`, ...), used by the proofs as well.

Left out: the thumbnail column (it is in `TranscodePipeline`), the error text, `updated_at`, the variant's metadata.

*Timing assumption.* `MaxClaimDelay < HeartbeatInterval < Lease`. The code fixes 60 s and 900 s; a
claim transaction that takes more than a minute from its `new Date()` to its commit is outside the model. The
assumption matters: it is what makes `startedAt` identify an attempt, since two claims of one job
are then always more than a lease less a claim delay apart.

### WorkerLifecycle

One process, so the statements of the queue are atomic here and the fence compares attempt
numbers, which `FenceIdentifiesAttempt` of `TranscodeQueue` justifies. An action is the code between two
awaits. `loop` is where the loop is suspended, `stopping` where `stop` is; `mine` is the loop's `job`.
`"claimed"` is the gap between the commit of a claim and the assignment of `currentJobId`. An exit resets
the module state (`Exit`) and records what `stop` said last. Leases expire by an action: `OrphanExpires` when
the process no longer holds the job, `LeaseLapses` (bounded) when its heartbeats fail.

### TranscodePipeline

`worker[w].pc` is the await in which the attempt of `w` is suspended, one per step of `processVideoMp4`, then
`complete` and `fail`. `dir[w][j]` is the directory of job `j` on the host of `w`, with the files that matter; a file
is told apart by the attempt whose ffmpeg wrote it and by whether ffprobe would accept it. `video` and
`thumbnail` are the objects in R2; `variant` and `thumbnailUrl` what `complete` has written about them. A call
may fail, or take effect and throw. `Crash` loses the attempt and keeps the directory; `Requeue` takes a job from an attempt that
goes on (its heartbeats did not get through) or that nobody makes any more; `DeleteMedia` is the web application's
`ON DELETE CASCADE`. `revoked` and `orphaned` are history.

Two things the model makes visible and no run is spent on. An attempt that lost its lease may replace the object a
completed job describes: `DescribedUnlessRevoked` says so by its exception, and `PublishedIsThere` shows that the object
is a playable video all the same. And nothing removes the directory of a crashed
attempt but a later attempt at the same job on the same host. If the job settles elsewhere, or its media is deleted, the directory
stays; with room for one directory and one worker a single crash would stop the disk guard for good, which is why the run has room for two and
`JobsSettle` is stated for a disk that holds what the crashes leave. Objects of a deleted media stay in R2.

Left out: the dry run, the encoder's settings, the sizes and lengths (a `File` stands for its own measures). One process per volume, as
`docker-compose.yml` has it.

### BackupService

Two processes, `"service"` and `"manual"`, go through the same labels of `executeBackup`. A statement on
a row is applied or lost (`WriteRow`), and skipped when `logBackupStart` returned no id. An upload may
fail, succeed, or succeed and throw. A verification may pass, fail, or throw; it can pass only for an
object that is good. `SmokeAborts` is the smoke process going down at any await, or failing to read the
newest row, before it gives a verdict; `Exit` is the same for the service. `timer` is the instant of the pending timeout. Time is in ticks, `DayLen` to the day.

`key` is the key each run has given its object (`NameObject`), the instant at the end of its dump: `formatTimestamp` cuts the time to
whole seconds (`backup-uploader.ts:19-29`), and the model's tick stands for that second, so the service and a smoke run that name their objects in one tick
have the same key. The put is unconditional (`PutObject`): the later one replaces the earlier object, verified or not, while the run and the row of the earlier
one go on referring to it. `Verify` restores what lies under the key by then, whoever put it, and `Delete` removes keys. The strict form of `VerifiedBackupKept`,
without `Replaced`, is false: run 1 is verified, run 2 has named its object in the same second and now puts one that does not restore. What a verification does is in `RestoreVerification`; `BackupService`
takes from it that a pass is given to a good object, which `VerdictIsRight` states of verifications that do not overlap.

*Timing assumption.* `MaxRun < RetentionDays * DayLen`: no pipeline is as long as the retention period.
Nothing in the code bounds an upload, but a day-long one is a different failure.

### BackupRollout

A schema is its version and the state of its `backup_logs`: `app` is the live one, `verify` the verify database's, `file` the bootstrap schema's, and `Part`
is what a cut off file leaves. `Foreign` stands for the schema of any other database with tables: `getSourceConfig` takes `BACKUP_ADMIN_DATABASE_URL` before
`DATABASE_URL`, whatever it names, and `validateSchemaOnlySql` looks only for tables. The fingerprint of a dump is the schema it was made from, columns in their order, which is why a table that was created with the phase 3
columns and one that got them later differ (`LogTable`). `smoke` is the process of the smoke or the status, one label for each await, with the
answers it has collected (`bad`), what `executeBackup` knows, and the snapshot. `export` is the export script between the start of
`pg_dump` and the write. `logs` has the rows in the order of `started_at`, written by the smoke run and by `service`, a worker that knows the new columns or does not.
The operator migrates, bootstraps and removes psql at any moment (`MaxOperations`). `current`, and in `smoke` the fields `quiet`, `prepared`,
`alone` and `told`, are history: does the file, or the verify database, come from an export of the live database since the last migration; has anything
the preflight asked about changed since it began; was the verify database prepared then; has the service begun a backup during the run; did every log statement get through.

Left out: what a backup does beyond its failures (it is in `BackupService`, `DatabaseDump` and `RestoreVerification`), a migration of the verify database by the
same SQL, the header of the file and the masking of connection strings. A preflight alone and a `run-backup-once` alone are prefixes of the smoke run.

### RestoreVerification

`db` is the verify database, table by table; `local` holds the locals of `verifyBackupFromR2`, `at` being the table
a loop has reached. A backup is a constant: rows (primary key, parent row, content), the first row of each sentinel as the
manifest has it (a checksum is the row it was made from), and whether its schema fits. psql runs the COPYs
one by one and keeps those before an error, as the restore is not one transaction. A duplicate key ends the verification; a
broken foreign key leads through `Fallback` to the reset and a second restore with `replica` set. `Catch` is the catch
block with its second cleanup. `CallFails` may strike at every await, before or after the call took effect; `Crash`
leaves
the database as it is, or with part of the table psql was filling (`Leaves`). `fault` and `shared` are history.

Left out: sequences (restored, tried and set back; no property tells them apart), the parsing of the header, the check that
the verify database is not the live one (it compares host names as text).

### CopyFormat and DatabaseDump

`CopyFormat` has the characters COPY treats specially and what `escapeCopyValue` makes of a text and of an array, and how `COPY FROM` reads
the line back (external). `DatabaseDump` is one call: `call` is where `runPgDump` is (`withTimeout`, the check of the file), `pc` and `at` where
`dumpAndCompress` is, which goes on when the call has timed out. Two tables with a foreign key between them stand for all,
in either order of their names. A statement sees the rows as they are when it starts, so a table is one step whatever the batches of
the cursor. `file` has a name that may exist and a content that may be complete; a removed file may go on being written. `between`, `moved`,
`quiet` and `early` are history: what the application did meanwhile, and whether the timeout came before the file was made.

The cleanup of a call that timed out finds no file when the dump has not opened it yet; the dump then makes one that nobody removes
(`LeftoverOnlyIfEarly`). Left out: the wording of the header, gzip, data types other than text and text arrays.

### GitAutoPull

A run is one iteration of the loop for a list of branches, or a command; its `pc` is the next git process or locked section. `origin`
moves by other developers' pushes, `head`, `local` and `dirty` by the operator as well. `asked` and `level` are history: what the
run is about, whether the operator switched branches meanwhile, and which branches have been level with origin since it began.
A fetch is one step; times and error texts are left out.

What the model says of the code beside its properties: after the operator switches branches between `rev-parse HEAD` and
`reset --hard`, the reset moves whatever is checked out by then (the exception in `OnlyItsBranches`); a tracked branch that does not exist locally is
shown as "error" for good; switching auto-pull off does not stop a poll under way; `do_pull_now` returns
`ok: true` even when every branch failed, and `index.html:748-763` then says "이미 최신 상태".

### MonitorStatus

`poll` is the loop of `main.rs` between two awaits, with what it has learnt in this turn; `status` is `AppState.status`, `card` what the popup was last told,
from which `BackupState`, `Dot` and the buttons are derived as `index.html` does. The world (`container`, `db`)
changes at any step, a bounded number of times; backups go through their rows in the order of their log statements, and a worker from before phase 3
writes none of its columns.

`init_pool` is tried once: an app started while the database is down shows nothing of it for good, and `CatchesUp` says exactly
that. A failed query of the jobs keeps the last counters and `db_connected`; a failed query of the
backups clears them. `docker compose down` makes the card "not_found". A job may be shown as failed and as
processing at once, when its retry begins between the two statements; `ToldInv` says that it is not shown as completed and as processing at once.

`commands` counts the `docker compose` commands of each kind under way. A click disables its button, the next event decides anew
whether it is enabled, and neither popup nor app asks whether a command still runs: start and stop, or two of the same, overlap and end in any order.

## 3. Runs

Bounds are small because one more of anything repeats what is there; each line says what its instance is just large enough for.

| Run | Checks | Shows |
|---|---|---|
| `queue_safety` | `AtMostOneOwner`, `FenceIdentifiesAttempt`, `IInv`, `RequeueOnlyExpired`, `ImplementsLeasedJobs` | one job, two workers, lease 3, clock 8: two full lease expiries with late heartbeats, and the old worker coming back |
| `worker_safety` | `WorkerInv`, `StopIsOrderly`, `ImplementsLeasedJobs`, `JobsSettle`, `ShutdownEnds` | two jobs, so that the loop can take another one while `stop` waits; any three of crashes, signals, lapses and full disks, with a restart after each exit |
| `pipeline_safety` | `ProcessInv`, `PublishedIsThere`, `DescribedUnlessRevoked`, `JobsSettle` | two workers with a disk for two directories, a video and an unsupported job, any two of a crash, a lapse and a deletion: two attempts at one job at once, and a third after a crash |
| `backup_safety` | `ServiceInv`, `VerifiedBackupKept`, `VerdictIsFinal`, `RetentionKeepsYoung`, `RunsWhenDue`, `NextRunIsTomorrow` | two runs over two and a half days of two ticks: old objects, restarts before, on and after the hour, and two runs that share a key |
| `rollout_safety` | `RolloutInv`, `ReadyMeansItRuns`, `ReportIsRight` | one version to migrate to, another database to export from, two rows, two changes by the operator and a failure: a backup of the service before, during or after the smoke run, and a migration between any two steps of export, bootstrap and dump |
| `dump_safety` | `DumpInv`, `SequencesCoverRows`, `ManifestMatches`, `DanglingOnlyIfMoved`, `QuietDumpRestores`, `CallEnds` | two tables, two ids, two writes: one between any two reads, and a parent that comes or goes with its child |
| `verify_safety` | `VerifyInv`, `VerdictIsRight`, `AloneJudgesItsRestore` | two processes, three verifications of good, dangling, changed, unfit and empty backups, with failing calls and a crash anywhere |
| `git_safety` | `PullInv`, `OnlyItsBranches`, `NeverGoesBack`, `CatchesUp`, `CardSettles` | the loop beside two commands one after the other, a push, a move of the operator, a git process that fails |
| `monitor_status` | `StatusInv`, `GreenMeansVerified`, `CatchesUp` | two rows with a history of one, three changes of the world or clicks, a failure: latest and verified may differ, both may have left the history, and a start overlaps with a stop |

Runs that are expected to find a violation, each one a disagreement between the code and what it says of itself:

| Run | Found |
|---|---|
| `worker_wait_exit` | while `stop` waits, `running` is still set: the loop claims another job and the deadline cuts that one off |
| `verify_shared_db` | two verifications at once: one passes on the rows the other restored |
| `dump_arrays` | the literal of an array is not escaped for COPY: an element with a quote breaks the restore, one with a backslash loses it |

More things met while modelling, which no run is spent on:

- `runner.ts:129-134`: a signal between the commit of a claim and the assignment of `currentJobId` finds "No active job" and exits; the row
  waits for its 15 minute lease. `ImplementsLeasedJobs` and `JobsSettle` show that nothing worse comes of it.
- `todayBackupExists()` (`retention.ts:84`) is true for any object with today's date in its name, also one whose verification failed or never ran because the process was
  restarted, and the scheduler then skips the day; `retention.ts:73` says "skip if already backed up today".
- `scripts/backup-rollout-smoke.ts:32` judges the newest row of `backup_logs`: when the start of its own run could not be logged, or the service began
  one meanwhile, that is the row of another run, and the smoke may pass on a verified backup that is not its own. `ReportIsRight` has what is true without those two, `ServiceInv`
  what is true with them: some backup was verified.
- `scripts/backup-rollout-preflight.ts:201` says "ready for restore verification" of any verify database with a table in it. A stale schema, or what is left of a bootstrap
  that was cut off, is found by the fingerprint of the first verification, after the dump and the upload; `ReadyMeansItRuns` promises the schema only to those who prepared it after the last migration.
- `scripts/export-bootstrap-schema.ts:34-41` exports whatever database `BACKUP_ADMIN_DATABASE_URL` names (`tests/backup/export-bootstrap-schema.test.ts:31-39` has one that is not
  the application's). If that is another one with tables, its schema becomes the bootstrap schema, a verify database prepared from it passes the preflight, and every backup fails at the fingerprint,
  after dump and upload. `ReadyMeansItRuns` promises the schema only for an export from the live database.
- `backup-uploader.ts:48-49` names objects by the second and puts them unconditionally, so that a run which names its object in the same second may replace one that was verified; the row of the
  verified run stays `success`. `VerifiedBackupKept` and `SomeVerifiedBackup` state that exception.
- `index.html:608` says of a `backup` that is null "DB 연결 안 됨 또는 backup_logs 테이블 없음" (no connection, or no table). Without the table `db.rs:149-156` returns an empty record, not null, so the popup
  says that it waits for the first backup. `ShowsBackups` states what is shown.
- `db.rs:117` calls `total_backups` "Total successful backups currently retained". The statement counts every row that ever passed its verification, and retention deletes objects and never rows, so the
  number goes on growing; `ShowsBackups` has it as it is counted.
- `index.html:536-550`: a start and a stop that overlap leave the container as the last one to take effect has it; `CatchesUp` says that the card, the icon and the buttons show it.
- A verify database that is brought up to date by the same SQL instead of the bootstrap schema may get the columns of `backup_logs` in another order than the live one, when only one of the
  two had the table; the fingerprint then refuses every backup.
- A run that ends after midnight skips the next backup hour (`scheduleNext(true)` adds a day to the day on which the run ends), so
  `NextRunIsTomorrow` needs a backup hour that leaves the run enough of its day.
- A killed run, or a lost last statement, leaves a row that is shown as running for good.
- A heartbeat that arrives after a later one moves the lease back, though never below the one the claim took (`RowWellFormed`).
- `toTranscodeStatus` maps "failed" to "failed" where `fail` writes "pending" (`MediaInSync` states what is written), and has no caller.
- `retry_count` counts failures and not retries: a requeue is not counted, so a job that takes its worker down on every attempt is tried
  without end, and with `max_retries = 3` the third failure is final.

### Bounds

`MaxClock`, `MaxBeats` (heartbeats under way), `MaxCrashes`, `MaxFaults` (what goes wrong in the worker, the rollout
or the pipeline, all kinds together), `MaxRuns`, `MaxRows`, `MaxVersion`, `MaxChanges`, `MaxOperations`, `MaxFailures`, `MaxWrites`, `MaxId`, `MaxPushes`, `MaxMoves` and `MaxCommands` bound the environment; `MaxPolls` is the
code's own bound (the 30 s of `stop`, in polls). In `backup_safety` a day has two ticks, so that "before", "at" and "after" the
backup hour exist; the backup is at tick 0, so a run of at most one tick does not cross midnight. In `verify_safety`,
in `rollout_safety` and in the dump the system stops when the bounds or the one call are used up, so deadlock is not checked there. More jobs than one are not run on `TranscodeQueue`;
its theorems are for any set of jobs. Two instances leave a case to the theorems alone: with one heartbeat under way at a time (`MaxBeats`) `queue_safety` has late heartbeats but
none that overtake each other, which `Invariance` and `MutualExclusion` cover; with two runs `backup_safety` has no upload between the listing and the deletion of something, which
`RetentionIsSafe` covers.

### Fairness

`WorkerLifecycle` states what it needs in the property. `JobsSettle` is under `Fairness`: the restart (`restart: always`), the main loop and `stop` (the
event loop resumes every await whose operation has ended), the recovery and the sweeper's interval, the passing of a lease nobody extends, and
that somebody frees the disk. It also assumes that `processJob` ends: ffmpeg, download and upload have no timeout, so a hanging attempt keeps its job for as long as
its heartbeats go on. `ShutdownEnds` assumes only that `stop` itself goes on (its polls are timers): job, database and backup may
hang. Crashes, signals, lapses and a full disk are never owed, and are `MaxFaults` in number.

`TranscodePipeline` assumes the same of the calls of an attempt, of restarts and of leases nobody extends. `DatabaseDump` assumes only the two
timers, so `CallEnds` holds although the database may never answer. `GitAutoPull` assumes that threads run, git ends and the loop's
timer rings; commands, pushes and the operator are not owed. `MonitorStatus` assumes the loop, the one attempt to connect and the end of every docker command; the changes
of the world are not owed.

## 4. Proofs

Every component has a module of theorems. All of them hold for any value of the constants that the assumptions in the component's
module admit; the assumptions are named there and TLC evaluates them on the run's instance. They say that numbers are numbers, that `Null` is no member of
the sets it is added to, and, where it is mentioned below, what the timing is.

### The job queue: `TranscodeQueueProofs`

| Theorem | Statement |
|---|---|
| `Invariance` | `Spec => []IInv` |
| `TypeCorrect` | every variable keeps its type |
| `RetriesCounted` | `RetryAccounting` |
| `RowsWellFormed` | `RowWellFormed` |
| `MediaFollows` | `MediaInSync` |
| `FenceSound` | `FenceIdentifiesAttempt` |
| `MutualExclusion` | `AtMostOneOwner` |
| `RequeueSafe` | `RequeueOnlyExpired` |
| `TerminalStable` | `TerminalIsFinal` |
| `OwnerEnds` | `OnlyOwnerEndsAttempt` |
| `Refinement` | `Spec => ImplementsLeasedJobs` |

None of the properties is inductive. The invariant is
`IInv == TypeOK /\ RetryAccounting /\ RowWellFormed /\ MediaInSync /\ CountInv /\ ClaimInv /\ AttemptInv /\ BeatInv /\ SweepInv`:

- `ClaimInv`: a claim in progress is at most `MaxClaimDelay` old and the row it locked is still
  claimable, which is why an UPDATE by id is enough.
- `AttemptInv`: an attempt is either the latest one and has the row's timestamp, or its
  lease ran out before its successor began. With `ClaimInv` and the timing assumption the
  successor's timestamp is then strictly later, so the fence cannot confuse the two.
- `BeatInv`: the same for a heartbeat under way; it left at least an interval after its attempt
  began, so when it is applied it does not shorten the lease below what the claim took. That is
  what keeps `RowWellFormed` although heartbeats may be reordered.
- `CountInv`: a running attempt has not been counted, so `fail` writes a count that was not lost.
- `SweepInv`: a sweep compares with an instant that is past, so what it takes is expired now.

The proof has a lemma per action and a step per conjunct that action can disturb; `NextIInv` combines them.

`Refinement` goes by the owner of a job: `SoleOwner` makes the CHOOSE in `Owner` unambiguous, and then
enqueue is `Submit`, the commit of a claim `Take`, a fenced complete `Finish`, a fenced fail `Fail`, the crash of an
owner `Abandon`, a sweep of a stale row `Revoke`, and every other step leaves the abstract queue as it is. A fenced-off
complete or fail is such a step: that is the point of the fence.

### The worker process: `WorkerLifecycleProofs`

| Theorem | Statement |
|---|---|
| `Invariance` | `Spec => []WorkerInv` |
| `StoppedClaimsNothing` | `NoClaimOnceStopped` |
| `FinishedIsTrue` | `FinishedMeansFinished` |
| `StopsInOrder` | `StopIsOrderly`, the two together |
| `Refinement` | `Spec => ImplementsLeasedJobs` |

`WorkerInv` is what loop and `stop` know of each other across their awaits. `LoopInv`: `currentJobId` is the job in hand except between the commit of a claim
and the assignment, and there is a recovery list only while recovering. `StopInv`: `running` is set exactly while the process is up and `stop` has not got
past its wait for the current job; that is what makes `NoClaimOnceStopped` true although the loop goes on claiming during the wait. `RetryInv`: a
row is dead with its last retry and not before. The refinement maps the running attempt to the owner of its job; an exit or crash with a job in hand is
`Abandon`, a sweep or recovery of an expired row `Revoke`.

### The pipeline: `TranscodePipelineProofs`

| Theorem | Statement |
|---|---|
| `Invariance` | `Spec => []ProcessInv` |
| `PublishedExists` | `PublishedIsThere` |
| `VariantDescribesObject` | `DescribedUnlessRevoked` |
| `AttemptsKeepPromises` | every step is a `DeleteMedia`, a step of `LeasedJobs` or a stutter of it |

The three are inductive only together (`IInv` of the proof module), and `ProcessInv` is what carries them: an attempt has a directory and a number no other one at its job has, and it
passes the fence or its job was taken from it (`AttemptOK`); the file it is about to validate or upload is its own (`FileOK`); what a fenced attempt
has uploaded is in the bucket or was replaced by an attempt that went on after its lease (`UploadOK`); an object that is there was valid when it was uploaded
(`JobOK`). The point of `PublishedIsThere` is that an object is only ever replaced, never removed, by a worker.

`AttemptsKeepPromises` is the step part of a refinement: the pipeline starts where `LeasedJobs` has every job submitted, and its state maps to it with
the attempt that passes a job's fence as the holder. There is at most one, by the numbers of `AttemptOK` (`OneHolder`). A claim is `Take`, a `complete` or `fail` that
takes effect `Finish` or `Fail`, whether or not its caller hears of it; a crash and a `fail` that throws before its commit are `Abandon`, a requeue is `Revoke` whether the
attempt lives or not, and the awaits in between change nothing the queue sees. Only the deletion of a media by the web application is outside the promise: it
removes the row from under the holder (`ON DELETE CASCADE`). No run checks this theorem: it adds to the queue's and the worker's refinements of `LeasedJobs` that the calls
inside an attempt, which those two leave out, do not break them.

### The backup: `BackupServiceProofs`

| Theorem | Statement |
|---|---|
| `BackupInvariance` | `Spec => []BInv` |
| `BackupTypeCorrect` | every variable keeps its type |
| `SuccessMeansVerified` | `SuccessIsVerified` |
| `VerdictsStand` | `VerdictIsFinal` |
| `ServiceInvariance` | `Spec => []ServiceInv`: beside `BInv`, the timer, the age of what a run has uploaded and what retention is about to delete |
| `OncePerDay` | `OneRunPerDay` |
| `StoppedStaysIdle` | `NoRunOnceStopped`, with `stopped => timer = Null` |
| `StartsWhenDue` | `RunsWhenDue`, the two together |
| `SomeVerifiedBackup` | `VerifiedBackupKept` |
| `RetentionIsSafe` | `RetentionKeepsYoung` |
| `NextDay` | `NextRunIsTomorrow`, if `BackupHour + MaxRun < DayLen` |

`SuccessIsVerified` is not inductive: the step that writes `success` is several awaits after the
verification, and the local variables that carried its outcome are gone by then. `BInv` adds `PipelineInv`: a
running pipeline has a row of its own which is still open, no other pipeline has the same one, and from the end of a
passed verification on (`Proven`) its run is among the verified. The proof groups the steps by what they do to a row and a
pipeline: `SilentStep` (an await that writes no row), `ThrowStep`, `Writes`, `Begins`.

`OneRunPerDay` rests on `HourInv`: a timer that is set, and every start of a run, is at a backup hour, and the timer is later than the last start. Two
backup hours of which one is later lie on different days (`LaterHour` and the lemmas on `\div` and `%` before it), whatever the hour and the length of the
day; `msUntilNextBackup` gives such an hour from any clock (`NextBackupIsAhead`).

Retention deletes one object after the other from a listing that ages. `RetentionInv` says why that is safe: what is still to be
deleted is there, was old and is older now, and is fewer than what is there by `MinKeep`; a put of the smoke run adds an object or replaces one of its own second, which is
young. `KeyInv`, a part of `ObjectInv`, has what is needed of the keys: each object lies alone under its key, and a key is no older than the run that gave it. `ObjectInv` bounds
the age of an object by the length of its run, so that with `MaxRun < RetentionDays * DayLen` the object that was verified a moment ago is not among them.

`NextDay` has a hypothesis that the code does not guarantee for every hour: a run that ends after midnight skips a day (section 3). With the
default hour, 4 UTC, it holds for runs of up to twenty hours; with `BACKUP_HOUR_UTC=23` for runs of up to one.

### The verification: `RestoreVerificationProofs`

| Theorem | Statement |
|---|---|
| `Invariance` | `Spec => []VerifyInv` |
| `TheVerdictIsRight` | `VerdictIsRight` |
| `JudgesWhatItRestored` | `AloneJudgesItsRestore` |

`SoFar` is the knowledge a verification that has the database to itself has gathered at each await: empty tables after the reset, `Filled` while it restores
(the tables before `at` have all their rows and no broken reference, the others none), `Compared` in the loops of `verifyRestoredDb`. A failed call, the
fallback and the crash of another verification enter at the reset, where nothing has to be known: that is why the reset comes first. `RunInv` says that a
verification that is alone stays so until another begins.

### The dump: `DatabaseDumpProofs`

| Theorem | Statement |
|---|---|
| `Invariance` | `Spec => []DumpInv` |
| `RestoredIdsAreFree` | `SequencesCoverRows` |
| `ManifestTellsTheFile` | `ManifestMatches` |
| `DanglingHasACause` | `DanglingOnlyIfMoved` |
| `QuietDumpIsFaithful` | `QuietDumpRestores`, if `RoundTrips` |

`DumpInv` says of a database that goes on changing what the order of the reads guarantees: every id read is below its sequence, which is read
later (`SequencesInv`); a table nobody wrote since the manifest begins with the manifest's row (`ManifestInv`); a child that was read, or is there to be
read, has its parent in what was read, or in what is there to be read, or among the `moved` (`ReferencesInv`). `ProgressInv` and
`FileInv` say how far the dump is and what its file looks like once the call has given up.

`RoundTrips` (COPY reads back the line of every value with a plain array) is the one thing the theorem takes from `CopyFormat`. It is a recursion over the
characters of a text, out of the provers' reach; TLC's check of `QuietDumpRestores` evaluates it on the texts of `DatabaseDumpMC`.

### The readers of `backup_logs`: `BackupReportsProofs`

The monitor and the rollout's scripts make the same lights of the same rows and their proofs share the facts about the log, so both have their theorems
in one module. The names of the two do not overlap; each keeps its own constants, variables and specification.

| Theorem | Statement |
|---|---|
| `Invariance` | `Spec => []StatusInv` |
| `GreenIsVerified` | `GreenMeansVerified` |
| `RolloutInvariance` | `RolloutSpec => []RolloutInv` |
| `ReadyBackupsRun` | `ReadyMeansItRuns` |
| `ReportsAreRight` | `ReportIsRight` |
| `VerifiedRowsStay` | `RolloutSpec => [][RestoreVerified \subseteq RestoreVerified']_rolloutVars` |
| `OneLightPerRow` | `getBackupUiState(entry) = BackupState(row)`, if `entry` and `row` are the same row |

`PollInv` has what a poll has learnt between two statements although the rows go on meanwhile: a row it has read is in the log with an id no
higher than the newest, and a job it counts as completed stays so. `ToldInv` is what is left of that in the status and on the card. `GreenMeansVerified` follows because
a row that has passed is not written again.

Neither `ReadyMeansItRuns` nor `ReportIsRight` is inductive: both speak of the end of a script and lean on what it found many steps before. `RolloutInv` says what a
script has behind it at each label:

- `BootstrapIsCurrent`: an export begun from the live database since the last migration holds the live schema, and so does a file or a verify database made from it; of other
  exports it says only that one without tables never becomes the file.
- `StageInv`: which of run, cause and answers are set at a label.
- `ReadyInv`: what each check of the preflight found is still so as long as nothing it looked at was changed (`quiet`), and so are
  the manifest of the dump and, if the database was prepared in order, its schema. `ReadyMeansItRuns` follows: of what fails a backup only a
  fault, or a schema that was not prepared in order from the live database, is left, and with such a schema no backup passes.
- `RunsApart`: the smoke run and the daily run under way own different rows and theirs are open, so neither writes over the other's verdict; the columns of phase 3, once
  there, stay, or a run could not have begun. `VerifiedRowsStay` is the action property behind it.
- `SnapshotInv`: what was read stays true of a log that goes on. A green latest row is among the verified, so the next statement finds it or a newer one; when
  the service began nothing in between (`alone`), the latest row is the smoke's own.

The lemmas go by what a step may touch: the operator, the export, the script alone (before, in and after the backup), its row, and the daily run;
each has one frame lemma that gives the whole invariant, and the actions of the group are instances of it.

### Auto-pull: `GitAutoPullProofs`

| Theorem | Statement |
|---|---|
| `Invariance` | `Spec => []PullInv` |
| `KeepsToItsBranches` | `OnlyItsBranches` |
| `OnlyForward` | `NeverGoesBack` |

`PullInv` gives each run, by its `pc`, what it may rely on while the other runs and the operator use the same tree: its branches are those it was asked for (`Targets`),
a ref it has fetched is no newer than origin's (`Fetched`, `RefsInv`), what it has checked out is still checked out unless the operator switched (`CheckedOut`), and
what it is about to call up to date or pulled has been level (`WasLevel`, `ShownWasLevel`).

### Model-checked only

Liveness under fairness is out of the prover's reach: `JobsSettle` (twice), `ShutdownEnds`, `CallEnds`, `CatchesUp` (twice), `CardSettles`. So is
`RoundTrips`, by recursion over data. Every invariant and every action property of a passing run is proved; `JudgesItsRestore`,
`TimeoutIsOfAwaitedJob` and `ArraysRestore` are refuted.

## 5. Not modelled

| Part | Why |
|---|---|
| Adaptive polling | it only changes how long the loop sleeps, and every sleep ends; no property tells the lengths apart |
| Dry run of the pipeline | writes nothing |
| ffmpeg, ffprobe, PostgreSQL, psql, git, Docker | external: modelled by what the code relies on |
| R2 client: signing, streaming, pagination | I/O; list, put and delete with partial failure are in the modules that call them |
| Monitor: menus, window placement, settings file | presentation and I/O |
| Schema declarations | declarative; the columns the worker reads and writes are in the modules |
| Deployment files | declarative; the restart policy and the volume are used by the models |

## 6. Plan

Done: the queue, the worker, the backup, the verification, the pipeline, the dump and both halves of the monitor, and the rollout by hand, with the theorems about each. Left:

1. The polling interval and `msUntilNextBackup` in milliseconds as functions, if a property of them is found that the abstraction hides.

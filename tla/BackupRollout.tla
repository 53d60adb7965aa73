---------------------------- MODULE BackupRollout ----------------------------
(* Rolling the verified backup out by hand: the operator migrates the log   *)
(* and the application's schema, exports the bootstrap schema, prepares the *)
(* verify database from it, and runs preflight, smoke or status, all beside *)
(* the daily backup of a worker that may be from before the rollout.        *)
(* A schema is told apart by its version and by its backup_logs table.      *)
EXTENDS Naturals, Sequences, FiniteSets

CONSTANTS
    None,
    Part,         \* what is left of a schema file that was cut off
    Foreign,      \* the schema of another database, which has tables too
    MaxVersion,   \* schema changes of the application
    MaxRuns,      \* rows of the log, by the service and by hand
    MaxOperations,   \* what the operator changes
    MaxFaults   \* calls that fail or lose their answer, and kills

VARIABLES
    app,       \* the schema of DATABASE_URL
    verify,    \* the schema of BACKUP_VERIFY_DATABASE_URL, None without tables
    file,      \* bootstrap-redprint-schema.sql
    psql,      \* whether psql is in the PATH
    logs,      \* the rows of backup_logs, in the order of started_at
    smoke,     \* the process of backup-rollout-smoke or -status
    export,    \* the process of export-bootstrap-schema
    service,   \* the row of the daily run under way, 0 without one
    current,   \* history: file and database come from the live schema as it is
    spent

world == <<app, verify, file, psql, current>>
rolloutVars == <<app, verify, file, psql, logs, smoke, export, service, current, spent>>

ASSUME RolloutAssumption ==
    MaxVersion \in Nat /\ MaxRuns \in Nat /\ MaxOperations \in Nat /\ MaxFaults \in Nat

-----------------------------------------------------------------------------
(* backup_logs from before phase 3 gets its four columns one by one and at  *)
(* its end; one that is created has them in the middle, which makes it      *)
(* another schema for the fingerprint.                                      *)
LogTable == {"absent", "created", "legacy", "halfway", "migrated"}
HasPhase3Columns(log) == log \in {"created", "migrated"}
MigratedLog(log) ==
    CASE log = "absent" -> "created"
      [] log = "legacy" -> "halfway"
      [] log = "halfway" -> "migrated"

Schema == [version: 0..MaxVersion, log: LogTable]

BackupStatusEntry ==
    [status: {"running", "success", "failed"}, key: BOOLEAN,
     verification: {"none", "pending", "passed", "failed"}]
LoggedEntry == [run: 1..MaxRuns, row: BackupStatusEntry]

ASSUME NoneAssumption == None \notin Schema \cup LoggedEntry \cup {Part, Foreign}

Off == [pc |-> "off", mode |-> "none", env |-> TRUE, apart |-> TRUE, bad |-> FALSE,
        run |-> 0, manifest |-> None, cause |-> "none",
        phase3 |-> FALSE, latest |-> None, latestVerified |-> None, total |-> 0,
        quiet |-> FALSE, prepared |-> FALSE, alone |-> TRUE, told |-> TRUE]
Idle == [pc |-> "idle", content |-> None, since |-> FALSE]

RolloutInit ==
    /\ app \in [version: {0}, log: {"absent", "legacy"}]
    /\ verify \in {None, app} /\ file = app
    /\ psql = TRUE
    /\ logs = <<>> /\ service = 0 /\ smoke = Off /\ export = Idle
    /\ current = [file |-> FALSE, verify |-> FALSE]
    /\ spent = [changes |-> 0, failures |-> 0]

-----------------------------------------------------------------------------
Fault ==
    /\ spent.failures < MaxFaults
    /\ spent' = [spent EXCEPT !.failures = @ + 1]

At(label) == smoke.pc = label
Goto(label) == smoke' = [smoke EXCEPT !.pc = label]

(* Only the smoke process moves, or only it and the log. *)
SmokeOnly == UNCHANGED <<world, logs, export, service>>
SmokeAndLog == UNCHANGED <<world, export, service>>

-----------------------------------------------------------------------------
(* The operator, who disturbs what a script under way has looked at.        *)
OperatorChanges ==
    /\ spent.changes < MaxOperations
    /\ spent' = [spent EXCEPT !.changes = @ + 1]
    /\ UNCHANGED <<logs, service>>
Disturbs == smoke' = [smoke EXCEPT !.quiet = FALSE, !.prepared = FALSE]

(* The application's own migrations, and scripts/migrate-backup-logs.sql,   *)
(* whose statements commit one by one.                                      *)
MigrateApp ==
    /\ OperatorChanges /\ Disturbs
    /\ app' \in {[app EXCEPT !.version = @ + 1]} \cap Schema
    /\ current' = [file |-> FALSE, verify |-> FALSE]
    /\ export' = [export EXCEPT !.since = FALSE]
    /\ UNCHANGED <<verify, file, psql>>

MigrateLog ==
    /\ ~HasPhase3Columns(app.log)
    /\ IF app.log = "halfway" THEN UNCHANGED <<spent, logs, service>> ELSE OperatorChanges
    /\ Disturbs
    /\ app' = [app EXCEPT !.log = MigratedLog(@)]
    /\ current' = [file |-> FALSE, verify |-> FALSE]
    /\ export' = [export EXCEPT !.since = FALSE]
    /\ UNCHANGED <<verify, file, psql>>

(* psql "$BACKUP_VERIFY_DATABASE_URL" -f the bootstrap schema, into an      *)
(* emptied database; it may be cut off.                                     *)
Bootstrap ==
    /\ OperatorChanges /\ Disturbs
    /\ \/ verify' = file /\ current' = [current EXCEPT !.verify = current.file]
       \/ verify' = Part /\ current' = [current EXCEPT !.verify = FALSE]
    /\ UNCHANGED <<app, file, psql, export>>

InstallPsql ==
    /\ OperatorChanges /\ Disturbs /\ psql' = ~psql
    /\ UNCHANGED <<app, verify, file, current, export>>

-----------------------------------------------------------------------------
(* getSourceConfig(): BACKUP_ADMIN_DATABASE_URL goes before DATABASE_URL    *)
(* and may name any other database, with tables or without.                 *)
Dumped == {app, Foreign, None}

(* exportBootstrapSchema(): pg_dump, here or in docker, sees the schema as  *)
(* it is when it starts. History: since tells that it is the live one and   *)
(* that no migration has come since.                                        *)
StartPgDump ==
    /\ export.pc = "idle"
    /\ \E content \in Dumped, since \in BOOLEAN :
          /\ since <=> content = app
          /\ export' = [pc |-> "dump", content |-> content, since |-> since]
    /\ UNCHANGED <<world, logs, smoke, service, spent>>

(* Mutant: whatever pg_dump returned is written. *)
MutSchemaOnly(content) == TRUE

(* validateSchemaOnlySql(): no CREATE TABLE, no file. *)
SchemaOnly(content) == content # None

WriteBootstrapSchema ==
    /\ export.pc = "dump" /\ export' = Idle
    /\ IF SchemaOnly(export.content)
       THEN /\ file' = export.content
            /\ current' = [current EXCEPT !.file = export.since]
       ELSE UNCHANGED <<file, current>>
    /\ UNCHANGED <<app, verify, psql, logs, smoke, service, spent>>

(* pg_dump fails, or the write is cut off: writeFileSync() truncates first. *)
ExportFails ==
    /\ export.pc = "dump" /\ Fault /\ export' = Idle
    /\ \/ UNCHANGED <<file, current>>
       \/ file' = Part /\ current' = [current EXCEPT !.file = FALSE] /\ SchemaOnly(export.content)
    /\ UNCHANGED <<app, verify, psql, logs, smoke, service>>

-----------------------------------------------------------------------------
(* A process has the environment that .env gave it when it started:         *)
(* complete or not, the verify database apart from the live one or not.     *)
Environment == [complete: BOOLEAN, apart: BOOLEAN]

(* A smoke run begins with the preflight, the status with the snapshot.     *)
BeginScript ==
    /\ At("off") /\ SmokeOnly /\ UNCHANGED spent
    /\ \/ smoke' = [Off EXCEPT !.pc = "table", !.mode = "status"]
       \/ \E e \in Environment :
             smoke' = [Off EXCEPT !.pc = "env", !.mode = "smoke",
                                  !.env = e.complete, !.apart = e.apart,
                                  !.quiet = TRUE, !.prepared = current.verify]

(* runBackupRolloutPreflight(): up to the first await. What it complains of *)
(* ends the script.                                                         *)
CheckEnvironment ==
    /\ At("env") /\ SmokeOnly /\ UNCHANGED spent
    /\ smoke' = IF smoke.env
                THEN [smoke EXCEPT !.pc = "logTable", !.bad = ~(smoke.apart /\ psql)]
                ELSE Off

InspectTable ==
    /\ At("logTable") /\ SmokeOnly /\ UNCHANGED spent
    /\ smoke' = IF app.log = "absent"
                THEN [smoke EXCEPT !.pc = "verifyDb", !.bad = TRUE]
                ELSE [smoke EXCEPT !.pc = "columns"]

InspectColumns ==
    /\ At("columns") /\ SmokeOnly /\ UNCHANGED spent
    /\ smoke' = [smoke EXCEPT !.pc = "verifyDb", !.bad = @ \/ ~HasPhase3Columns(app.log)]

(* Mutant: a verify database without tables is ready as well. *)
MutHasTables == TRUE

(* The number of public tables is all that is asked of the verify database. *)
HasTables == verify # None
InspectVerifyDb ==
    /\ At("verifyDb") /\ SmokeOnly /\ UNCHANGED spent
    /\ smoke' = IF smoke.bad \/ ~HasTables THEN Off ELSE [smoke EXCEPT !.pc = "start"]

InspectFails ==
    /\ Fault /\ SmokeOnly
    /\ \/ /\ smoke.pc \in {"logTable", "columns"}
          /\ smoke' = [smoke EXCEPT !.pc = "verifyDb", !.bad = TRUE]
       \/ At("verifyDb") /\ smoke' = Off

-----------------------------------------------------------------------------
(* executeBackup() with skipRetention. The start may be lost, or its answer. *)
NewRow == [status |-> "running", key |-> FALSE, verification |-> "pending"]
LogStart ==
    /\ At("start") /\ Len(logs) < MaxRuns /\ SmokeAndLog
    /\ \/ /\ HasPhase3Columns(app.log) /\ UNCHANGED spent
          /\ logs' = Append(logs, NewRow)
          /\ smoke' = [smoke EXCEPT !.pc = "dump", !.run = Len(logs) + 1, !.alone = TRUE]
       \/ /\ IF HasPhase3Columns(app.log)
             THEN Fault /\ logs' \in {logs, Append(logs, NewRow)}
             ELSE UNCHANGED <<logs, spent>>
          /\ smoke' = [smoke EXCEPT !.pc = "dump", !.alone = TRUE, !.told = FALSE]

Throws(cause) == smoke' = [smoke EXCEPT !.pc = "logFailed", !.cause = cause]

Dump ==
    /\ At("dump") /\ SmokeOnly
    /\ \/ /\ UNCHANGED spent
          /\ IF smoke.env THEN smoke' = [smoke EXCEPT !.pc = "upload", !.manifest = app]
             ELSE Throws("env")
       \/ Fault /\ Throws("other")

Upload ==
    /\ At("upload") /\ SmokeOnly
    /\ \/ Goto("logUpload") /\ UNCHANGED spent
       \/ Fault /\ Throws("other")

(* An UPDATE of the run's own row; a lost one is ignored by the run. *)
WriteRow(row, next) ==
    /\ SmokeAndLog
    /\ \/ /\ UNCHANGED spent /\ smoke' = next
          /\ logs' = IF smoke.run # 0 THEN [logs EXCEPT ![smoke.run] = row] ELSE logs
       \/ /\ smoke.run # 0 /\ Fault /\ UNCHANGED logs
          /\ smoke' = [next EXCEPT !.told = FALSE]

LogUpload ==
    /\ At("logUpload")
    /\ WriteRow([NewRow EXCEPT !.key = TRUE], [smoke EXCEPT !.pc = "check"])

(* verifyBackupFromR2(): what it asks of its environment and, before the    *)
(* restore, of the schema.                                                  *)
CheckPreparedSchema ==
    /\ At("check") /\ SmokeOnly /\ UNCHANGED spent
    /\ CASE ~smoke.apart -> Throws("same")
         [] smoke.apart /\ verify = None -> Throws("tables")
         [] smoke.apart /\ verify # None /\ verify # smoke.manifest -> Throws("schema")
         [] OTHER -> Goto("restore")

Restore ==
    /\ At("restore") /\ SmokeOnly
    /\ \/ /\ psql /\ UNCHANGED spent
          /\ smoke' = [smoke EXCEPT !.pc = "logSuccess", !.cause = "passed"]
       \/ ~psql /\ Throws("psql") /\ UNCHANGED spent
       \/ verify # smoke.manifest /\ Throws("schema") /\ UNCHANGED spent
       \/ Fault /\ Throws("restore")

AfterRun == [smoke EXCEPT !.pc = "table", !.manifest = None, !.quiet = FALSE, !.prepared = FALSE]

LogSuccess ==
    /\ At("logSuccess")
    /\ WriteRow([status |-> "success", key |-> TRUE, verification |-> "passed"], AfterRun)

(* verifyBackupFromR2() throws for its configuration, which leaves the      *)
(* verification pending, and returns its other failures.                    *)
LogFailed ==
    /\ At("logFailed")
    /\ LET row == IF smoke.run = 0 THEN NewRow ELSE logs[smoke.run]
       IN  WriteRow([row EXCEPT !.status = "failed",
                !.verification = IF smoke.cause \in {"tables", "schema", "psql", "restore"}
                                 THEN "failed" ELSE @], AfterRun)

-----------------------------------------------------------------------------
(* readBackupRolloutSnapshot(): statements of their own. *)
SnapshotTable ==
    /\ At("table") /\ SmokeOnly /\ UNCHANGED spent
    /\ Goto(IF app.log = "absent" THEN "report" ELSE "phase3")

SnapshotColumns ==
    /\ At("phase3") /\ SmokeOnly /\ UNCHANGED spent
    /\ smoke' = [smoke EXCEPT !.pc = "latest", !.phase3 = HasPhase3Columns(app.log)]

(* ORDER BY started_at DESC LIMIT 1 *)
Newest(rows) ==
    IF rows = {} THEN None
    ELSE LET r == CHOOSE r \in rows : \A q \in rows : q <= r
         IN  [run |-> r, row |-> logs[r]]

RestoreVerified ==
    {r \in DOMAIN logs : logs[r].status = "success" /\ logs[r].verification = "passed"}

(* Without the columns they are read as NULL. *)
SnapshotLatest ==
    /\ At("latest") /\ SmokeOnly /\ UNCHANGED spent
    /\ LET latest == Newest(DOMAIN logs)
       IN  smoke' = IF smoke.phase3 \/ latest = None
                    THEN [smoke EXCEPT !.pc = IF smoke.phase3 THEN "verified" ELSE "report",
                                       !.latest = latest]
                    ELSE [smoke EXCEPT !.pc = "report",
                                       !.latest = [latest EXCEPT !.row.verification = "none"]]

SnapshotVerified ==
    /\ At("verified") /\ SmokeOnly /\ UNCHANGED spent
    /\ smoke' = [smoke EXCEPT !.pc = "total", !.latestVerified = Newest(RestoreVerified)]

SnapshotTotal ==
    /\ At("total") /\ SmokeOnly /\ UNCHANGED spent
    /\ smoke' = [smoke EXCEPT !.pc = "report", !.total = Cardinality(RestoreVerified)]

getBackupUiState(row) ==
    CASE row.status = "running" ->
            IF row.key /\ row.verification = "pending" THEN "verifying" ELSE "running"
      [] row.status = "success" ->
            IF row.verification = "passed" THEN "verified" ELSE "legacy"
      [] row.status = "failed" ->
            IF row.verification = "failed" THEN "failed-verification" ELSE "failed"

UiState(entry) == IF entry = None THEN "none" ELSE getBackupUiState(entry.row)

(* Mutant: the light of the last verified backup is asked for. *)
MutSmokeFailure ==
    IF ~smoke.phase3 THEN "columns"
    ELSE IF smoke.latest = None THEN "no row"
    ELSE IF UiState(smoke.latestVerified) # "verified" THEN "not green"
    ELSE "none"

getRolloutSmokeFailure ==
    IF ~smoke.phase3 THEN "columns"
    ELSE IF smoke.latest = None THEN "no row"
    ELSE IF UiState(smoke.latest) # "verified" THEN "not green"
    ELSE IF smoke.latestVerified = None THEN "no verified"
    ELSE "none"

(* A script ends, or goes down: killed, or the snapshot throws.            *)
ScriptEnds ==
    /\ smoke' = Off /\ SmokeOnly
    /\ IF At("report") THEN UNCHANGED spent ELSE ~At("off") /\ Fault

-----------------------------------------------------------------------------
(* The daily run of a worker from before the rollout, which writes none of  *)
(* the new columns, or from after it, which needs them all.                 *)
OldRow == [NewRow EXCEPT !.verification = "none"]
ServiceBegins ==
    /\ service = 0 /\ Len(logs) < MaxRuns /\ app.log # "absent"
    /\ \E row \in {OldRow} \cup (IF HasPhase3Columns(app.log) THEN {NewRow} ELSE {}) :
          logs' = Append(logs, row)
    /\ service' = Len(logs) + 1
    /\ smoke' = [smoke EXCEPT !.alone = At("off")]
    /\ UNCHANGED <<world, export, spent>>

LaterRows(row) ==
    LET verdict(v) == IF row.verification = "none" THEN "none" ELSE v
    IN  IF ~row.key
        THEN {[row EXCEPT !.key = TRUE], [row EXCEPT !.status = "failed"]}
        ELSE {[row EXCEPT !.status = "success", !.verification = verdict("passed")],
              [row EXCEPT !.status = "failed", !.verification = verdict("failed")]}

ServiceLogs ==
    /\ service # 0
    /\ \E row \in LaterRows(logs[service]) :
          /\ logs' = [logs EXCEPT ![service] = row]
          /\ service' = IF row.status = "running" THEN service ELSE 0
    /\ UNCHANGED <<world, smoke, export, spent>>

(* It goes down, and its row stays as it is. *)
ServiceDies ==
    /\ service # 0 /\ service' = 0 /\ Fault
    /\ UNCHANGED <<world, logs, smoke, export>>

-----------------------------------------------------------------------------
RolloutNext ==
    \/ MigrateApp \/ MigrateLog \/ Bootstrap \/ InstallPsql
    \/ StartPgDump \/ WriteBootstrapSchema \/ ExportFails
    \/ BeginScript \/ ScriptEnds
    \/ CheckEnvironment \/ InspectTable \/ InspectColumns \/ InspectVerifyDb \/ InspectFails
    \/ LogStart \/ Dump \/ Upload \/ LogUpload \/ CheckPreparedSchema \/ Restore
    \/ LogSuccess \/ LogFailed
    \/ SnapshotTable \/ SnapshotColumns \/ SnapshotLatest \/ SnapshotVerified \/ SnapshotTotal
    \/ ServiceBegins \/ ServiceLogs \/ ServiceDies

RolloutSpec == RolloutInit /\ [][RolloutNext]_rolloutVars

-----------------------------------------------------------------------------
(* The labels of the preflight, the backup and the snapshot. *)
Preflight == {"env", "logTable", "columns", "verifyDb"}
Pipeline == {"dump", "upload", "logUpload", "check", "restore", "logSuccess", "logFailed"}
Snapshot == {"table", "phase3", "latest", "verified", "total", "report"}

Failure == {"env", "other", "same", "tables", "schema", "psql", "restore"}
Script == [pc: {"off", "start"} \cup Preflight \cup Pipeline \cup Snapshot,
           mode: {"none", "smoke", "status"}, env: BOOLEAN, apart: BOOLEAN, bad: BOOLEAN,
           run: 0..MaxRuns, manifest: Schema \cup {None},
           cause: {"none", "passed"} \cup Failure,
           phase3: BOOLEAN, latest: LoggedEntry \cup {None},
           latestVerified: LoggedEntry \cup {None}, total: 0..MaxRuns,
           quiet: BOOLEAN, prepared: BOOLEAN, alone: BOOLEAN, told: BOOLEAN]

RolloutTypeOK ==
    /\ app \in Schema
    /\ verify \in Schema \cup {None, Part, Foreign} /\ file \in Schema \cup {Part, Foreign}
    /\ psql \in BOOLEAN
    /\ logs \in Seq(BackupStatusEntry) /\ Len(logs) <= MaxRuns /\ service \in 0..Len(logs)
    /\ smoke \in Script /\ smoke.run <= Len(logs)
    /\ export \in [pc: {"idle", "dump"}, content: Schema \cup {None, Foreign}, since: BOOLEAN]
    /\ current \in [file: BOOLEAN, verify: BOOLEAN]
    /\ spent \in [changes: 0..MaxOperations, failures: 0..MaxFaults]

(* The bootstrap file is never replaced by an export without tables. One    *)
(* that was exported from the live database since the last migration has    *)
(* the schema as it is, and so has the verify database that was made from   *)
(* it, whatever was exported, cut off, retried or migrated in between       *)
(* (docs/backup/verify-db-schema-ops.md). Nothing is said of an export from *)
(* another database, which the script takes as long as it has tables.       *)
BootstrapIsCurrent ==
    /\ file # None
    /\ export.since => export.content = app
    /\ current.file => file = app
    /\ current.verify => verify = app

(* What a script has behind it, by its label.                               *)
StageInv ==
    /\ smoke.pc \in {"off", "start"} \cup Preflight => smoke.run = 0 /\ smoke.cause = "none"
    /\ smoke.pc \in {"start"} \cup Preflight \cup Pipeline => smoke.mode = "smoke"
    /\ smoke.pc \in Pipeline \ {"logSuccess", "logFailed"} => smoke.cause = "none"
    /\ At("logSuccess") => smoke.cause = "passed"
    /\ At("logFailed") => smoke.cause \in Failure
    /\ smoke.pc \in Snapshot =>
          IF smoke.mode = "smoke" THEN smoke.cause # "none"
          ELSE smoke.cause = "none" /\ smoke.run = 0
    /\ smoke.pc \notin {"verified", "total", "report"} => smoke.latest = None
    /\ smoke.pc \notin {"total", "report"} => smoke.latestVerified = None

(* What the preflight has found stays so until something it looked at is    *)
(* changed, and so does what the backup has compared since.                 *)
ReadyInv ==
    /\ smoke.prepared => smoke.quiet /\ verify = app
    /\ smoke.quiet =>
          /\ smoke.pc \in {"start"} \cup Preflight \cup Pipeline
          /\ smoke.pc # "env" => smoke.env
          /\ smoke.pc # "env" /\ ~smoke.bad => smoke.apart /\ psql
          /\ At("verifyDb") /\ ~smoke.bad => HasPhase3Columns(app.log)
          /\ smoke.pc \in {"start"} \cup Pipeline =>
                ~smoke.bad /\ HasTables /\ HasPhase3Columns(app.log)
          /\ smoke.pc \in {"upload", "logUpload", "check", "restore"} => smoke.manifest = app
          /\ smoke.pc \in {"restore", "logSuccess"} => verify = app
          /\ At("logFailed") => /\ smoke.cause \in {"other", "schema", "restore"}
                                /\ smoke.cause = "schema" => verify # app

(* A run that is on its way owns an open row; the two have their own, and   *)
(* the smoke's is the newest as long as the service began none.             *)
RunsApart ==
    /\ service # 0 => service # smoke.run /\ logs[service].status = "running"
    /\ smoke.run # 0 =>
          /\ HasPhase3Columns(app.log)
          /\ smoke.pc \in Pipeline => logs[smoke.run].status = "running"
          /\ smoke.pc \in Snapshot /\ logs[smoke.run].status = "success" =>
                smoke.cause = "passed"
          /\ smoke.alone => smoke.run = Len(logs)
    /\ smoke.pc \in Pipeline /\ smoke.told => smoke.run # 0
    /\ smoke.pc \in Snapshot /\ smoke.told /\ smoke.cause = "passed" =>
          smoke.run \in RestoreVerified

(* What a snapshot has read so far, although the log went on.               *)
SnapshotInv ==
    /\ smoke.pc \in {"verified", "total"} => smoke.phase3
    /\ smoke.pc \in Snapshot \ {"table", "phase3"} /\ smoke.run # 0 => smoke.phase3
    /\ smoke.pc \in {"verified", "total", "report"} /\ smoke.run # 0 => smoke.latest # None
    /\ smoke.latest # None =>
          /\ UiState(smoke.latest) = "verified" =>
                smoke.phase3 /\ smoke.latest.run \in RestoreVerified
          /\ smoke.run # 0 /\ smoke.alone => smoke.latest.run = smoke.run
          /\ smoke.run # 0 /\ smoke.alone /\ smoke.told /\ smoke.cause = "passed" =>
                UiState(smoke.latest) = "verified"
    /\ smoke.latestVerified # None => smoke.latestVerified.run \in RestoreVerified
    /\ smoke.pc \in {"total", "report"} /\ UiState(smoke.latest) = "verified" =>
          /\ smoke.latestVerified # None
          /\ smoke.latestVerified.run >= smoke.latest.run
    /\ At("report") /\ smoke.latestVerified # None => smoke.total > 0

RolloutInv ==
    RolloutTypeOK /\ BootstrapIsCurrent /\ StageInv /\ ReadyInv /\ RunsApart /\ SnapshotInv

(* A backup behind a passed preflight does not fail for what the preflight  *)
(* looks at, as long as nothing it read live was changed since it began.    *)
(* The preflight asks of the verify database only whether there are tables: *)
(* one prepared before a migration, from a file that was cut off or from    *)
(* another database gets through it, and fails for its schema, never        *)
(* passes. One prepared in the documented order from the live database      *)
(* (migrate, export, prepare) does not fail for its schema.                 *)
ReadyMeansItRuns ==
    smoke.quiet =>
        /\ smoke.cause \notin {"env", "same", "tables", "psql"}
        /\ smoke.cause = "schema" => verify # app
        /\ smoke.cause = "passed" => verify = app
        /\ smoke.prepared => smoke.cause # "schema"
        /\ smoke.pc \in {"dump", "upload"} => HasPhase3Columns(app.log)

(* The parts of a snapshot agree, although they are read one after the      *)
(* other while backups go on: behind a green latest row there is a verified *)
(* one at least as new and counted, so the smoke's last complaint is never  *)
(* made; without the columns nothing is green.                              *)
SnapshotAgrees ==
    At("report") =>
        /\ getRolloutSmokeFailure # "no verified"
        /\ UiState(smoke.latest) = "verified" =>
              smoke.phase3 /\ smoke.latestVerified.run >= smoke.latest.run
        /\ smoke.latestVerified # None => smoke.total > 0

(* The smoke judges the newest row, which is its own unless the service has *)
(* begun a backup meanwhile: then, and if its start was logged, it passes   *)
(* only when its own object was verified, and it does pass if no statement  *)
(* about that was lost.                                                     *)
JudgesItsRun ==
    At("report") /\ smoke.mode = "smoke" /\ smoke.alone =>
        /\ smoke.run # 0 /\ getRolloutSmokeFailure = "none" => smoke.cause = "passed"
        /\ smoke.told /\ smoke.cause = "passed" => getRolloutSmokeFailure = "none"

(* What smoke and status report can be believed.                            *)
ReportIsRight == SnapshotAgrees /\ JudgesItsRun
=============================================================================

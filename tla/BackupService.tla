---------------------------- MODULE BackupService ----------------------------
(***************************************************************************)
(* The verified daily backup: the scheduler inside the worker process      *)
(* (backup/backup-scheduler.ts), the manual rollout smoke run              *)
(* (scripts/backup-rollout-smoke.ts), the rows of backup_logs              *)
(* (backup-logger.ts), the objects under backups/v2/ in R2                 *)
(* (backup-uploader.ts) and their retention (retention.ts).                *)
(*                                                                         *)
(* Both processes execute the same pipeline and share the rows and the     *)
(* objects without a lock. An action is the code up to the end of the next *)
(* await: every remote call may succeed, fail, or succeed and lose its     *)
(* answer. Time is counted in ticks, DayLen to the day: a tick is the      *)
(* second by which objects are named, so that two runs that name theirs in *)
(* one tick share a key. What a dump holds is reduced to whether restoring *)
(* it would pass the verification.                                         *)
(***************************************************************************)
EXTENDS Integers, FiniteSets

CONSTANTS
    Null,
    DayLen,         \* ticks in a day
    BackupHour,     \* BACKUP_HOUR_UTC, a tick of the day
    RetentionDays,  \* BACKUP_RETENTION_DAYS
    MinKeep,        \* MIN_BACKUPS_TO_KEEP
    MaxRun,         \* the longest a pipeline may take, in ticks
    MaxRuns,        \* bound: pipelines started
    MaxClock        \* bound: the last tick

ASSUME NullAssumption == Null \notin Nat
ASSUME CalendarAssumption ==
    /\ DayLen \in Nat \ {0} /\ BackupHour \in 0..DayLen - 1
    /\ RetentionDays \in Nat \ {0} /\ MinKeep \in Nat \ {0}
    /\ MaxRun \in Nat /\ MaxRun < RetentionDays * DayLen
ASSUME BoundAssumption ==
    MaxRuns \in Nat /\ MaxClock \in Nat

VARIABLES
    clock,
    objects,    \* R2: the objects under BACKUP_PREFIX
    key,        \* the key each run has given its object
    logs,       \* backup_logs, by the number of the run that wrote the row
    pc,         \* where each process is
    cur,        \* the local variables of each process's executeBackup()
    timer,      \* when the service's timer fires
    stopped,    \* the service's flag of that name
    runs,       \* runs started so far
    verified,   \* history: the runs whose verification passed
    lastFired,  \* history: when the service last started a run
    smoke       \* the verdict of the last smoke run and the run it judged

vars == <<clock, objects, key, logs, pc, cur, timer, stopped, runs, verified,
          lastFired, smoke>>

Process == {"service", "manual"}
Run == 1..MaxRuns

(* An object, by the run that put it; its key is the one of that run. *)
Object == [run: Run, lastModified: Nat, good: BOOLEAN]

LogRow == [status: {"none", "running", "success", "failed"},
           r2Key: BOOLEAN, verification: {"none", "pending", "passed", "failed"}]

NoRow == [status |-> "none", r2Key |-> FALSE, verification |-> "none"]
StartedRow == [status |-> "running", r2Key |-> FALSE, verification |-> "pending"]

Pipeline == {"logStart", "dump", "upload", "logUpload", "verify", "list", "delete",
             "logSuccess", "logFailed"}
Label == {"down", "checking", "ready", "snapshot"} \cup Pipeline

(* run: 0 outside a run; logged: logId # null; doomed: keysToDelete;       *)
(* began: the start of the run; unverified: verificationFailed.            *)
Locals == [run: 0..MaxRuns, logged: BOOLEAN, began: Nat, doomed: SUBSET Object,
           unverified: BOOLEAN]
NoLocals == [run |-> 0, logged |-> FALSE, began |-> 0, doomed |-> {},
             unverified |-> FALSE]

Running(p) == pc[p] \in Pipeline
Day(t) == t \div DayLen

-----------------------------------------------------------------------------
(* Mutant: a day from now instead of the next backup hour. *)
MutDayFromNow(skipToday) == clock + DayLen

(* Mutant: the boundary of the comparison. *)
MutTargetPassed(skipToday) ==
    LET target == Day(clock) * DayLen + BackupHour
    IN  IF skipToday \/ target < clock THEN target + DayLen ELSE target

(* msUntilNextBackup(): when the next backup is due. *)
NextBackup(skipToday) ==
    LET target == Day(clock) * DayLen + BackupHour
    IN  IF skipToday \/ target <= clock THEN target + DayLen ELSE target

(* Mutant: the finally block of a run sets a timer although stop() ran. *)
MutScheduleAlways(skipToday) == NextBackup(skipToday)

(* scheduleNext(): the timer it leaves. *)
ScheduleNext(skipToday) == IF stopped THEN Null ELSE NextBackup(skipToday)

(* todayBackupExists(): any object whose name carries today's date. *)
TodayBackupExists == \E o \in objects : Day(key[o.run]) = Day(clock)

(* Mutant: the age is not looked at. *)
MutTooOld(o) == TRUE

(* Older than the retention period. *)
TooOld(o) == o.lastModified < clock - RetentionDays * DayLen

(* applyRetention(): keysToDelete. Oldest first, never below MinKeep.      *)
Doomed ==
    LET old == {o \in objects : TooOld(o)}
        spare == Cardinality(objects) - MinKeep
    IN  {d \in SUBSET old :
           /\ Cardinality(d) = IF spare <= 0 THEN 0
                               ELSE IF Cardinality(old) < spare THEN Cardinality(old)
                               ELSE spare
           /\ \A o \in d, k \in objects \ d : o.lastModified <= k.lastModified}

(* What the UPDATEs of backup-logger.ts write. *)
UploadedRow(row) ==
    [row EXCEPT !.status = "running", !.r2Key = TRUE, !.verification = "pending"]
SuccessRow(row) == [status |-> "success", r2Key |-> TRUE, verification |-> "passed"]

FailedRow(row, unverified) ==
    [row EXCEPT !.status = "failed",
                !.verification = IF unverified THEN "failed" ELSE @]

-----------------------------------------------------------------------------
Init ==
    /\ clock = 0
    /\ objects = {}
    /\ key = [r \in Run |-> Null]
    /\ logs = [r \in Run |-> NoRow]
    /\ pc = [p \in Process |-> "down"]
    /\ cur = [p \in Process |-> NoLocals]
    /\ timer = Null /\ stopped = FALSE
    /\ runs = 0
    /\ verified = {} /\ lastFired = Null
    /\ smoke = [passed |-> FALSE, run |-> 0]

(* Timers fire on time and no run is longer than MaxRun. *)
Tick ==
    /\ clock < MaxClock
    /\ timer # Null => clock < timer
    /\ \A p \in Process : Running(p) => clock < cur[p].began + MaxRun
    /\ clock' = clock + 1
    /\ UNCHANGED <<objects, key, logs, pc, cur, timer, stopped, runs, verified,
                   lastFired, smoke>>

-----------------------------------------------------------------------------
(* The scheduler. *)

(* startBackupScheduler() *)
Boot ==
    /\ pc["service"] = "down"
    /\ pc' = [pc EXCEPT !["service"] = "checking"]
    /\ stopped' = FALSE
    /\ UNCHANGED <<clock, objects, key, logs, cur, timer, runs, verified, lastFired,
                   smoke>>

(* The listing comes back, or fails: then today counts as not backed up. *)
Checked ==
    /\ pc["service"] = "checking"
    /\ pc' = [pc EXCEPT !["service"] = "ready"]
    /\ \E exists \in {TodayBackupExists, FALSE} : timer' = ScheduleNext(exists)
    /\ UNCHANGED <<clock, objects, key, logs, cur, stopped, runs, verified, lastFired,
                   smoke>>

Begin(p) ==
    /\ runs < MaxRuns
    /\ runs' = runs + 1
    /\ pc' = [pc EXCEPT ![p] = "logStart"]
    /\ cur' = [cur EXCEPT ![p] = [NoLocals EXCEPT !.run = runs + 1, !.began = clock]]

(* The timer fires: executeBackup(). *)
Fire ==
    /\ pc["service"] = "ready" /\ timer = clock
    /\ Begin("service")
    /\ timer' = Null
    /\ lastFired' = clock
    /\ UNCHANGED <<clock, objects, key, logs, stopped, verified, smoke>>

(* stopBackupScheduler(): the timer is cleared. *)
Stop ==
    /\ pc["service"] # "down" /\ ~stopped
    /\ stopped' = TRUE /\ timer' = Null
    /\ UNCHANGED <<clock, objects, key, logs, pc, cur, runs, verified, lastFired,
                   smoke>>

(* The worker process goes down: stop() has returned, its wait for the     *)
(* running backup included or timed out, or the process was killed.        *)
Exit ==
    /\ pc["service"] # "down"
    /\ pc' = [pc EXCEPT !["service"] = "down"]
    /\ cur' = [cur EXCEPT !["service"] = NoLocals]
    /\ timer' = Null /\ stopped' = FALSE
    /\ UNCHANGED <<clock, objects, key, logs, runs, verified, lastFired, smoke>>

-----------------------------------------------------------------------------
(* The rollout smoke run. *)

(* runBackupOnce(): executeBackup({skipRetention: true}). *)
SmokeStarts ==
    /\ pc["manual"] = "down"
    /\ Begin("manual")
    /\ UNCHANGED <<clock, objects, key, logs, timer, stopped, verified, lastFired,
                   smoke>>

(* The row readBackupRolloutSnapshot() takes for the latest. *)
Latest ==
    LET rows == {r \in Run : logs[r].status # "none"}
    IN  IF rows = {} THEN NoRow ELSE logs[CHOOSE r \in rows : \A q \in rows : q <= r]

(* getRolloutSmokeFailure() judges the latest row. *)
SmokeVerdict ==
    /\ pc["manual"] = "snapshot"
    /\ smoke' = [passed |-> Latest.status = "success" /\ Latest.verification = "passed",
                 run |-> cur["manual"].run]
    /\ pc' = [pc EXCEPT !["manual"] = "down"]
    /\ cur' = [cur EXCEPT !["manual"] = NoLocals]
    /\ UNCHANGED <<clock, objects, key, logs, timer, stopped, runs, verified,
                   lastFired>>

(* The script is interrupted, or a read of the rows throws: no verdict. *)
SmokeAborts ==
    /\ pc["manual"] # "down"
    /\ pc' = [pc EXCEPT !["manual"] = "down"]
    /\ cur' = [cur EXCEPT !["manual"] = NoLocals]
    /\ UNCHANGED <<clock, objects, key, logs, timer, stopped, runs, verified,
                   lastFired, smoke>>

-----------------------------------------------------------------------------
(* executeBackup(), step by step. *)

Goto(p, label) == pc' = [pc EXCEPT ![p] = label]

(* An await of p ended: it goes on at label; the scheduler does not move. *)
Continue(p, label) ==
    /\ Goto(p, label)
    /\ UNCHANGED <<clock, timer, stopped, runs, lastFired, smoke>>

(* The catch block. *)
Throw(p, unverified) ==
    /\ Continue(p, "logFailed")
    /\ cur' = [cur EXCEPT ![p].unverified = unverified]
    /\ UNCHANGED <<key, verified>>

(* Mutant: the newest row instead of the run's own. *)
MutWriteRow(p, row) ==
    logs' \in IF cur[p].logged THEN {logs, [logs EXCEPT ![runs] = row]} ELSE {logs}

(* A statement on the row of p's run: skipped without a logId; applied; or *)
(* lost. The pipeline swallows its errors.                                 *)
WriteRow(p, row) ==
    LET r == cur[p].run
    IN  logs' \in IF cur[p].logged THEN {logs, [logs EXCEPT ![r] = row]} ELSE {logs}

(* logBackupStart(): when its answer is lost the row has no writer. *)
LogStart(p) ==
    /\ pc[p] = "logStart"
    /\ \E applied, answered \in BOOLEAN :
         /\ answered => applied
         /\ logs' = IF applied THEN [logs EXCEPT ![cur[p].run] = StartedRow] ELSE logs
         /\ cur' = [cur EXCEPT ![p].logged = answered]
    /\ Continue(p, "dump")
    /\ UNCHANGED <<objects, key, verified>>

KeyOf(p) == key[cur[p].run]

(* uploadBackup() up to the put: the object is named after the second. *)
NameObject(p) == key' = [key EXCEPT ![cur[p].run] = clock]

(* runPgDump(), and what follows it at once. *)
Dump(p) ==
    /\ pc[p] = "dump"
    /\ \/ Continue(p, "upload") /\ NameObject(p) /\ UNCHANGED <<cur, verified>>
       \/ Throw(p, FALSE)
    /\ UNCHANGED <<objects, logs>>

(* The put is unconditional: an object of the same key is replaced. *)
PutObject(p, good) ==
    objects' = {o \in objects : key[o.run] # KeyOf(p)} \cup
               {[run |-> cur[p].run, lastModified |-> clock, good |-> good]}

(* uploadToR2() *)
Upload(p) ==
    /\ pc[p] = "upload"
    /\ \/ /\ \E good \in BOOLEAN : PutObject(p, good)
          /\ \/ Continue(p, "logUpload") /\ UNCHANGED <<cur, key, verified>>
             \/ Throw(p, FALSE)
       \/ Throw(p, FALSE) /\ UNCHANGED objects
    /\ UNCHANGED logs

(* logBackupUploadComplete() *)
LogUpload(p) ==
    /\ pc[p] = "logUpload"
    /\ WriteRow(p, UploadedRow(logs[cur[p].run]))
    /\ Continue(p, "verify")
    /\ UNCHANGED <<objects, key, cur, verified>>

(* Mutant: retention also runs after a failed verification. *)
MutAfterVerify(p, passed) == IF p = "manual" THEN "logSuccess" ELSE "list"

(* Where the pipeline goes on: the smoke run skips the retention. *)
AfterVerify(p, passed) ==
    IF ~passed THEN "logFailed" ELSE IF p = "manual" THEN "logSuccess" ELSE "list"

(* verifyBackupFromR2(), of what lies under the key by now: passes,        *)
(* answers passed: false, or throws.                                       *)
Verify(p) ==
    /\ pc[p] = "verify"
    /\ \/ \E o \in objects, passed \in BOOLEAN :
            /\ key[o.run] = KeyOf(p)
            /\ passed => o.good
            /\ Continue(p, AfterVerify(p, passed))
            /\ cur' = [cur EXCEPT ![p].unverified = ~passed]
            /\ verified' = IF passed THEN verified \cup {cur[p].run} ELSE verified
            /\ UNCHANGED key
       \/ Throw(p, FALSE)
    /\ UNCHANGED <<objects, logs>>

(* applyRetention(): the listing and the choice; its errors are swallowed. *)
List(p) ==
    /\ pc[p] = "list"
    /\ \/ /\ \E d \in Doomed : cur' = [cur EXCEPT ![p].doomed = d]
          /\ Continue(p, "delete")
       \/ Continue(p, "logSuccess") /\ UNCHANGED cur
    /\ UNCHANGED <<objects, key, logs, verified>>

(* deleteMultipleFromR2(), by key: any part of the request may fail. *)
Delete(p) ==
    /\ pc[p] = "delete"
    /\ \E gone \in SUBSET cur[p].doomed :
         objects' = {o \in objects : \A d \in gone : key[d.run] # key[o.run]}
    /\ Continue(p, "logSuccess")
    /\ UNCHANGED <<key, logs, cur, verified>>

(* The finally block: the service schedules the next run. *)
Finally(p) ==
    /\ Goto(p, IF p = "service" THEN "ready" ELSE "snapshot")
    /\ cur' = [cur EXCEPT ![p] = IF p = "service" THEN NoLocals ELSE @]
    /\ timer' = IF p = "service" THEN ScheduleNext(TRUE) ELSE timer
    /\ UNCHANGED <<clock, objects, key, stopped, runs, verified, lastFired, smoke>>

(* logBackupSuccess() *)
LogSuccess(p) ==
    /\ pc[p] = "logSuccess"
    /\ WriteRow(p, SuccessRow(logs[cur[p].run]))
    /\ Finally(p)

(* logBackupFailed() *)
LogFailed(p) ==
    /\ pc[p] = "logFailed"
    /\ WriteRow(p, FailedRow(logs[cur[p].run], cur[p].unverified))
    /\ Finally(p)

Next ==
    \/ Tick \/ Boot \/ Checked \/ Fire \/ Stop \/ Exit
    \/ SmokeStarts \/ SmokeVerdict \/ SmokeAborts
    \/ \E p \in Process : \/ LogStart(p) \/ Dump(p) \/ Upload(p) \/ LogUpload(p)
                          \/ Verify(p) \/ List(p) \/ Delete(p)
                          \/ LogSuccess(p) \/ LogFailed(p)

Spec == Init /\ [][Next]_vars
-----------------------------------------------------------------------------
TypeOK ==
    /\ clock \in Nat
    /\ objects \subseteq Object
    /\ key \in [Run -> Nat \cup {Null}]
    /\ logs \in [Run -> LogRow]
    /\ pc \in [Process -> Label]
    /\ cur \in [Process -> Locals]
    /\ timer \in Nat \cup {Null}
    /\ stopped \in BOOLEAN
    /\ runs \in 0..MaxRuns
    /\ verified \subseteq Run
    /\ lastFired \in Nat \cup {Null}
    /\ smoke \in [passed: BOOLEAN, run: 0..MaxRuns]

(* "status='success' means the remote object was downloaded again and      *)
(* restored" (backup-scheduler.ts): whatever was lost, repeated or run at  *)
(* the same time, a success row belongs to a run that restored the object  *)
(* under its key, its own unless another run shares the second.            *)
SuccessIsVerified ==
    \A r \in Run : /\ logs[r].status = "success" => r \in verified /\ logs[r].r2Key
                   /\ logs[r].verification = "passed" <=> logs[r].status = "success"

(* Retention works from a listing that is older than its deletions, while  *)
(* another process uploads: the keys it removes hold, at that moment, only *)
(* what is past its period, and MinKeep objects stay. No other step        *)
(* empties a key.                                                          *)
RetentionKeepsYoung ==
    [][\A o \in objects :
         (\A n \in objects' : key[n.run] # key[o.run]) =>
            /\ o.lastModified < clock - RetentionDays * DayLen
            /\ Cardinality(objects') >= MinKeep]_vars

(* The object took the key of a run that had been verified.                *)
Replaced(o) == \E r \in verified \ {o.run} : key[r] = key[o.run]

(* Once a backup has been verified there is always a verified one left in  *)
(* R2, whose dump restores, however many unverified uploads follow and     *)
(* however old it gets; unless another run named its object in the same    *)
(* second and put it over the verified one.                                *)
VerifiedBackupKept ==
    verified # {} => \E o \in objects : \/ o.run \in verified /\ o.good
                                        \/ Replaced(o)

(* The labels behind a verification that passed. *)
Proven == {"list", "delete", "logSuccess"}

(* Which row a pipeline may write, and what it has shown when it says so:  *)
(* every run has its own row, open as long as the run goes on, and behind  *)
(* the labels that follow a verification stands one that passed.           *)
PipelineInv ==
    /\ \A p \in Process : Running(p) =>
         /\ cur[p].run \in Run /\ cur[p].run <= runs
         /\ logs[cur[p].run].status \in {"none", "running"}
         /\ logs[cur[p].run].verification \in {"none", "pending"}
         /\ pc[p] \in Proven => cur[p].run \in verified
    /\ \A p, q \in Process :
         Running(p) /\ Running(q) /\ cur[p].run = cur[q].run => p = q
    /\ \A r \in Run : r > runs => logs[r] = NoRow

(* Types, rows and pipelines.                                              *)
BInv == TypeOK /\ SuccessIsVerified /\ PipelineInv

(* A finished row keeps its verdict.                                       *)
VerdictIsFinal ==
    [][\A r \in Run : logs[r].status \in {"success", "failed"} => logs'[r] = logs[r]]_vars

(* A service that is up and not stopping never sits without a timer.       *)
TimerArmed ==
    pc["service"] = "ready" /\ ~stopped => timer # Null /\ timer >= clock

(* A timer that is set, and every start of a run, is at a backup hour; the *)
(* timer is later than the last start.                                     *)
AtBackupHour(t) == t = Day(t) * DayLen + BackupHour
HourInv ==
    /\ timer # Null => /\ timer >= clock /\ AtBackupHour(timer)
                       /\ lastFired # Null => lastFired < timer
    /\ lastFired # Null => lastFired <= clock /\ AtBackupHour(lastFired)

(* The run the service is in is the one it started last.                   *)
LastStart == Running("service") => lastFired = cur["service"].began

(* A stopped service has no timer, and the smoke script passes only when   *)
(* some backup was verified, be it of another run.                         *)
SchedulerInv ==
    /\ TimerArmed /\ HourInv /\ LastStart
    /\ stopped => timer = Null
    /\ smoke.passed => verified # {}

(* Who has named an object, and when: no two objects have one key, none is *)
(* older than its key says, a run that is verified has named its object    *)
(* and its own, if it is still there, restores.                            *)
KeyInv ==
    /\ \A r \in Run : r > runs => key[r] = Null
    /\ \A r \in verified : key[r] # Null
    /\ \A o \in objects : /\ key[o.run] # Null /\ key[o.run] <= o.lastModified
                          /\ o.run \in verified => o.good
    /\ \A o, n \in objects : key[o.run] = key[n.run] => o = n

(* A run that is on its way began no more than MaxRun ago, and named its   *)
(* object, if it got that far, since; before the put it has passed no      *)
(* verification.                                                           *)
ObjectInv ==
    /\ IsFiniteSet(objects)
    /\ KeyInv
    /\ \A p \in Process : Running(p) =>
         /\ cur[p].began <= clock /\ clock <= cur[p].began + MaxRun
         /\ pc[p] \in {"logStart", "dump"} => KeyOf(p) = Null
         /\ pc[p] = "upload" => KeyOf(p) # Null /\ cur[p].run \notin verified
         /\ KeyOf(p) # Null => cur[p].began <= KeyOf(p) /\ KeyOf(p) <= clock

(* Only the service removes objects. While it is about to, there is an     *)
(* object under its own key, and its listing is still good: uploads may    *)
(* have been added or have replaced young objects, nothing old is gone,    *)
(* and what was old then is old now.                                       *)
RetentionInv ==
    /\ pc["manual"] \notin {"list", "delete"}
    /\ pc["service"] \in {"list", "delete"} =>
         \E o \in objects : key[o.run] = KeyOf("service")
    /\ pc["service"] = "delete" =>
         LET doomed == cur["service"].doomed
         IN  /\ doomed \subseteq objects
             /\ \A o \in doomed : o.lastModified < clock - RetentionDays * DayLen
             /\ doomed = {} \/ Cardinality(doomed) + MinKeep <= Cardinality(objects)

(* The inductive invariant of all the proofs about the service.            *)
ServiceInv == BInv /\ SchedulerInv /\ ObjectInv /\ RetentionInv

(* The service starts at most one run a day, restarts included.            *)
OneRunPerDay ==
    [][~Running("service") /\ Running("service")' /\ lastFired # Null
       => Day(lastFired) < Day(clock)]_vars

(* "daily at HH:00 UTC" (backup-scheduler.ts): a run that ends schedules   *)
(* the next one for the same hour of the following day.                    *)
NextRunIsTomorrow ==
    [][Running("service") /\ pc'["service"] = "ready" /\ ~stopped
       => timer' = lastFired + DayLen]_vars

(* Once the scheduler is stopped it starts no run: not from a timer, not   *)
(* from the finally block of the run in progress, not from the check at    *)
(* start that was still out.                                               *)
NoRunOnceStopped ==
    [][stopped => /\ ~Running("service") => ~Running("service")'
                  /\ timer' = Null]_vars

(* Runs start when they are due: once a day, and never after a stop.       *)
RunsWhenDue == OneRunPerDay /\ NoRunOnceStopped
=============================================================================

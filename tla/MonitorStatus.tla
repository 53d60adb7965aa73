---------------------------- MODULE MonitorStatus ----------------------------
(***************************************************************************)
(* The menu bar app's picture of the worker (monitor-app: main.rs, db.rs,  *)
(* docker.rs, tray.rs, index.html): a loop asks Docker and the database    *)
(* every five seconds, keeps what it learnt in a cached status and tells   *)
(* the tray icon and the popup. Each question is a statement of its own,   *)
(* while containers start and stop, jobs run, backups move through their   *)
(* log and the database comes and goes.                                    *)
(*                                                                         *)
(* The rows of backup_logs move as BackupService moves them; they are in   *)
(* the order of started_at. Times, sizes and wording are left out.         *)
(***************************************************************************)
EXTENDS Naturals, Sequences, FiniteSets

CONSTANTS
    Job,            \* transcode jobs
    Null,
    HistorySize,    \* LIMIT 7 of the history
    MaxRows,        \* bound: rows of backup_logs
    MaxChanges,     \* bound: changes of the world the app looks at
    MaxFailures     \* bound: docker inspect fails, commands

ASSUME ConstantsAssumption ==
    /\ Null \notin Job \cup {"pending", "passed", "failed"} /\ HistorySize \in Nat \ {0}
    /\ MaxRows \in Nat /\ MaxChanges \in Nat /\ MaxFailures \in Nat

VARIABLES
    container,      \* what Docker would say
    db,             \* what the database holds, and whether it answers
    pool,           \* AppState.db_pool
    poll,           \* the local state of the loop
    status,         \* AppState.status
    card,           \* the status the popup was last told
    icon,           \* the tray icon
    buttons,        \* the popup's buttons that are enabled
    commands,       \* the docker compose commands under way, of each kind
    budget          \* what is left of the bounds

shown == <<card, icon, buttons>>
vars == <<container, db, pool, poll, status, shown, commands, budget>>

Containers == {"running", "exited", "not_found"}
Commands == {"start", "stop"}
Row == [status: {"running", "success", "failed"}, uploaded: BOOLEAN,
        verification: {Null, "pending", "passed", "failed"}]

(* A row as it begins and as it ends well; before phase 3 there was no *)
(* verification. *)
Begun == [status |-> "running", uploaded |-> FALSE, verification |-> "pending"]
Verified == [status |-> "success", uploaded |-> TRUE, verification |-> "passed"]
Legacy == [Verified EXCEPT !.verification = Null]

(* WorkerStatus::default() *)
Blank == [container |-> "unknown", completed |-> {}, failed |-> {}, job |-> Null,
          connected |-> FALSE, backup |-> Null]

(* What a poll of the loop has learnt so far *)
Asking == [pc |-> "container", container |-> "unknown", counted |-> Null,
           jobs |-> Null, phase3 |-> FALSE, backup |-> Null]

(* A BackupStats under construction; each row comes with its place. *)
Entry(rows, i) == IF i = 0 THEN Null ELSE [id |-> i, row |-> rows[i]]
NoBackups == [latest |-> Null, verified |-> Null, total |-> 0, history |-> {}]

(* The app starts beside a worker that may have made backups before. *)
Init ==
    /\ container \in Containers
    /\ \E up, table, phase3 \in BOOLEAN, rows \in {<<>>, <<Verified>>, <<Legacy>>} :
          /\ phase3 => table
          /\ rows # <<>> => table
          /\ rows = <<Verified>> => phase3
          /\ db = [up |-> up, table |-> table, phase3 |-> phase3, rows |-> rows,
                   job |-> [j \in Job |-> "queued"], today |-> {}]
    /\ pool = "connecting"
    /\ poll = Asking
    /\ status = Blank /\ card = Blank /\ icon = "stopped"
    /\ buttons = Commands /\ commands = [c \in Commands |-> 0]
    /\ budget = [changes |-> MaxChanges, failures |-> MaxFailures]

-----------------------------------------------------------------------------
(* init_pool(): connected once, at the start, or never; without a        *)
(* DATABASE_URL it is not even tried.                                    *)
InitPool ==
    /\ pool = "connecting"
    /\ pool' \in IF db.up THEN {"ready", "none"} ELSE {"none"}
    /\ UNCHANGED <<container, db, poll, status, shown, commands, budget>>

Asks(pc) == poll.pc = pc
OnlyPoll == UNCHANGED <<container, db, pool, status, shown, commands>>

(* docker inspect; any failure of it reads as not_found. *)
AskContainer ==
    /\ Asks("container")
    /\ \/ /\ poll' = [poll EXCEPT !.pc = "pool", !.container = container]
          /\ UNCHANGED budget
       \/ /\ budget.failures > 0
          /\ poll' = [poll EXCEPT !.pc = "pool", !.container = "not_found"]
          /\ budget' = [budget EXCEPT !.failures = @ - 1]
    /\ OnlyPoll

LookForPool ==
    /\ Asks("pool")
    /\ poll' = [poll EXCEPT !.pc = IF pool = "ready" THEN "counts" ELSE "store"]
    /\ OnlyPoll /\ UNCHANGED budget

(* query_job_stats(): the jobs that ended today, then one that is being *)
(* processed. When either statement fails nothing is learnt.            *)
Today(outcome) == {j \in db.today : db.job[j] = outcome}
Counts == [completed |-> Today("completed"), failed |-> Today("failed")]
Processing == {j \in Job : db.job[j] = "processing"}

AskCounts ==
    /\ Asks("counts")
    /\ poll' = IF db.up THEN [poll EXCEPT !.pc = "job", !.counted = Counts]
               ELSE [poll EXCEPT !.pc = "table"]
    /\ OnlyPoll /\ UNCHANGED budget

AskJob ==
    /\ Asks("job")
    /\ IF db.up
       THEN \E j \in IF Processing = {} THEN {Null} ELSE Processing :
               poll' = [poll EXCEPT !.pc = "table",
                           !.jobs = [counts |-> poll.counted, job |-> j]]
       ELSE poll' = [poll EXCEPT !.pc = "table"]
    /\ OnlyPoll /\ UNCHANGED budget

(* query_backup_stats(): six statements; when one fails nothing is shown.  *)
(* Without its table there are no backups; without the columns of phase 3  *)
(* nothing counts as verified.                                             *)
Ask(pc, answer) ==
    /\ Asks(pc)
    /\ poll' = IF db.up THEN answer ELSE [poll EXCEPT !.pc = "store", !.backup = Null]
    /\ OnlyPoll /\ UNCHANGED budget

Learn(next, field, value) ==
    [poll EXCEPT !.pc = next, !.backup = [@ EXCEPT ![field] = value]]

Passed(rows) == {i \in DOMAIN rows : rows[i].status = "success"
                                     /\ rows[i].verification = "passed"}
LastOf(S) == IF S = {} THEN 0 ELSE CHOOSE i \in S : \A j \in S : j <= i

(* The NULL columns of BACKUP_SELECT_LEGACY_SAFE_COLUMNS *)
Selected(rows) ==
    IF poll.phase3 THEN rows
    ELSE [i \in DOMAIN rows |-> [rows[i] EXCEPT !.verification = Null]]

AskTable == Ask("table", [poll EXCEPT !.pc = IF db.table THEN "columns" ELSE "store",
                                      !.backup = NoBackups])
AskColumns == Ask("columns", [poll EXCEPT !.pc = "latest", !.phase3 = db.phase3])
AskLatest == Ask("latest", Learn(IF poll.phase3 THEN "verified" ELSE "history", "latest",
                                 Entry(Selected(db.rows), Len(db.rows))))
AskVerified == Ask("verified", Learn("total", "verified",
                                     Entry(db.rows, LastOf(Passed(db.rows)))))
AskTotal == Ask("total", Learn("history", "total", Cardinality(Passed(db.rows))))

(* Mutant: the oldest rows, for want of DESC. *)
MutOldestFirst ==
    Ask("history", Learn("store", "history",
        {Entry(Selected(db.rows), i) : i \in {j \in DOMAIN db.rows : j <= HistorySize}}))

AskHistory ==
    Ask("history", Learn("store", "history",
        {Entry(Selected(db.rows), i) :
            i \in {j \in DOMAIN db.rows : j > Len(db.rows) - HistorySize}}))

(* What a failed job query leaves: the last counters, job and db_connected. *)
Kept(s) ==
    IF poll.jobs = Null THEN s
    ELSE [s EXCEPT !.completed = poll.jobs.counts.completed,
                   !.failed = poll.jobs.counts.failed,
                   !.job = poll.jobs.job, !.connected = TRUE]

Store ==
    /\ Asks("store")
    /\ status' = Kept([status EXCEPT !.container = poll.container, !.backup = poll.backup])
    /\ poll' = [poll EXCEPT !.pc = "tell"]
    /\ UNCHANGED <<container, db, pool, shown, commands, budget>>

(* update_icon() *)
Icon(s) ==
    CASE s.container = "running" /\ s.job # Null -> "active"
      [] s.container = "running" -> "idle"
      [] OTHER -> "stopped"

(* Mutant: the buttons are left alone while the container stays as it was. *)
MutButtonsLeft ==
    /\ card' = status
    /\ buttons' = IF status.container = card.container THEN buttons
                  ELSE IF status.container = "running" THEN {"stop"} ELSE {"start"}

(* applyStatus() of the popup *)
ApplyStatus ==
    /\ card' = status
    /\ buttons' = IF status.container = "running" THEN {"stop"} ELSE {"start"}

(* The icon, the event, and five seconds later the next poll *)
Tell ==
    /\ Asks("tell")
    /\ icon' = Icon(status)
    /\ ApplyStatus
    /\ poll' = Asking
    /\ UNCHANGED <<container, db, pool, status, commands, budget>>

Monitor ==
    \/ InitPool \/ AskContainer \/ LookForPool \/ AskCounts \/ AskJob
    \/ AskTable \/ AskColumns \/ AskLatest \/ AskVerified \/ AskTotal \/ AskHistory
    \/ Store \/ Tell

-----------------------------------------------------------------------------
(* A click on the icon shows the popup and sends it the cached status. *)
TogglePopup ==
    /\ ApplyStatus
    /\ UNCHANGED <<container, db, pool, poll, status, icon, commands, budget>>

(* The popup's start and stop buttons: docker compose up -d and down. A    *)
(* button is disabled by its click until the next event decides, which may *)
(* be long before the command ends: nothing in the popup or the app keeps  *)
(* commands apart, be it a start and a stop or two of the same.            *)
Click(button) ==
    /\ button \in buttons /\ budget.changes > 0
    /\ buttons' = buttons \ {button}
    /\ commands' = [commands EXCEPT ![button] = @ + 1]
    /\ budget' = [budget EXCEPT !.changes = @ - 1]
    /\ UNCHANGED <<container, db, pool, poll, status, card, icon>>

(* Commands that overlap end in any order; one may fail. *)
CommandEnds(c) ==
    /\ commands[c] > 0
    /\ \/ container' = IF c = "start" THEN "running" ELSE "not_found"
       \/ UNCHANGED container
    /\ commands' = [commands EXCEPT ![c] = @ - 1]
    /\ UNCHANGED <<db, pool, poll, status, shown, budget>>

-----------------------------------------------------------------------------
(* The world the app looks at *)

Changes(newDb) ==
    /\ budget.changes > 0 /\ db' = newDb
    /\ budget' = [budget EXCEPT !.changes = @ - 1]
    /\ UNCHANGED <<container, pool, poll, status, shown, commands>>

ContainerStops ==
    /\ budget.changes > 0 /\ container = "running"
    /\ container' = "exited"
    /\ budget' = [budget EXCEPT !.changes = @ - 1]
    /\ UNCHANGED <<db, pool, poll, status, shown, commands>>

DbComesAndGoes == Changes([db EXCEPT !.up = ~@])
Migrate == ~db.phase3 /\ Changes([db EXCEPT !.table = TRUE, !.phase3 = TRUE])

(* A job's updated_at moves with its status; a failed one is claimed again. *)
JobMoves(j, from, to) ==
    /\ db.job[j] \in from
    /\ Changes([db EXCEPT !.job[j] = to, !.today = @ \cup {j}])
Claim(j) == JobMoves(j, {"queued", "failed"}, "processing")
Complete(j) == JobMoves(j, {"processing"}, "completed")
Fail(j) == JobMoves(j, {"processing"}, "failed")
Midnight == db.today # {} /\ Changes([db EXCEPT !.today = {}])

(* The pipelines of the service and of a smoke run may be under way at once. *)
Unfinished(i) == i \in DOMAIN db.rows /\ db.rows[i].status = "running"
Becomes(i, row) == Changes([db EXCEPT !.rows[i] = row])

(* Before phase 3 the columns are not there to be written. *)
BackupBegins ==
    /\ db.table /\ Len(db.rows) < MaxRows
    /\ Changes([db EXCEPT !.rows = Append(@,
            IF db.phase3 THEN Begun ELSE [Begun EXCEPT !.verification = Null])])

Verifies(i) == Unfinished(i) /\ db.rows[i].verification # Null

BackupUploads(i) ==
    /\ Verifies(i) /\ ~db.rows[i].uploaded
    /\ Becomes(i, [db.rows[i] EXCEPT !.uploaded = TRUE])

(* Also when the row was not told of the upload. *)
BackupVerified(i) == Verifies(i) /\ Becomes(i, Verified)

(* verificationFailed, or any other error *)
BackupFails(i) ==
    /\ Unfinished(i)
    /\ \E failed \in {"failed", db.rows[i].verification} :
           /\ failed = "failed" => Verifies(i)
           /\ Becomes(i, [db.rows[i] EXCEPT !.status = "failed", !.verification = failed])

(* A worker from before phase 3 *)
OldBackupSucceeds(i) == Unfinished(i) /\ ~Verifies(i) /\ Becomes(i, Legacy)

World ==
    \/ ContainerStops \/ DbComesAndGoes \/ Migrate
    \/ (\E j \in Job : Claim(j) \/ Complete(j) \/ Fail(j)) \/ Midnight
    \/ BackupBegins
    \/ \E i \in 1..MaxRows : \/ BackupUploads(i) \/ BackupVerified(i)
                           \/ BackupFails(i) \/ OldBackupSucceeds(i)

Next == Monitor \/ TogglePopup \/ (\E c \in Commands : Click(c) \/ CommandEnds(c)) \/ World

Spec == Init /\ [][Next]_vars

(* The tasks of the app run, and every docker compose ends. *)
FairSpec == /\ Spec /\ WF_vars(Monitor) /\ WF_vars(InitPool)
            /\ \A c \in Commands : WF_vars(CommandEnds(c))

-----------------------------------------------------------------------------
(* Mutant: an uploaded backup is a good one. *)
MutSuccessIsGreen(row) ==
    CASE row.status = "success" -> "verified"
      [] row.status = "running" -> "running"
      [] OTHER -> "failed"

(* getBackupState() and getBackupPresentation() of index.html *)
BackupState(row) ==
    CASE row.status = "running" ->
            IF row.uploaded /\ row.verification = "pending" THEN "verifying" ELSE "running"
      [] row.status = "success" ->
            IF row.verification = "passed" THEN "verified" ELSE "legacy"
      [] row.status = "failed" ->
            IF row.verification = "failed" THEN "failed-verification" ELSE "failed"
      [] OTHER -> "unknown"

Dot(row) ==
    CASE BackupState(row) \in {"running", "verifying"} -> "active"
      [] BackupState(row) = "verified" -> "running"
      [] BackupState(row) \in {"failed-verification", "failed"} -> "error"
      [] OTHER -> "stopped"

Entries(backup) ==
    ({backup.latest, backup.verified} \ {Null}) \cup backup.history

-----------------------------------------------------------------------------
CountsOf == [completed: SUBSET Job, failed: SUBSET Job]
EntryOf == [id: Nat \ {0}, row: Row]
Stats == [latest: EntryOf \cup {Null}, verified: EntryOf \cup {Null}, total: Nat,
          history: SUBSET EntryOf]
Told == [container: Containers \cup {"unknown"}, completed: SUBSET Job, failed: SUBSET Job,
         job: Job \cup {Null}, connected: BOOLEAN, backup: Stats \cup {Null}]

Database == [up: BOOLEAN, table: BOOLEAN, phase3: BOOLEAN, rows: Seq(Row),
             job: [Job -> {"queued", "processing", "completed", "failed"}], today: SUBSET Job]
Learnt == [pc: {"container", "pool", "counts", "job", "table", "columns", "latest",
                "verified", "total", "history", "store", "tell"},
           container: Containers \cup {"unknown"}, counted: CountsOf \cup {Null},
           jobs: [counts: CountsOf, job: Job \cup {Null}] \cup {Null},
           phase3: BOOLEAN, backup: Stats \cup {Null}]

(* Every variable keeps its type. *)
TypeOK ==
    /\ container \in Containers
    /\ db \in Database
    /\ pool \in {"connecting", "ready", "none"}
    /\ poll \in Learnt
    /\ status \in Told /\ card \in Told
    /\ icon \in {"active", "idle", "stopped"}
    /\ buttons \subseteq Commands /\ commands \in [Commands -> Nat]
    /\ budget \in [changes: 0..MaxChanges, failures: 0..MaxFailures]

(* The green light of a backup, latest or in the history, means that this   *)
(* very backup passed its restore verification (docs/MONITOR_APP.md:127).   *)
GreenMeansVerified ==
    card.backup # Null =>
        \A e \in Entries(card.backup) :
            Dot(e.row) = "running" => /\ db.rows[e.id].status = "success"
                                      /\ db.rows[e.id].verification = "passed"

(* Every backup told of is in the log, and one told of as verified passed;  *)
(* so did the one shown as the last verified.                               *)
IsLogged(backup, rows) ==
    /\ \A e \in Entries(backup) :
          /\ e.id <= Len(rows)
          /\ e.row.status = "success" /\ e.row.verification = "passed" => e.id \in Passed(rows)
    /\ backup.verified # Null => backup.verified.id \in Passed(rows)

(* The backup card is read by several statements while backups go on, yet   *)
(* its parts agree: the history begins with a backup at least as new as the *)
(* latest one and the verified one it shows, and a verified backup shown    *)
(* has been counted (db.rs:170-224).                                        *)
HangsTogether(backup) ==
    /\ \A e \in {backup.latest, backup.verified} \ {Null} :
          \E h \in backup.history : h.id >= e.id
    /\ backup.verified # Null => backup.total > 0

(* A job shown as being processed is not among the ones shown as completed, *)
(* although two statements read them (db.rs:37-56). It may be among the     *)
(* failed ones: a retry can begin in between.                               *)
ToldInv ==
    \A s \in {status, card} :
        /\ s.backup # Null => IsLogged(s.backup, db.rows) /\ HangsTogether(s.backup)
        /\ s.job \notin s.completed

(* What a poll has learnt between two of its statements.                    *)
PollInv ==
    /\ poll.pc = "job" =>
          poll.counted \in CountsOf /\ \A j \in poll.counted.completed : db.job[j] = "completed"
    /\ poll.jobs # Null => poll.jobs.job \notin poll.jobs.counts.completed
    /\ poll.pc \in {"container", "pool", "counts", "job", "table"} => poll.backup = Null
    /\ poll.pc \in {"columns", "latest"} => poll.backup = NoBackups
    /\ poll.pc \in {"verified", "total", "history"} =>
          poll.backup \in Stats /\ IsLogged(poll.backup, db.rows)
    /\ poll.pc = "history" => (poll.backup.verified # Null => poll.backup.total > 0)
    /\ poll.pc \in {"store", "tell"} /\ poll.backup # Null =>
          IsLogged(poll.backup, db.rows) /\ HangsTogether(poll.backup)

(* The types, and how the parts of what is told fit together and to the log. *)
StatusInv == TypeOK /\ ToldInv /\ PollInv

(* The backup part of ShowsDb. Without the table it is the empty record, so  *)
(* the popup waits for the first backup (db.rs:149-156), although            *)
(* index.html:608 speaks of null; null is what a query that fails leaves.    *)
(* The total counts every row that ever passed, as retention deletes objects *)
(* and never rows, although db.rs:117 speaks of backups currently retained.  *)
ShowsBackups ==
    /\ ~db.table => card.backup = NoBackups
    /\ card.backup # Null
    /\ card.backup.latest = Entry(db.rows, Len(db.rows))
    /\ card.backup.verified = Entry(db.rows, LastOf(Passed(db.rows)))
    /\ card.backup.total = Cardinality(Passed(db.rows))

ShowsDb ==
    /\ card.connected
    /\ card.completed = Today("completed") /\ card.failed = Today("failed")
    /\ IF Processing = {} THEN card.job = Null ELSE card.job \in Processing
    /\ ShowsBackups

(* Once nothing changes, an app whose one attempt to connect succeeded ends *)
(* showing the database as it is (ShowsDb), or no backup when that does not *)
(* answer; an app whose attempt failed shows nothing of the database for    *)
(* good, even when it answers again (main.rs:66-133). The container, the    *)
(* icon and the buttons end true, whatever became of the clicks and in      *)
(* whatever order their commands ended.                                     *)
CatchesUp ==
    <>[](/\ pool # "connecting"
         /\ CASE pool = "none" -> ~card.connected /\ card.backup = Null
              [] pool = "ready" /\ db.up -> ShowsDb
              [] OTHER -> card.backup = Null
         /\ card.container = container
         /\ icon = Icon(card)
         /\ buttons = IF container = "running" THEN {"stop"} ELSE {"start"})
=============================================================================

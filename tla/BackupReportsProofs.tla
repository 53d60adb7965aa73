------------------------- MODULE BackupReportsProofs -------------------------
(***************************************************************************)
(* Proofs about the two readers of backup_logs that turn its rows into     *)
(* lights: the monitor (MonitorStatus), for any jobs, any length of the    *)
(* history and any number of backups, changes and failures, and the        *)
(* rollout's scripts (BackupRollout), for any number of migrations, runs,  *)
(* operations and faults; and that both give a row the same light.         *)
(***************************************************************************)
EXTENDS MonitorStatus, BackupRollout, FiniteSetTheorems, SequenceTheorems,
        WellFoundedInduction, TLAPS

USE ConstantsAssumption, RolloutAssumption

-----------------------------------------------------------------------------
(* A set of places that is not empty has a last one. *)
LEMMA HasLast ==
    ASSUME NEW n \in Nat, NEW S \in SUBSET (1..n), S # {}
    PROVE  \E k \in S : \A j \in S : j <= k
<1> DEFINE R == {ss \in Nat \X Nat : ss[1] < ss[2]}
           T == {n - i : i \in S}
<1>1. \A i \in S : i \in Nat /\ n - i \in Nat
  OBVIOUS
<1>2. T \subseteq Nat /\ T # {}
  BY <1>1
<1>3. IsWellFoundedOn(R, Nat)
  BY NatLessThanWellFounded DEF OpToRel
<1> HIDE DEF R
<1>4. \E x \in T : \A y \in T : <<y, x>> \notin R
  BY <1>2, <1>3, WFMin
<1> USE DEF R
<1>5. PICK i \in S : \A j \in S : <<n - j, n - i>> \notin R
  BY <1>4
<1>6. \A j \in S : ~(n - j < n - i)
  BY <1>1, <1>5
<1> QED
  BY <1>1, <1>6

-----------------------------------------------------------------------------
(* Part one: the monitor. *)
(* The rows of the log. *)

LEMMA RowsAre ==
    ASSUME NEW rows \in Seq(Row)
    PROVE  /\ Len(rows) \in Nat /\ DOMAIN rows = 1..Len(rows)
           /\ \A i \in 1..Len(rows) : rows[i] \in Row
           /\ Passed(rows) \subseteq 1..Len(rows)
           /\ \A i \in 1..Len(rows) :
                i \in Passed(rows) <=> rows[i].status = "success" /\ rows[i].verification = "passed"
  BY LenProperties, ElementOfSeq DEF Passed

LEMMA LastIs ==
    ASSUME NEW n \in Nat, NEW S \in SUBSET (1..n)
    PROVE  /\ S = {} => LastOf(S) = 0
           /\ S # {} => LastOf(S) \in S
  BY HasLast DEF LastOf

LEMMA PassedCount ==
    ASSUME NEW rows \in Seq(Row)
    PROVE  /\ Cardinality(Passed(rows)) \in Nat
           /\ Passed(rows) # {} => Cardinality(Passed(rows)) > 0
<1>1. IsFiniteSet(1..Len(rows)) /\ Passed(rows) \in SUBSET (1..Len(rows))
  <2>1. Len(rows) \in Int /\ 1 \in Int
    BY RowsAre
  <2>2. IsFiniteSet(1..Len(rows))
    BY <2>1, FS_Interval
  <2> QED
    BY <2>2, RowsAre
<1>2. IsFiniteSet(Passed(rows)) /\ Cardinality(Passed(rows)) \in Nat
  BY <1>1, FS_Subset, FS_CardinalityType
<1>3. Passed(rows) # {} => Cardinality(Passed(rows)) # 0
  BY <1>2, FS_EmptySet
<1> QED
  BY <1>2, <1>3

LEMMA SelectedRows ==
    ASSUME NEW rows \in Seq(Row)
    PROVE  \A i \in 1..Len(rows) :
             /\ Selected(rows)[i] \in Row
             /\ Selected(rows)[i].status = "success" /\ Selected(rows)[i].verification = "passed"
                => i \in Passed(rows)
<1> SUFFICES ASSUME NEW i \in 1..Len(rows)
             PROVE  /\ Selected(rows)[i] \in Row
                    /\ Selected(rows)[i].status = "success" /\ Selected(rows)[i].verification = "passed"
                       => i \in Passed(rows)
  OBVIOUS
<1>1. rows[i] \in Row /\ i \in DOMAIN rows
  BY RowsAre
<1>2. CASE poll.phase3
  BY <1>1, <1>2, RowsAre DEF Selected
<1>3. CASE ~poll.phase3
  <2>1. Selected(rows)[i] = [rows[i] EXCEPT !.verification = Null]
    BY <1>1, <1>3 DEF Selected
  <2>2. Selected(rows)[i] \in Row /\ Selected(rows)[i].verification = Null
    BY <1>1, <2>1 DEF Row
  <2> QED
    BY <2>2
<1> QED
  BY <1>2, <1>3

LEMMA EntryIs ==
    ASSUME NEW i \in Nat, NEW rows, i = 0 \/ rows[i] \in Row
    PROVE  /\ Entry(rows, i) \in EntryOf \cup {Null}
           /\ Entry(rows, i) # Null => i # 0 /\ Entry(rows, i).id = i /\ Entry(rows, i).row = rows[i]
  BY DEF Entry, EntryOf

(* The green light is for the rows that passed. *)
LEMMA GreenDot ==
    ASSUME NEW row \in Row, Dot(row) = "running"
    PROVE  row.status = "success" /\ row.verification = "passed"
<1>1. row.status \in {"running", "success", "failed"}
  BY DEF Row
<1>2. BackupState(row) = "verified"
  BY DEF Dot
<1> QED
  BY <1>1, <1>2 DEF BackupState

(* The log only grows, and a passed row stays one. *)
LEMMA LoggedStays ==
    ASSUME NEW rows \in Seq(Row), NEW new \in Seq(Row), Len(rows) <= Len(new),
           Passed(rows) \subseteq Passed(new), NEW backup \in Stats, IsLogged(backup, rows)
    PROVE  IsLogged(backup, new)
<1>1. Entries(backup) \subseteq EntryOf
  BY DEF Entries, Stats
<1>2. Len(rows) \in Nat /\ Len(new) \in Nat
  BY RowsAre
<1> QED
  BY <1>1, <1>2 DEF IsLogged, EntryOf

LEMMA NoBackupsAre ==
    ASSUME NEW rows
    PROVE  NoBackups \in Stats /\ IsLogged(NoBackups, rows) /\ HangsTogether(NoBackups)
           /\ NoBackups.verified = Null
  BY DEF NoBackups, Stats, IsLogged, HangsTogether, Entries
-----------------------------------------------------------------------------
(* Steps of the loop. *)

LEMMA PollIs ==
    ASSUME TypeOK
    PROVE  /\ poll \in Learnt /\ db \in Database /\ db.rows \in Seq(Row)
           /\ poll.backup \in Stats \cup {Null} /\ poll.phase3 \in BOOLEAN
           /\ poll.container \in Containers \cup {"unknown"}
           /\ poll.jobs \in [counts: CountsOf, job: Job \cup {Null}] \cup {Null}
           /\ budget \in [changes: 0..MaxChanges, failures: 0..MaxFailures]
  BY DEF TypeOK, Learnt, Database

LEMMA InitStatusInv == Init => StatusInv
<1> SUFFICES ASSUME Init PROVE StatusInv
  OBVIOUS
<1>1. db \in Database
  <2>1. Verified \in Row /\ Legacy \in Row
    BY DEF Verified, Legacy, Row
  <2>2. <<>> \in Seq(Row) /\ <<Verified>> \in Seq(Row) /\ <<Legacy>> \in Seq(Row)
    BY <2>1
  <2>3. PICK up \in BOOLEAN, table \in BOOLEAN, phase3 \in BOOLEAN, rows \in {<<>>, <<Verified>>, <<Legacy>>} :
          db = [up |-> up, table |-> table, phase3 |-> phase3, rows |-> rows,
                job |-> [j \in Job |-> "queued"], today |-> {}]
    BY DEF Init
  <2>4. [j \in Job |-> "queued"] \in [Job -> {"queued", "processing", "completed", "failed"}]
    OBVIOUS
  <2>5. rows \in Seq(Row)
    BY <2>2
  <2> QED
    BY <2>3, <2>4, <2>5, Zenon DEF Database
<1>2. poll \in Learnt /\ poll.jobs = Null /\ poll.backup = Null /\ poll.pc = "container"
  BY DEF Init, Asking, Learnt
<1>3. Blank \in Told /\ Blank.backup = Null /\ Blank.job \notin Blank.completed
  BY DEF Blank, Told
<1>4. TypeOK
  <2>1. budget \in [changes: 0..MaxChanges, failures: 0..MaxFailures]
    BY DEF Init
  <2> QED
    BY <1>1, <1>2, <1>3, <2>1 DEF Init, TypeOK
<1>5. ToldInv /\ PollInv
  BY <1>2, <1>3 DEF Init, ToldInv, PollInv
<1> QED
  BY <1>4, <1>5 DEF StatusInv

(* A step that learns something tells nothing. *)
LEMMA LearnStep ==
    ASSUME StatusInv, OnlyPoll, poll' \in Learnt,
           budget' \in [changes: 0..MaxChanges, failures: 0..MaxFailures], PollInv'
    PROVE  StatusInv'
<1>1. TypeOK'
  BY DEF StatusInv, TypeOK, OnlyPoll, shown
<1>2. ToldInv'
  BY DEF StatusInv, ToldInv, OnlyPoll, shown, IsLogged, HangsTogether, Entries, Passed
<1> QED
  BY <1>1, <1>2 DEF StatusInv

LEMMA AskContainerStep == ASSUME StatusInv, AskContainer PROVE StatusInv'
<1>1. /\ poll \in Learnt /\ OnlyPoll /\ poll.pc = "container" /\ container \in Containers
      /\ budget \in [changes: 0..MaxChanges, failures: 0..MaxFailures]
  BY DEF StatusInv, TypeOK, AskContainer, Asks
<1>2. PICK c \in Containers : poll' = [poll EXCEPT !.pc = "pool", !.container = c]
  BY <1>1 DEF AskContainer, Containers
<1>3. /\ poll' \in Learnt /\ poll'.pc = "pool" /\ poll'.backup = poll.backup /\ poll'.jobs = poll.jobs
  BY <1>1, <1>2 DEF Learnt
<1>4. budget' \in [changes: 0..MaxChanges, failures: 0..MaxFailures]
  BY <1>1 DEF AskContainer
<1>5. PollInv'
  BY <1>1, <1>3 DEF StatusInv, PollInv
<1> QED
  BY <1>1, <1>3, <1>4, <1>5, LearnStep

LEMMA LookForPoolStep == ASSUME StatusInv, LookForPool PROVE StatusInv'
<1>1. poll \in Learnt /\ OnlyPoll /\ poll.pc = "pool" /\ poll.backup = Null /\ UNCHANGED budget
  BY DEF StatusInv, TypeOK, PollInv, LookForPool, Asks
<1>2. PICK pc \in {"counts", "store"} : poll' = [poll EXCEPT !.pc = pc]
  BY DEF LookForPool
<1>3. poll' \in Learnt /\ poll'.pc = pc /\ poll'.backup = Null /\ poll'.jobs = poll.jobs
  BY <1>1, <1>2 DEF Learnt
<1>4. PollInv'
  BY <1>1, <1>3 DEF StatusInv, PollInv
<1>5. budget' \in [changes: 0..MaxChanges, failures: 0..MaxFailures]
  BY <1>1, PollIs DEF StatusInv
<1> QED
  BY <1>1, <1>3, <1>4, <1>5, LearnStep

LEMMA AskCountsStep == ASSUME StatusInv, AskCounts PROVE StatusInv'
<1>1. /\ poll \in Learnt /\ OnlyPoll /\ poll.pc = "counts" /\ poll.backup = Null /\ UNCHANGED budget
      /\ db' = db /\ db \in Database
  BY DEF StatusInv, TypeOK, PollInv, AskCounts, Asks, OnlyPoll
<1>2. Counts \in CountsOf /\ \A j \in Counts.completed : db.job[j] = "completed"
  BY <1>1 DEF Counts, CountsOf, Today, Database
<1>3. CASE db.up
  <2>1. poll' = [poll EXCEPT !.pc = "job", !.counted = Counts]
    BY <1>3 DEF AskCounts
  <2>2. /\ poll' \in Learnt /\ poll'.pc = "job" /\ poll'.counted = Counts
        /\ poll'.backup = Null /\ poll'.jobs = poll.jobs
    BY <1>1, <1>2, <2>1 DEF Learnt
  <2>3. PollInv'
    BY <1>1, <1>2, <2>2 DEF StatusInv, PollInv
  <2> QED
    BY <1>1, <2>2, <2>3, PollIs, LearnStep DEF StatusInv
<1>4. CASE ~db.up
  <2>1. poll' = [poll EXCEPT !.pc = "table"]
    BY <1>4 DEF AskCounts
  <2>2. poll' \in Learnt /\ poll'.pc = "table" /\ poll'.backup = Null /\ poll'.jobs = poll.jobs
    BY <1>1, <2>1 DEF Learnt
  <2>3. PollInv'
    BY <1>1, <2>2 DEF StatusInv, PollInv
  <2> QED
    BY <1>1, <2>2, <2>3, PollIs, LearnStep DEF StatusInv
<1> QED
  BY <1>3, <1>4

(* The job found processing was not counted: nothing leaves "completed". *)
LEMMA AskJobStep == ASSUME StatusInv, AskJob PROVE StatusInv'
<1>1. /\ poll \in Learnt /\ OnlyPoll /\ poll.pc = "job" /\ poll.backup = Null /\ UNCHANGED budget
      /\ db' = db /\ db \in Database
      /\ poll.counted \in CountsOf /\ \A j \in poll.counted.completed : db.job[j] = "completed"
  BY DEF StatusInv, TypeOK, PollInv, AskJob, Asks, OnlyPoll
<1>2. CASE db.up
  <2>1. PICK j \in IF Processing = {} THEN {Null} ELSE Processing :
          poll' = [poll EXCEPT !.pc = "table", !.jobs = [counts |-> poll.counted, job |-> j]]
    BY <1>2 DEF AskJob
  <2> DEFINE jobs == [counts |-> poll.counted, job |-> j]
  <2>2. j \in Job \cup {Null} /\ j \notin poll.counted.completed
    BY <1>1, <2>1 DEF Processing, CountsOf
  <2>3. jobs \in [counts: CountsOf, job: Job \cup {Null}] /\ jobs.job \notin jobs.counts.completed
    BY <1>1, <2>2
  <2> HIDE DEF jobs
  <2>4. poll' = [poll EXCEPT !.pc = "table", !.jobs = jobs]
    BY <2>1 DEF jobs
  <2>5. poll' \in Learnt /\ poll'.pc = "table" /\ poll'.backup = Null /\ poll'.jobs = jobs
    BY <1>1, <2>3, <2>4 DEF Learnt
  <2>6. PollInv'
    BY <1>1, <2>3, <2>5 DEF PollInv
  <2> QED
    BY <1>1, <2>5, <2>6, PollIs, LearnStep DEF StatusInv
<1>3. CASE ~db.up
  <2>1. poll' = [poll EXCEPT !.pc = "table"]
    BY <1>3 DEF AskJob
  <2>2. poll' \in Learnt /\ poll'.pc = "table" /\ poll'.backup = Null /\ poll'.jobs = poll.jobs
    BY <1>1, <2>1 DEF Learnt
  <2>3. PollInv'
    BY <1>1, <2>2 DEF StatusInv, PollInv
  <2> QED
    BY <1>1, <2>2, <2>3, PollIs, LearnStep DEF StatusInv
<1> QED
  BY <1>2, <1>3
(* A statement of the backup query fails: no backups. *)
LEMMA AskFails ==
    ASSUME StatusInv, OnlyPoll, UNCHANGED budget,
           poll' = [poll EXCEPT !.pc = "store", !.backup = Null]
    PROVE  StatusInv'
<1>1. poll \in Learnt /\ budget \in [changes: 0..MaxChanges, failures: 0..MaxFailures]
  BY PollIs DEF StatusInv
<1>2. poll' \in Learnt /\ poll'.pc = "store" /\ poll'.backup = Null /\ poll'.jobs = poll.jobs
  BY <1>1 DEF Learnt
<1>3. PollInv'
  BY <1>1, <1>2 DEF StatusInv, PollInv
<1> QED
  BY <1>1, <1>2, <1>3, LearnStep

LEMMA AskSucceeds ==
    ASSUME StatusInv, OnlyPoll, UNCHANGED budget,
           NEW next \in {"columns", "verified", "total", "history", "store"}, NEW backup \in Stats,
           poll' = [poll EXCEPT !.pc = next, !.backup = backup],
           IsLogged(backup, db.rows),
           next = "columns" => backup = NoBackups,
           next = "history" => (backup.verified # Null => backup.total > 0),
           next = "store" => HangsTogether(backup)
    PROVE  StatusInv'
<1>1. poll \in Learnt /\ budget \in [changes: 0..MaxChanges, failures: 0..MaxFailures]
  BY PollIs DEF StatusInv
<1>2. poll' \in Learnt /\ poll'.pc = next /\ poll'.backup = backup /\ poll'.jobs = poll.jobs
  BY <1>1 DEF Learnt
<1>3. db' = db
  BY DEF OnlyPoll
<1>4. IsLogged(poll'.backup, db'.rows)
  BY <1>2, <1>3
<1>5. next = "store" => HangsTogether(poll'.backup)
  BY <1>2
<1>6. PollInv'
  BY <1>1, <1>2, <1>4, <1>5 DEF StatusInv, PollInv, IsLogged, HangsTogether, Entries, Passed
<1> QED
  BY <1>1, <1>2, <1>6, LearnStep

LEMMA AskTableStep == ASSUME StatusInv, AskTable PROVE StatusInv'
<1>1. /\ OnlyPoll /\ UNCHANGED budget
      /\ poll' = IF db.up THEN [poll EXCEPT !.pc = IF db.table THEN "columns" ELSE "store",
                                            !.backup = NoBackups]
                 ELSE [poll EXCEPT !.pc = "store", !.backup = Null]
  BY DEF AskTable, Ask
<1>2. CASE db.up
  <2>1. PICK next \in {"columns", "store"} : poll' = [poll EXCEPT !.pc = next, !.backup = NoBackups]
    BY <1>1, <1>2
  <2> QED
    BY <1>1, <2>1, NoBackupsAre, AskSucceeds
<1> QED
  BY <1>1, <1>2, AskFails

LEMMA AskColumnsStep == ASSUME StatusInv, AskColumns PROVE StatusInv'
<1>1. /\ OnlyPoll /\ UNCHANGED budget /\ poll.pc = "columns" /\ poll.backup = NoBackups
      /\ poll' = IF db.up THEN [poll EXCEPT !.pc = "latest", !.phase3 = db.phase3]
                 ELSE [poll EXCEPT !.pc = "store", !.backup = Null]
  BY DEF AskColumns, Ask, Asks, StatusInv, PollInv
<1>2. /\ poll \in Learnt /\ budget \in [changes: 0..MaxChanges, failures: 0..MaxFailures]
      /\ db.phase3 \in BOOLEAN
  BY PollIs DEF StatusInv, Database
<1>3. CASE db.up
  <2>1. poll' = [poll EXCEPT !.pc = "latest", !.phase3 = db.phase3]
    BY <1>1, <1>3
  <2>2. poll' \in Learnt /\ poll'.pc = "latest" /\ poll'.backup = NoBackups /\ poll'.jobs = poll.jobs
    BY <1>1, <1>2, <2>1 DEF Learnt
  <2>3. PollInv'
    BY <1>1, <2>2 DEF StatusInv, PollInv
  <2> QED
    BY <1>1, <1>2, <2>2, <2>3, LearnStep
<1> QED
  BY <1>1, <1>3, AskFails

(* The latest row: the first thing learnt, as the columns allow. *)
LEMMA AskLatestStep == ASSUME StatusInv, AskLatest PROVE StatusInv'
<1> DEFINE rows == Selected(db.rows)
           latest == Entry(rows, Len(db.rows))
           backup == [NoBackups EXCEPT !["latest"] = latest]
<1>1. /\ OnlyPoll /\ UNCHANGED budget /\ poll.pc = "latest" /\ poll.backup = NoBackups
      /\ poll \in Learnt /\ db.rows \in Seq(Row)
      /\ poll' = IF db.up THEN [poll EXCEPT !.pc = IF poll.phase3 THEN "verified" ELSE "history",
                                            !.backup = [@ EXCEPT !["latest"] = latest]]
                 ELSE [poll EXCEPT !.pc = "store", !.backup = Null]
  BY PollIs DEF AskLatest, Ask, Asks, StatusInv, PollInv, Learn
<1>2. Len(db.rows) \in Nat
  BY <1>1, RowsAre
<1>3. Len(db.rows) = 0 \/ rows[Len(db.rows)] \in Row
  BY <1>1, <1>2, SelectedRows
<1>4. /\ latest \in EntryOf \cup {Null}
      /\ latest # Null => /\ latest.id = Len(db.rows) /\ latest.id # 0
                          /\ latest.row = rows[Len(db.rows)]
  BY <1>2, <1>3, EntryIs
<1>5. latest # Null =>
        (latest.row.status = "success" /\ latest.row.verification = "passed"
           => latest.id \in Passed(db.rows))
  BY <1>1, <1>2, <1>4, SelectedRows
<1> HIDE DEF latest
<1>6. /\ backup \in Stats /\ backup.verified = Null /\ backup.history = {} /\ backup.latest = latest
  BY <1>4 DEF NoBackups, Stats
<1>7. IsLogged(backup, db.rows)
  BY <1>2, <1>4, <1>5, <1>6 DEF IsLogged, Entries
<1>8. CASE db.up
  <2>1. PICK next \in {"verified", "history"} : poll' = [poll EXCEPT !.pc = next, !.backup = backup]
    BY <1>1, <1>8
  <2> HIDE DEF backup
  <2> QED
    BY <1>1, <1>6, <1>7, <2>1, AskSucceeds
<1> QED
  BY <1>1, <1>8, AskFails

(* The last verified row, which is one that passed. *)
LEMMA AskVerifiedStep == ASSUME StatusInv, AskVerified PROVE StatusInv'
<1> DEFINE last == LastOf(Passed(db.rows))
           verified == Entry(db.rows, last)
           backup == [poll.backup EXCEPT !["verified"] = verified]
<1>1. /\ OnlyPoll /\ UNCHANGED budget /\ poll.pc = "verified" /\ poll.backup \in Stats
      /\ poll \in Learnt /\ db.rows \in Seq(Row) /\ IsLogged(poll.backup, db.rows)
      /\ poll' = IF db.up THEN [poll EXCEPT !.pc = "total",
                                            !.backup = [@ EXCEPT !["verified"] = verified]]
                 ELSE [poll EXCEPT !.pc = "store", !.backup = Null]
  BY PollIs DEF AskVerified, Ask, Asks, StatusInv, PollInv, Learn
<1>2. Len(db.rows) \in Nat /\ Passed(db.rows) \in SUBSET (1..Len(db.rows))
  BY <1>1, RowsAre
<1>3. last = 0 \/ last \in Passed(db.rows)
  BY <1>2, LastIs
<1> HIDE DEF last
<1>4. last \in Nat /\ (last = 0 \/ db.rows[last] \in Row)
  BY <1>1, <1>2, <1>3, RowsAre
<1>5. /\ verified \in EntryOf \cup {Null}
      /\ verified # Null => verified.id \in Passed(db.rows) /\ verified.id <= Len(db.rows)
  BY <1>2, <1>3, <1>4, EntryIs
<1> HIDE DEF verified
<1>6. /\ backup \in Stats /\ backup.verified = verified /\ backup.history = poll.backup.history
      /\ backup.latest = poll.backup.latest
  BY <1>1, <1>5 DEF Stats
<1>7. IsLogged(backup, db.rows)
  BY <1>1, <1>2, <1>5, <1>6 DEF IsLogged, Entries
<1>8. CASE db.up
  <2>1. poll' = [poll EXCEPT !.pc = "total", !.backup = backup]
    BY <1>1, <1>8
  <2> HIDE DEF backup
  <2> QED
    BY <1>1, <1>6, <1>7, <2>1, AskSucceeds
<1> QED
  BY <1>1, <1>8, AskFails

(* The verified rows are counted after the last one was found: it is counted. *)
LEMMA AskTotalStep == ASSUME StatusInv, AskTotal PROVE StatusInv'
<1> DEFINE total == Cardinality(Passed(db.rows))
           backup == [poll.backup EXCEPT !["total"] = total]
<1>1. /\ OnlyPoll /\ UNCHANGED budget /\ poll.pc = "total" /\ poll.backup \in Stats
      /\ poll \in Learnt /\ db.rows \in Seq(Row) /\ IsLogged(poll.backup, db.rows)
      /\ poll' = IF db.up THEN [poll EXCEPT !.pc = "history",
                                            !.backup = [@ EXCEPT !["total"] = total]]
                 ELSE [poll EXCEPT !.pc = "store", !.backup = Null]
  BY PollIs DEF AskTotal, Ask, Asks, StatusInv, PollInv, Learn
<1>2. total \in Nat /\ (Passed(db.rows) # {} => total > 0)
  BY <1>1, PassedCount
<1> HIDE DEF total
<1>3. /\ backup \in Stats /\ backup.verified = poll.backup.verified
      /\ backup.history = poll.backup.history /\ backup.latest = poll.backup.latest
      /\ backup.total = total
  BY <1>1, <1>2 DEF Stats
<1>4. IsLogged(backup, db.rows)
  BY <1>1, <1>3 DEF IsLogged, Entries
<1>5. backup.verified # Null => backup.total > 0
  BY <1>2, <1>3, <1>4 DEF IsLogged
<1>6. CASE db.up
  <2>1. poll' = [poll EXCEPT !.pc = "history", !.backup = backup]
    BY <1>1, <1>6
  <2> HIDE DEF backup
  <2> QED
    BY <1>1, <1>3, <1>4, <1>5, <2>1, AskSucceeds
<1> QED
  BY <1>1, <1>6, AskFails

(* The history comes last and begins with the newest row there is, so it is *)
(* at least as new as whatever was learnt before.                           *)
LEMMA AskHistoryStep == ASSUME StatusInv, AskHistory PROVE StatusInv'
<1> DEFINE rows == Selected(db.rows)
           places == {j \in DOMAIN db.rows : j > Len(db.rows) - HistorySize}
           history == {Entry(rows, i) : i \in places}
           backup == [poll.backup EXCEPT !["history"] = history]
<1>1. /\ OnlyPoll /\ UNCHANGED budget /\ poll.pc = "history" /\ poll.backup \in Stats
      /\ poll \in Learnt /\ db.rows \in Seq(Row) /\ IsLogged(poll.backup, db.rows)
      /\ poll.backup.verified # Null => poll.backup.total > 0
      /\ poll' = IF db.up THEN [poll EXCEPT !.pc = "store",
                                            !.backup = [@ EXCEPT !["history"] = history]]
                 ELSE [poll EXCEPT !.pc = "store", !.backup = Null]
  BY PollIs DEF AskHistory, Ask, Asks, StatusInv, PollInv, Learn
<1>2. Len(db.rows) \in Nat /\ DOMAIN db.rows = 1..Len(db.rows)
  BY <1>1, RowsAre
<1>3. \A i \in places : /\ i \in 1..Len(db.rows) /\ rows[i] \in Row
                        /\ rows[i].status = "success" /\ rows[i].verification = "passed"
                           => i \in Passed(db.rows)
  BY <1>1, <1>2, SelectedRows
<1> HIDE DEF rows
<1>4. \A i \in places : /\ Entry(rows, i) \in EntryOf /\ Entry(rows, i).id = i
                        /\ Entry(rows, i).row = rows[i]
  BY <1>2, <1>3 DEF Entry, EntryOf
<1>5. \A e \in history : /\ e \in EntryOf /\ e.id \in places /\ e.id <= Len(db.rows)
                         /\ e.row.status = "success" /\ e.row.verification = "passed"
                            => e.id \in Passed(db.rows)
  BY <1>3, <1>4
<1>6. db.rows # <<>> => \E e \in history : e.id = Len(db.rows)
  <2>1. SUFFICES ASSUME db.rows # <<>> PROVE \E e \in history : e.id = Len(db.rows)
    OBVIOUS
  <2>2. Len(db.rows) \in Nat \ {0}
    BY <1>1, <2>1, EmptySeq
  <2>3. Len(db.rows) \in places
    BY <1>2, <2>2
  <2> QED
    BY <1>4, <2>3
<1> HIDE DEF history, places
<1>7. /\ backup \in Stats /\ backup.verified = poll.backup.verified /\ backup.history = history
      /\ backup.latest = poll.backup.latest /\ backup.total = poll.backup.total
  BY <1>1, <1>5 DEF Stats
<1>8. IsLogged(backup, db.rows)
  BY <1>1, <1>2, <1>5, <1>7 DEF IsLogged, Entries
<1>9. HangsTogether(backup)
  <2>1. SUFFICES ASSUME NEW e \in {backup.latest, backup.verified} \ {Null}
                 PROVE  \E h \in backup.history : h.id >= e.id
    BY <1>1, <1>7 DEF HangsTogether
  <2>2. e \in EntryOf /\ e.id <= Len(db.rows)
    BY <1>7, <1>8 DEF IsLogged, Entries, Stats
  <2>3. Len(db.rows) # 0
    BY <1>2, <2>2 DEF EntryOf
  <2>4. db.rows # <<>>
    BY <2>3, EmptySeq
  <2> QED
    BY <1>2, <1>6, <1>7, <2>2, <2>4 DEF EntryOf
<1>10. CASE db.up
  <2>1. poll' = [poll EXCEPT !.pc = "store", !.backup = backup]
    BY <1>1, <1>10
  <2> HIDE DEF backup
  <2> QED
    BY <1>1, <1>7, <1>8, <1>9, <2>1, AskSucceeds
<1> QED
  BY <1>1, <1>10, AskFails
(* The poll is over: what it learnt is kept, what it failed to learn is not *)
(* taken from the picture of the jobs.                                      *)
LEMMA StoreStep == ASSUME StatusInv, Store PROVE StatusInv'
<1> DEFINE s == [[status EXCEPT !.container = poll.container] EXCEPT !.backup = poll.backup]
<1>1. /\ poll.pc = "store" /\ UNCHANGED <<container, db, pool, card, icon, buttons, commands, budget>>
      /\ status' = Kept(s) /\ poll' = [poll EXCEPT !.pc = "tell"]
      /\ poll \in Learnt /\ status \in Told /\ card \in Told /\ status.job \notin status.completed
      /\ poll.jobs # Null => poll.jobs.job \notin poll.jobs.counts.completed
      /\ poll.backup # Null => IsLogged(poll.backup, db.rows) /\ HangsTogether(poll.backup)
  BY DEF Store, Asks, shown, StatusInv, TypeOK, ToldInv, PollInv
<1>2. poll' \in Learnt /\ poll'.pc = "tell" /\ poll'.backup = poll.backup /\ poll'.jobs = poll.jobs
  BY <1>1 DEF Learnt
<1>3. /\ s \in Told /\ s.backup = poll.backup /\ s.job = status.job /\ s.completed = status.completed
  BY <1>1 DEF Told, Learnt
<1> HIDE DEF s
<1>4. status' \in Told /\ status'.backup = poll.backup /\ status'.job \notin status'.completed
  <2>1. CASE poll.jobs = Null
    BY <1>1, <1>3, <2>1 DEF Kept
  <2>2. CASE poll.jobs # Null
    <3>1. PICK completed \in SUBSET Job, failed \in SUBSET Job, job \in Job \cup {Null} :
            poll.jobs.counts.completed = completed /\ poll.jobs.counts.failed = failed
            /\ poll.jobs.job = job
      BY <1>1, <2>2 DEF Learnt, CountsOf
    <3>2. status' = [s EXCEPT !.completed = completed, !.failed = failed, !.job = job,
                              !.connected = TRUE]
      BY <1>1, <2>2, <3>1 DEF Kept
    <3>3. /\ status' \in Told /\ status'.backup = s.backup /\ status'.job = job
          /\ status'.completed = completed
      BY <1>3, <3>2 DEF Told
    <3> QED
      BY <1>1, <1>3, <2>2, <3>1, <3>3
  <2> QED
    BY <2>1, <2>2
<1>5. TypeOK'
  BY <1>1, <1>2, <1>4, Zenon DEF StatusInv, TypeOK
<1>6. ToldInv'
  <2>1. SUFFICES ASSUME NEW s2 \in {status', card}
                 PROVE  /\ s2.backup # Null => IsLogged(s2.backup, db.rows) /\ HangsTogether(s2.backup)
                        /\ s2.job \notin s2.completed
    BY <1>1 DEF ToldInv, IsLogged, HangsTogether, Entries, Passed
  <2> QED
    BY <1>1, <1>4 DEF StatusInv, ToldInv
<1>7. PollInv'
  BY <1>1, <1>2 DEF StatusInv, PollInv, IsLogged, HangsTogether, Entries, Passed
<1> QED
  BY <1>5, <1>6, <1>7 DEF StatusInv

(* A step of the app that learns nothing and tells at most the status. *)
LEMMA ToldStep ==
    ASSUME StatusInv, UNCHANGED <<db, status>>, card' \in {card, status},
           container' \in Containers, pool' \in {"connecting", "ready", "none"},
           icon' \in {"active", "idle", "stopped"}, buttons' \subseteq Commands,
           commands' \in [Commands -> Nat],
           budget' \in [changes: 0..MaxChanges, failures: 0..MaxFailures],
           poll' \in {poll, Asking}
    PROVE  StatusInv'
<1>1. Asking \in Learnt /\ Asking.pc = "container" /\ Asking.jobs = Null /\ Asking.backup = Null
  BY DEF Asking, Learnt
<1>2. TypeOK'
  BY <1>1 DEF StatusInv, TypeOK
<1>3. ToldInv'
  BY DEF StatusInv, ToldInv, IsLogged, HangsTogether, Entries, Passed
<1>4. PollInv'
  <2>1. CASE poll' = Asking
    BY <1>1, <2>1 DEF PollInv
  <2>2. CASE poll' = poll
    BY <2>2 DEF StatusInv, PollInv, IsLogged, HangsTogether, Entries, Passed
  <2> QED
    BY <2>1, <2>2
<1> QED
  BY <1>2, <1>3, <1>4 DEF StatusInv

LEMMA TellStep == ASSUME StatusInv, Tell PROVE StatusInv'
  BY ToldStep DEF Commands, Tell, ApplyStatus, Icon, StatusInv, TypeOK

LEMMA TogglePopupStep == ASSUME StatusInv, TogglePopup PROVE StatusInv'
  BY ToldStep DEF Commands, TogglePopup, ApplyStatus, StatusInv, TypeOK

LEMMA InitPoolStep == ASSUME StatusInv, InitPool PROVE StatusInv'
<1>1. pool' \in {"connecting", "ready", "none"}
  BY DEF InitPool
<1> QED
  BY <1>1, ToldStep DEF InitPool, StatusInv, TypeOK, shown

LEMMA ClickStep ==
    ASSUME StatusInv, NEW button \in Commands, Click(button)
    PROVE  StatusInv'
<1>1. budget' \in [changes: 0..MaxChanges, failures: 0..MaxFailures]
  BY DEF StatusInv, TypeOK, Click
<1>2. commands' \in [Commands -> Nat]
  BY DEF StatusInv, TypeOK, Click
<1> QED
  BY <1>1, <1>2, ToldStep DEF Click, StatusInv, TypeOK

LEMMA CommandEndsStep ==
    ASSUME StatusInv, NEW c \in Commands, CommandEnds(c)
    PROVE  StatusInv'
<1>1. container' \in Containers
  BY DEF StatusInv, TypeOK, CommandEnds, Containers
<1>2. commands' \in [Commands -> Nat]
  BY DEF StatusInv, TypeOK, CommandEnds
<1> QED
  BY <1>1, <1>2, ToldStep DEF CommandEnds, StatusInv, TypeOK, shown

LEMMA ContainerStopsStep == ASSUME StatusInv, ContainerStops PROVE StatusInv'
<1>1. budget' \in [changes: 0..MaxChanges, failures: 0..MaxFailures] /\ container' \in Containers
  BY DEF StatusInv, TypeOK, ContainerStops, Containers
<1> QED
  BY <1>1, ToldStep DEF ContainerStops, StatusInv, TypeOK, shown

-----------------------------------------------------------------------------
(* Steps of the world. *)

(* What was told stays true of a log that only grows and of jobs of which  *)
(* none leaves "completed".                                                *)
LEMMA WorldStep ==
    ASSUME StatusInv, UNCHANGED <<container, pool, poll, status, shown, commands>>,
           db' \in Database, budget' \in [changes: 0..MaxChanges, failures: 0..MaxFailures],
           Len(db.rows) <= Len(db'.rows), Passed(db.rows) \subseteq Passed(db'.rows),
           \A j \in Job : db.job[j] = "completed" => db'.job[j] = "completed"
    PROVE  StatusInv'
<1>1. /\ db.rows \in Seq(Row) /\ db'.rows \in Seq(Row)
      /\ poll \in Learnt /\ status \in Told /\ card \in Told
  BY PollIs DEF StatusInv, TypeOK, Database
<1>2. \A backup \in Stats : IsLogged(backup, db.rows) => IsLogged(backup, db'.rows)
  BY <1>1, LoggedStays
<1>3. TypeOK'
  BY DEF StatusInv, TypeOK, shown
<1>4. ToldInv'
  <2>1. SUFFICES ASSUME NEW s \in {status, card}
                 PROVE  /\ s.backup # Null => IsLogged(s.backup, db'.rows) /\ HangsTogether(s.backup)
                        /\ s.job \notin s.completed
    BY DEF ToldInv, shown, IsLogged, HangsTogether, Entries
  <2>2. s.backup \in Stats \cup {Null}
    BY <1>1 DEF Told
  <2> QED
    BY <1>2, <2>2 DEF StatusInv, ToldInv
<1>5. PollInv'
  <2>1. poll' = poll /\ poll.backup \in Stats \cup {Null}
    BY <1>1 DEF Learnt
  <2>2. poll.pc = "job" => \A j \in poll.counted.completed : db'.job[j] = "completed"
    BY DEF StatusInv, PollInv, CountsOf
  <2>3. poll.pc \in {"verified", "total", "history"} => IsLogged(poll.backup, db'.rows)
    BY <1>2 DEF StatusInv, PollInv
  <2>4. poll.pc \in {"store", "tell"} /\ poll.backup # Null => IsLogged(poll.backup, db'.rows)
    BY <1>2, <2>1 DEF StatusInv, PollInv
  <2> QED
    BY <2>1, <2>2, <2>3, <2>4 DEF StatusInv, PollInv, IsLogged, HangsTogether, Entries
<1> QED
  BY <1>3, <1>4, <1>5 DEF StatusInv
LEMMA ChangesStep ==
    ASSUME StatusInv, NEW new \in Database, Changes(new),
           Len(db.rows) <= Len(new.rows), Passed(db.rows) \subseteq Passed(new.rows),
           \A j \in Job : db.job[j] = "completed" => new.job[j] = "completed"
    PROVE  StatusInv'
<1>1. budget' \in [changes: 0..MaxChanges, failures: 0..MaxFailures]
  BY DEF StatusInv, TypeOK, Changes
<1>2. db' = new
  BY DEF Changes
<1> QED
  BY <1>1, <1>2, WorldStep DEF Changes

(* A change that leaves the log alone *)
LEMMA LogUntouched ==
    ASSUME StatusInv, NEW new \in Database, Changes(new), new.rows = db.rows,
           \A j \in Job : db.job[j] = "completed" => new.job[j] = "completed"
    PROVE  StatusInv'
<1>1. Len(db.rows) \in Nat
  BY PollIs, RowsAre DEF StatusInv
<1>2. Len(db.rows) <= Len(new.rows) /\ Passed(db.rows) \subseteq Passed(new.rows)
  BY <1>1
<1> QED
  BY <1>2, ChangesStep

LEMMA DbComesAndGoesStep == ASSUME StatusInv, DbComesAndGoes PROVE StatusInv'
<1> DEFINE new == [db EXCEPT !.up = ~@]
<1>1. db \in Database
  BY PollIs DEF StatusInv
<1>2. new \in Database /\ new.rows = db.rows /\ new.job = db.job
  BY <1>1 DEF Database
<1>3. Changes(new)
  BY DEF DbComesAndGoes
<1> HIDE DEF new
<1> QED
  BY <1>2, <1>3, LogUntouched

LEMMA MigrateStep == ASSUME StatusInv, Migrate PROVE StatusInv'
<1> DEFINE new == [db EXCEPT !.table = TRUE, !.phase3 = TRUE]
<1>1. db \in Database
  BY PollIs DEF StatusInv
<1>2. new \in Database /\ new.rows = db.rows /\ new.job = db.job
  BY <1>1 DEF Database
<1>3. Changes(new)
  BY DEF Migrate
<1> HIDE DEF new
<1> QED
  BY <1>2, <1>3, LogUntouched

LEMMA MidnightStep == ASSUME StatusInv, Midnight PROVE StatusInv'
<1> DEFINE new == [db EXCEPT !.today = {}]
<1>1. db \in Database
  BY PollIs DEF StatusInv
<1>2. new \in Database /\ new.rows = db.rows /\ new.job = db.job
  BY <1>1 DEF Database
<1>3. Changes(new)
  BY DEF Midnight
<1> HIDE DEF new
<1> QED
  BY <1>2, <1>3, LogUntouched

LEMMA JobMovesStep ==
    ASSUME StatusInv, NEW j \in Job, NEW from \in SUBSET {"queued", "processing", "failed"},
           NEW to \in {"processing", "completed", "failed"}, JobMoves(j, from, to)
    PROVE  StatusInv'
<1> DEFINE m == [db EXCEPT !.job[j] = to]
           new == [m EXCEPT !.today = @ \cup {j}]
<1>1. db \in Database /\ db.job[j] \in from
  BY PollIs DEF StatusInv, JobMoves
<1>2. /\ m \in Database /\ m.rows = db.rows
      /\ \A k \in Job : db.job[k] = "completed" => m.job[k] = "completed"
  BY <1>1 DEF Database
<1>3. Changes(new)
  BY DEF JobMoves
<1> HIDE DEF m
<1>4. new \in Database /\ new.rows = db.rows /\ new.job = m.job
  BY <1>2 DEF Database
<1> HIDE DEF new
<1> QED
  BY <1>2, <1>3, <1>4, LogUntouched

(* A new row *)
LEMMA BackupBeginsStep == ASSUME StatusInv, BackupBegins PROVE StatusInv'
<1> DEFINE row == IF db.phase3 THEN Begun ELSE [Begun EXCEPT !.verification = Null]
           rows == Append(db.rows, row)
           new == [db EXCEPT !.rows = rows]
<1>1. db \in Database /\ db.rows \in Seq(Row)
  BY PollIs DEF StatusInv
<1>2. row \in Row /\ Changes(new)
  BY DEF BackupBegins, Begun, Row
<1> HIDE DEF row
<1>3. /\ rows \in Seq(Row) /\ Len(rows) = Len(db.rows) + 1
      /\ \A i \in 1..Len(db.rows) : rows[i] = db.rows[i]
  BY <1>1, <1>2, AppendProperties
<1> HIDE DEF rows
<1>4. new \in Database /\ new.rows = rows /\ new.job = db.job
  BY <1>1, <1>3 DEF Database
<1>5. Len(db.rows) <= Len(rows) /\ Passed(db.rows) \subseteq Passed(rows)
  <2>1. Len(db.rows) \in Nat /\ DOMAIN db.rows = 1..Len(db.rows) /\ DOMAIN rows = 1..Len(rows)
    BY <1>1, <1>3, RowsAre
  <2> QED
    BY <1>3, <2>1 DEF Passed
<1> HIDE DEF new
<1> QED
  BY <1>2, <1>4, <1>5, ChangesStep

(* A row that is not passed yet becomes another one. *)
LEMMA BecomesStep ==
    ASSUME StatusInv, NEW i, Unfinished(i), NEW row \in Row, Becomes(i, row)
    PROVE  StatusInv'
<1> DEFINE rows == [db.rows EXCEPT ![i] = row]
           new == [db EXCEPT !.rows = rows]
<1>1. db \in Database /\ db.rows \in Seq(Row)
  BY PollIs DEF StatusInv
<1>2. /\ Len(db.rows) \in Nat /\ DOMAIN db.rows = 1..Len(db.rows)
      /\ i \in 1..Len(db.rows) /\ db.rows[i].status = "running"
  BY <1>1, RowsAre DEF Unfinished
<1>3. /\ rows \in Seq(Row) /\ Len(rows) = Len(db.rows)
      /\ \A j \in 1..Len(db.rows) : rows[j] = IF j = i THEN row ELSE db.rows[j]
  BY <1>1, <1>2, ExceptSeq
<1>4. Changes(new)
  BY DEF Becomes
<1> HIDE DEF rows
<1>5. new \in Database /\ new.rows = rows /\ new.job = db.job
  BY <1>1, <1>3 DEF Database
<1>6. Len(db.rows) <= Len(rows) /\ Passed(db.rows) \subseteq Passed(rows)
  <2>1. DOMAIN rows = 1..Len(rows)
    BY <1>3, RowsAre
  <2> QED
    BY <1>2, <1>3, <2>1 DEF Passed
<1> HIDE DEF new
<1> QED
  BY <1>4, <1>5, <1>6, ChangesStep

LEMMA BackupMovesStep ==
    ASSUME StatusInv, NEW i \in 1..MaxRows,
           \/ BackupUploads(i) \/ BackupVerified(i) \/ BackupFails(i) \/ OldBackupSucceeds(i)
    PROVE  StatusInv'
<1>1. Unfinished(i)
  BY DEF BackupUploads, BackupVerified, BackupFails, OldBackupSucceeds, Verifies
<1>2. db.rows[i] \in Row
  BY <1>1, PollIs, RowsAre DEF StatusInv, Unfinished
<1>3. \E row \in Row : Becomes(i, row)
  <2>1. CASE BackupUploads(i)
    <3>1. [db.rows[i] EXCEPT !.uploaded = TRUE] \in Row
      BY <1>2 DEF Row
    <3> QED
      BY <2>1, <3>1 DEF BackupUploads
  <2>2. CASE BackupVerified(i) \/ OldBackupSucceeds(i)
    <3>1. Verified \in Row /\ Legacy \in Row
      BY DEF Verified, Legacy, Row
    <3> QED
      BY <2>2, <3>1 DEF BackupVerified, OldBackupSucceeds
  <2>3. CASE BackupFails(i)
    <3>1. PICK failed \in {"failed", db.rows[i].verification} :
            Becomes(i, [db.rows[i] EXCEPT !.status = "failed", !.verification = failed])
      BY <2>3 DEF BackupFails
    <3> DEFINE m == [db.rows[i] EXCEPT !.status = "failed"]
    <3>2. m \in Row /\ failed \in {Null, "pending", "passed", "failed"}
      BY <1>2, <3>1 DEF Row
    <3> HIDE DEF m
    <3>3. [m EXCEPT !.verification = failed] \in Row
      BY <3>2 DEF Row
    <3> QED
      BY <3>1, <3>3 DEF m
  <2> QED
    BY <2>1, <2>2, <2>3
<1> QED
  BY <1>1, <1>3, BecomesStep

-----------------------------------------------------------------------------
LEMMA MonitorStep == ASSUME StatusInv, Monitor PROVE StatusInv'
  BY InitPoolStep, AskContainerStep, LookForPoolStep, AskCountsStep, AskJobStep, AskTableStep,
     AskColumnsStep, AskLatestStep, AskVerifiedStep, AskTotalStep, AskHistoryStep, StoreStep,
     TellStep DEF Monitor

LEMMA WorldMovesStep == ASSUME StatusInv, World PROVE StatusInv'
<1>1. ASSUME NEW j \in Job, Claim(j) \/ Complete(j) \/ Fail(j) PROVE StatusInv'
  BY <1>1, JobMovesStep DEF Claim, Complete, Fail
<1> QED
  BY <1>1, ContainerStopsStep, DbComesAndGoesStep, MigrateStep, MidnightStep, BackupBeginsStep,
     BackupMovesStep DEF World

LEMMA NextStatusInv == StatusInv /\ [Next]_vars => StatusInv'
<1> SUFFICES ASSUME StatusInv, [Next]_vars PROVE StatusInv'
  OBVIOUS
<1>1. CASE UNCHANGED vars
  BY <1>1, ToldStep DEF vars, shown, StatusInv, TypeOK
<1>2. CASE Next
  BY <1>2, MonitorStep, WorldMovesStep, TogglePopupStep, ClickStep, CommandEndsStep DEF Next
<1> QED
  BY <1>1, <1>2

(* Whatever the menu bar app is told, in however many statements, fits       *)
(* together and to the log: the history begins at least as late as the       *)
(* latest and the last verified backup, a verified backup is counted, and a  *)
(* job being processed is not shown as completed (db.rs:37-56, 170-224).     *)
THEOREM Invariance == Spec => []StatusInv
  BY InitStatusInv, NextStatusInv, PTL DEF Spec

(* A green light: this very backup passed its restore verification, however  *)
(* the log moved while the card was put together (index.html,                *)
(* getBackupState; docs/MONITOR_APP.md:127).                                 *)
THEOREM GreenIsVerified == Spec => []GreenMeansVerified
<1>1. StatusInv => GreenMeansVerified
  <2>1. SUFFICES ASSUME StatusInv, card.backup # Null, NEW e \in Entries(card.backup),
                        Dot(e.row) = "running"
                 PROVE  db.rows[e.id].status = "success" /\ db.rows[e.id].verification = "passed"
    BY DEF GreenMeansVerified
  <2>2. card.backup \in Stats /\ IsLogged(card.backup, db.rows)
    BY <2>1 DEF StatusInv, TypeOK, ToldInv, Told
  <2>3. e \in EntryOf
    BY <2>1, <2>2 DEF Entries, Stats
  <2>4. e.row.status = "success" /\ e.row.verification = "passed"
    BY <2>1, <2>3, GreenDot DEF EntryOf
  <2>5. e.id \in Passed(db.rows)
    BY <2>1, <2>2, <2>4 DEF IsLogged
  <2> QED
    BY <2>5 DEF Passed
<1> QED
  BY <1>1, Invariance, PTL

-----------------------------------------------------------------------------
(* Part two: the rollout. *)
-----------------------------------------------------------------------------
(* The rollout's view of the log. *)

LEMMA LogIs ==
    ASSUME RolloutTypeOK
    PROVE  /\ Len(logs) \in Nat /\ DOMAIN logs = 1..Len(logs)
           /\ \A i \in 1..Len(logs) : logs[i] \in BackupStatusEntry
           /\ Len(logs) <= MaxRuns /\ service \in 0..Len(logs) /\ smoke.run \in 0..Len(logs)
           /\ RestoreVerified \subseteq 1..Len(logs)
           /\ \A i \in 1..Len(logs) :
                i \in RestoreVerified <=>
                  logs[i].status = "success" /\ logs[i].verification = "passed"
<1>1. logs \in Seq(BackupStatusEntry) /\ Len(logs) <= MaxRuns /\ service \in 0..Len(logs)
  BY DEF RolloutTypeOK
<1>2. Len(logs) \in Nat /\ DOMAIN logs = 1..Len(logs) /\ \A i \in 1..Len(logs) : logs[i] \in BackupStatusEntry
  BY <1>1, LenProperties, ElementOfSeq
<1>3. smoke.run \in 0..Len(logs)
  <2>1. smoke.run \in 0..MaxRuns /\ smoke.run <= Len(logs)
    BY DEF RolloutTypeOK, Script
  <2> QED
    BY <1>2, <2>1
<1> QED
  BY <1>1, <1>2, <1>3 DEF RestoreVerified

(* ORDER BY started_at DESC LIMIT 1 finds the last of the rows, if any. *)
LEMMA NewestIs ==
    ASSUME RolloutTypeOK, NEW rows \in SUBSET (DOMAIN logs)
    PROVE  /\ rows = {} => Newest(rows) = None
           /\ rows # {} =>
                /\ Newest(rows) \in LoggedEntry /\ Newest(rows) # None
                /\ Newest(rows).run \in rows
                /\ \A r \in rows : r <= Newest(rows).run
                /\ Newest(rows).row = logs[Newest(rows).run]
<1>1. CASE rows # {}
  <2> DEFINE last == CHOOSE r \in rows : \A q \in rows : q <= r
  <2>1. \E r \in rows : \A q \in rows : q <= r
    BY <1>1, LogIs, HasLast
  <2>2. last \in rows /\ \A q \in rows : q <= last
    BY <2>1
  <2>3. Newest(rows) = [run |-> last, row |-> logs[last]]
    BY <1>1 DEF Newest
  <2> HIDE DEF last
  <2>4. last \in 1..MaxRuns /\ logs[last] \in BackupStatusEntry
    BY <2>2, LogIs
  <2>5. Newest(rows) \in LoggedEntry
    BY <2>3, <2>4 DEF LoggedEntry
  <2>6. Newest(rows) # None
    BY <2>5, NoneAssumption
  <2> QED
    BY <1>1, <2>2, <2>3, <2>5, <2>6
<1>2. CASE rows = {}
  BY <1>2 DEF Newest
<1> QED
  BY <1>1, <1>2

LEMMA VerifiedCount ==
    ASSUME RolloutTypeOK
    PROVE  /\ Cardinality(RestoreVerified) \in 0..MaxRuns
           /\ RestoreVerified # {} => Cardinality(RestoreVerified) > 0
<1>1. Len(logs) \in Int /\ 1 \in Int /\ Len(logs) \in 0..MaxRuns /\ RestoreVerified \in SUBSET (1..Len(logs))
  BY LogIs
<1>2. IsFiniteSet(1..Len(logs)) /\ Cardinality(1..Len(logs)) = Len(logs)
  <2>1. /\ IsFiniteSet(1..Len(logs))
        /\ Cardinality(1..Len(logs)) = IF 1 > Len(logs) THEN 0 ELSE Len(logs) - 1 + 1
    BY <1>1, FS_Interval, Zenon
  <2>2. (IF 1 > Len(logs) THEN 0 ELSE Len(logs) - 1 + 1) = Len(logs)
    BY <1>1
  <2> QED
    BY <2>1, <2>2
<1>3. IsFiniteSet(RestoreVerified) /\ Cardinality(RestoreVerified) <= Len(logs)
  BY <1>1, <1>2, FS_Subset
<1>4. Cardinality(RestoreVerified) \in Nat
  BY <1>3, FS_CardinalityType
<1>5. RestoreVerified # {} => Cardinality(RestoreVerified) # 0
  BY <1>3, FS_EmptySet
<1> QED
  BY <1>1, <1>3, <1>4, <1>5

(* A green light is for a row that passed its verification. *)
LEMMA GreenRow ==
    ASSUME NEW row \in BackupStatusEntry
    PROVE  getBackupUiState(row) = "verified" <=> row.status = "success" /\ row.verification = "passed"
  BY DEF getBackupUiState, BackupStatusEntry

LEMMA LoggedEntryIs ==
    ASSUME NEW e \in LoggedEntry
    PROVE  e # None /\ e.run \in 1..MaxRuns /\ e.row \in BackupStatusEntry
           /\ (UiState(e) = "verified" <=> e.row.status = "success" /\ e.row.verification = "passed")
<1>1. e # None /\ e.run \in 1..MaxRuns /\ e.row \in BackupStatusEntry
  BY NoneAssumption DEF LoggedEntry
<1> QED
  BY <1>1, GreenRow DEF UiState

LEMMA OffIs ==
    /\ Off \in Script
    /\ Idle \in [pc: {"idle", "dump"}, content: Schema \cup {None, Foreign}, since: BOOLEAN]
  BY DEF Off, Idle, Script, Preflight, Pipeline, Snapshot

-----------------------------------------------------------------------------
LEMMA RolloutInitInv == RolloutInit => RolloutInv
<1> SUFFICES ASSUME RolloutInit PROVE RolloutInv
  OBVIOUS
<1>1. app \in Schema
  BY DEF RolloutInit, Schema, LogTable
<1>2. logs \in Seq(BackupStatusEntry) /\ Len(logs) = 0
  BY EmptySeq DEF RolloutInit
<1>3. smoke = Off /\ smoke \in Script /\ smoke.run = 0
  BY OffIs DEF RolloutInit, Off
<1>4. export = Idle /\ export \in [pc: {"idle", "dump"}, content: Schema \cup {None, Foreign}, since: BOOLEAN]
  BY OffIs DEF RolloutInit
<1>5. RolloutTypeOK
  BY <1>1, <1>2, <1>3, <1>4 DEF RolloutInit, RolloutTypeOK
<1>6. BootstrapIsCurrent
  BY <1>1, <1>4, NoneAssumption DEF RolloutInit, BootstrapIsCurrent, Idle
<1>7. StageInv /\ ReadyInv /\ SnapshotInv
  BY <1>3 DEF Off, StageInv, ReadyInv, SnapshotInv, At, Preflight, Pipeline, Snapshot, UiState
<1>8. RunsApart
  BY <1>3 DEF RolloutInit, RunsApart, Off, Preflight, Pipeline, Snapshot
<1> QED
  BY <1>5, <1>6, <1>7, <1>8 DEF RolloutInv

(* What is spent, and what a fault adds to it *)
LEMMA SpentStep ==
    ASSUME RolloutTypeOK, UNCHANGED spent \/ Fault \/ OperatorChanges
    PROVE  spent' \in [changes: 0..MaxOperations, failures: 0..MaxFaults]
  BY DEF RolloutTypeOK, Fault, OperatorChanges

-----------------------------------------------------------------------------
(* Steps of the scripts that leave the log alone. *)

LEMMA SmokeStep ==
    ASSUME RolloutInv, SmokeOnly, UNCHANGED spent \/ Fault, smoke' \in Script,
           smoke'.run = smoke.run \/ smoke'.run = 0,
           StageInv', ReadyInv', RunsApart', SnapshotInv'
    PROVE  RolloutInv'
<1>1. /\ RolloutTypeOK /\ smoke'.run <= Len(logs)
      /\ UNCHANGED <<app, verify, file, psql, current, logs, service, export>>
  BY LogIs DEF RolloutInv, SmokeOnly, world
<1>2. spent' \in [changes: 0..MaxOperations, failures: 0..MaxFaults]
  BY <1>1, SpentStep, Zenon
<1>3. RolloutTypeOK'
  BY <1>1, <1>2 DEF RolloutTypeOK
<1>4. BootstrapIsCurrent'
  BY DEF RolloutInv, BootstrapIsCurrent, SmokeOnly, world
<1> QED
  BY <1>3, <1>4 DEF RolloutInv

(* A script that has not begun its backup, or none *)
LEMMA EarlyStep ==
    ASSUME RolloutInv, SmokeOnly, UNCHANGED spent \/ Fault, smoke' \in Script,
           smoke'.run = 0, smoke'.cause = "none", smoke'.latest = None, smoke'.latestVerified = None,
           smoke'.pc \in {"off", "start", "table"} \cup Preflight,
           smoke'.pc \in {"start"} \cup Preflight => smoke'.mode = "smoke",
           smoke'.pc = "table" => smoke'.mode = "status",
           ReadyInv'
    PROVE  RolloutInv'
<1>1. StageInv'
  BY DEF StageInv, At, Preflight, Pipeline, Snapshot
<1>2. RunsApart'
  BY DEF RolloutInv, RunsApart, SmokeOnly, Preflight, Pipeline, Snapshot
<1>3. SnapshotInv'
  BY DEF SnapshotInv, At, Preflight, Snapshot, UiState
<1> QED
  BY <1>1, <1>2, <1>3, SmokeStep

LEMMA EarlyIs ==
    ASSUME RolloutInv, smoke.pc \in {"off", "start"} \cup Preflight
    PROVE  /\ smoke \in Script /\ smoke.run = 0 /\ smoke.cause = "none"
           /\ smoke.latest = None /\ smoke.latestVerified = None
           /\ smoke.pc # "off" => smoke.mode = "smoke"
  BY DEF RolloutInv, RolloutTypeOK, StageInv, Preflight

LEMMA GoesOff ==
    ASSUME RolloutInv, SmokeOnly, UNCHANGED spent \/ Fault, smoke' = Off
    PROVE  RolloutInv'
<1>1. ReadyInv'
  BY DEF Off, ReadyInv, At, Preflight, Pipeline
<1>2. smoke' \in Script
  BY OffIs
<1>3. /\ smoke'.pc = "off" /\ smoke'.run = 0 /\ smoke'.cause = "none"
      /\ smoke'.latest = None /\ smoke'.latestVerified = None
  BY DEF Off
<1> QED
  BY <1>1, <1>2, <1>3, EarlyStep DEF Preflight

LEMMA BeginScriptStep == ASSUME RolloutInv, BeginScript PROVE RolloutInv'
<1>1. SmokeOnly /\ UNCHANGED spent /\ current \in [file: BOOLEAN, verify: BOOLEAN]
      /\ (current.verify => verify = app) /\ UNCHANGED <<app, verify, psql>>
  BY DEF BeginScript, RolloutInv, RolloutTypeOK, BootstrapIsCurrent, SmokeOnly, world
<1>2. CASE smoke' = [Off EXCEPT !.pc = "table", !.mode = "status"]
  <2>1. smoke' \in Script
    BY <1>2, OffIs DEF Script, Snapshot
  <2>2. /\ smoke'.pc = "table" /\ smoke'.mode = "status" /\ smoke'.run = 0 /\ smoke'.cause = "none"
        /\ smoke'.latest = None /\ smoke'.latestVerified = None
    BY <1>2 DEF Off
  <2>3. ReadyInv'
    BY <1>2 DEF Off, ReadyInv, At, Preflight, Pipeline
  <2> QED
    BY <1>1, <2>1, <2>2, <2>3, EarlyStep DEF Preflight
<1>3. CASE \E e \in Environment :
             smoke' = [Off EXCEPT !.pc = "env", !.mode = "smoke",
                                  !.env = e.complete, !.apart = e.apart,
                                  !.quiet = TRUE, !.prepared = current.verify]
  <2>1. PICK e \in Environment :
             smoke' = [Off EXCEPT !.pc = "env", !.mode = "smoke",
                                  !.env = e.complete, !.apart = e.apart,
                                  !.quiet = TRUE, !.prepared = current.verify]
    BY <1>3
  <2>2. e.complete \in BOOLEAN /\ e.apart \in BOOLEAN
    BY DEF Environment
  <2>3. smoke' \in Script
    BY <1>1, <2>1, <2>2, OffIs DEF Script, Preflight
  <2>4. /\ smoke'.pc = "env" /\ smoke'.mode = "smoke" /\ smoke'.run = 0 /\ smoke'.cause = "none"
        /\ smoke'.latest = None /\ smoke'.latestVerified = None
        /\ smoke'.quiet = TRUE /\ smoke'.prepared = current.verify
    BY <2>1 DEF Off
  <2>5. ReadyInv'
    BY <1>1, <2>4 DEF ReadyInv, At, Preflight, Pipeline
  <2> QED
    BY <1>1, <2>3, <2>4, <2>5, EarlyStep DEF Preflight
<1> QED
  BY <1>2, <1>3 DEF BeginScript

LEMMA CheckEnvironmentStep == ASSUME RolloutInv, CheckEnvironment PROVE RolloutInv'
<1>1. SmokeOnly /\ UNCHANGED spent /\ smoke.pc = "env" /\ psql \in BOOLEAN /\ UNCHANGED <<app, verify, psql>>
  BY DEF CheckEnvironment, At, RolloutInv, RolloutTypeOK, SmokeOnly, world
<1>2. CASE smoke.env
  <2>1. PICK bad \in BOOLEAN : /\ smoke' = [smoke EXCEPT !.pc = "logTable", !.bad = bad]
                              /\ bad = ~(smoke.apart /\ psql)
    BY <1>2 DEF CheckEnvironment
  <2>2. smoke \in Script /\ smoke.run = 0 /\ smoke.cause = "none" /\ smoke.mode = "smoke"
        /\ smoke.latest = None /\ smoke.latestVerified = None
    BY <1>1, EarlyIs DEF Preflight
  <2>3. smoke' \in Script
    <3>1. smoke' = [smoke EXCEPT !.pc = "logTable", !.bad = bad]
      BY <2>1
    <3> QED
      BY <2>2, <3>1 DEF Script, Preflight
  <2>4. ReadyInv'
    BY <1>1, <1>2, <2>1, <2>2 DEF RolloutInv, ReadyInv, At, Script, Preflight, Pipeline
  <2> QED
    BY <1>1, <2>1, <2>2, <2>3, <2>4, EarlyStep DEF Script, Preflight
<1>3. CASE ~smoke.env
  BY <1>1, <1>3, GoesOff DEF CheckEnvironment
<1> QED
  BY <1>2, <1>3

LEMMA PreflightStep ==
    ASSUME RolloutInv, SmokeOnly, UNCHANGED spent \/ Fault, smoke.pc \in Preflight,
           NEW pc \in {"start"} \cup Preflight, NEW bad \in BOOLEAN,
           smoke' = [smoke EXCEPT !.pc = pc, !.bad = bad],
           smoke.pc # "env", pc # "env", smoke.bad => bad,
           pc = "verifyDb" /\ ~bad => HasPhase3Columns(app.log),
           pc = "start" => ~bad /\ HasTables /\ (smoke.quiet => HasPhase3Columns(app.log))
    PROVE  RolloutInv'
<1>1. smoke \in Script /\ smoke.run = 0 /\ smoke.cause = "none" /\ smoke.mode = "smoke"
      /\ smoke.latest = None /\ smoke.latestVerified = None
  BY EarlyIs DEF Preflight
<1>2. smoke' \in Script
  BY <1>1 DEF Script, Preflight
<1>3. ReadyInv'
  BY <1>1 DEF RolloutInv, ReadyInv, At, Script, SmokeOnly, world, Preflight, Pipeline, HasTables
<1> QED
  BY <1>1, <1>2, <1>3, EarlyStep DEF Script, Preflight

LEMMA InspectTableStep == ASSUME RolloutInv, InspectTable PROVE RolloutInv'
<1>1. SmokeOnly /\ UNCHANGED spent /\ smoke.pc = "logTable" /\ smoke \in Script
  BY DEF InspectTable, At, RolloutInv, RolloutTypeOK
<1>2. CASE app.log = "absent"
  <2>1. smoke' = [smoke EXCEPT !.pc = "verifyDb", !.bad = TRUE]
    BY <1>2 DEF InspectTable
  <2> QED
    BY <1>1, <2>1, PreflightStep DEF Preflight
<1>3. CASE app.log # "absent"
  <2>1. smoke' = [smoke EXCEPT !.pc = "columns"]
    BY <1>3 DEF InspectTable
  <2>2. smoke' = [smoke EXCEPT !.pc = "columns", !.bad = smoke.bad] /\ smoke.bad \in BOOLEAN
    BY <1>1, <2>1 DEF Script
  <2> QED
    BY <1>1, <2>2, PreflightStep DEF Preflight
<1> QED
  BY <1>2, <1>3

LEMMA InspectColumnsStep == ASSUME RolloutInv, InspectColumns PROVE RolloutInv'
<1>1. SmokeOnly /\ UNCHANGED spent /\ smoke.pc = "columns" /\ smoke \in Script
  BY DEF InspectColumns, At, RolloutInv, RolloutTypeOK
<1> DEFINE bad == smoke.bad \/ ~HasPhase3Columns(app.log)
<1>2. bad \in BOOLEAN /\ (smoke.bad => bad) /\ (~bad => HasPhase3Columns(app.log))
  BY <1>1 DEF Script
<1>3. smoke' = [smoke EXCEPT !.pc = "verifyDb", !.bad = bad]
  BY DEF InspectColumns
<1> HIDE DEF bad
<1> QED
  BY <1>1, <1>2, <1>3, PreflightStep DEF Preflight

LEMMA InspectVerifyDbStep == ASSUME RolloutInv, InspectVerifyDb PROVE RolloutInv'
<1>1. SmokeOnly /\ UNCHANGED spent /\ smoke.pc = "verifyDb" /\ smoke \in Script
  BY DEF InspectVerifyDb, At, RolloutInv, RolloutTypeOK
<1>2. CASE smoke.bad \/ ~HasTables
  BY <1>1, <1>2, GoesOff DEF InspectVerifyDb
<1>3. CASE ~(smoke.bad \/ ~HasTables)
  <2>1. smoke' = [smoke EXCEPT !.pc = "start", !.bad = smoke.bad] /\ smoke.bad \in BOOLEAN /\ ~smoke.bad
    BY <1>1, <1>3 DEF InspectVerifyDb, Script
  <2>2. smoke.quiet => HasPhase3Columns(app.log)
    BY <1>1, <1>3 DEF RolloutInv, ReadyInv, At
  <2> QED
    BY <1>1, <1>3, <2>1, <2>2, PreflightStep DEF Preflight
<1> QED
  BY <1>2, <1>3

LEMMA InspectFailsStep == ASSUME RolloutInv, InspectFails PROVE RolloutInv'
<1>1. CASE smoke.pc \in {"logTable", "columns"} /\ smoke' = [smoke EXCEPT !.pc = "verifyDb", !.bad = TRUE]
  BY <1>1, PreflightStep DEF InspectFails, Preflight
<1>2. CASE smoke' = Off
  BY <1>2, GoesOff DEF InspectFails
<1> QED
  BY <1>1, <1>2 DEF InspectFails

LEMMA ScriptEndsStep == ASSUME RolloutInv, ScriptEnds PROVE RolloutInv'
  BY GoesOff DEF ScriptEnds

-----------------------------------------------------------------------------
(* Steps of the backup *)

LEMMA BackupIs ==
    ASSUME RolloutInv, smoke.pc \in Pipeline
    PROVE  /\ smoke \in Script /\ smoke.mode = "smoke"
           /\ smoke.latest = None /\ smoke.latestVerified = None
           /\ smoke.pc \notin {"logSuccess", "logFailed"} => smoke.cause = "none"
           /\ smoke.told => smoke.run # 0
           /\ smoke.run # 0 => /\ HasPhase3Columns(app.log) /\ smoke.run # service
                               /\ logs[smoke.run].status = "running"
                               /\ smoke.run \in 1..Len(logs)
           /\ smoke.quiet => /\ smoke.env /\ smoke.apart /\ psql /\ ~smoke.bad /\ HasTables
                             /\ HasPhase3Columns(app.log)
<1>1. smoke.run \in 0..Len(logs) /\ Len(logs) \in Nat
  BY LogIs DEF RolloutInv
<1> QED
  BY <1>1 DEF RolloutInv, RolloutTypeOK, StageInv, ReadyInv, RunsApart, Pipeline

LEMMA BackupMoves ==
    ASSUME RolloutInv, SmokeOnly, UNCHANGED spent \/ Fault, smoke.pc \in Pipeline,
           NEW pc \in Pipeline, NEW cause \in {"none", "passed"} \cup Failure,
           NEW manifest \in Schema \cup {None},
           smoke' = [smoke EXCEPT !.pc = pc, !.cause = cause, !.manifest = manifest],
           pc \notin {"logSuccess", "logFailed"} => cause = "none",
           pc = "logSuccess" => cause = "passed",
           pc = "logFailed" => cause \in Failure,
           smoke.quiet =>
             /\ pc \in {"upload", "logUpload", "check", "restore"} => manifest = app
             /\ pc \in {"restore", "logSuccess"} => verify = app
             /\ pc = "logFailed" => /\ cause \in {"other", "schema", "restore"}
                                    /\ cause = "schema" => verify # app
    PROVE  RolloutInv'
<1>1. /\ smoke \in Script /\ smoke.mode = "smoke" /\ smoke.latest = None /\ smoke.latestVerified = None
      /\ smoke.told => smoke.run # 0
  BY BackupIs
<1>2. smoke' \in Script
  BY <1>1 DEF Script, Pipeline
<1>3. /\ smoke'.pc = pc /\ smoke'.cause = cause /\ smoke'.manifest = manifest
      /\ smoke'.run = smoke.run /\ smoke'.mode = "smoke"
      /\ smoke'.latest = None /\ smoke'.latestVerified = None
      /\ smoke'.quiet = smoke.quiet /\ smoke'.prepared = smoke.prepared /\ smoke'.told = smoke.told
      /\ smoke'.alone = smoke.alone /\ smoke'.env = smoke.env /\ smoke'.apart = smoke.apart
      /\ smoke'.bad = smoke.bad
  BY <1>1 DEF Script
<1>4. StageInv'
  BY <1>3 DEF StageInv, At, Preflight, Pipeline, Snapshot
<1>5. ReadyInv'
  BY <1>1, <1>3 DEF RolloutInv, ReadyInv, At, SmokeOnly, world, Pipeline, HasTables
<1>6. RunsApart'
  BY <1>1, <1>3 DEF RolloutInv, RunsApart, SmokeOnly, world, Pipeline, Snapshot
<1>7. SnapshotInv'
  BY <1>3 DEF SnapshotInv, At, Pipeline, Snapshot, UiState
<1> QED
  BY <1>2, <1>3, <1>4, <1>5, <1>6, <1>7, SmokeStep

(* Whatever fails on the way is left for the log. *)
LEMMA ThrowsStep ==
    ASSUME RolloutInv, SmokeOnly, UNCHANGED spent \/ Fault, smoke.pc \in Pipeline,
           NEW cause \in Failure, Throws(cause),
           smoke.quiet => /\ cause \in {"other", "schema", "restore"}
                          /\ cause = "schema" => verify # app
    PROVE  RolloutInv'
<1>1. smoke \in Script /\ smoke.manifest \in Schema \cup {None}
  BY BackupIs DEF Script
<1>2. smoke' = [smoke EXCEPT !.pc = "logFailed", !.cause = cause]
  BY DEF Throws
<1>3. smoke' = [smoke EXCEPT !.pc = "logFailed", !.cause = cause, !.manifest = smoke.manifest]
  BY <1>1, <1>2 DEF Script
<1>4. cause \in {"none", "passed"} \cup Failure /\ "logFailed" \in Pipeline
  BY DEF Pipeline
<1> QED
  BY <1>1, <1>3, <1>4, BackupMoves

LEMMA DumpStep == ASSUME RolloutInv, Dump PROVE RolloutInv'
<1>1. /\ SmokeOnly /\ smoke.pc = "dump" /\ smoke.pc \in Pipeline /\ app \in Schema
      /\ smoke \in Script /\ smoke.cause = "none"
      /\ smoke.quiet => smoke.env
  BY BackupIs DEF Dump, At, Pipeline, RolloutInv, RolloutTypeOK
<1>2. CASE UNCHANGED spent /\ smoke.env /\ smoke' = [smoke EXCEPT !.pc = "upload", !.manifest = app]
  <2>1. smoke' = [smoke EXCEPT !.pc = "upload", !.cause = "none", !.manifest = app]
    BY <1>1, <1>2 DEF Script
  <2> QED
    BY <1>1, <1>2, <2>1, BackupMoves DEF Pipeline
<1>3. CASE UNCHANGED spent /\ ~smoke.env /\ Throws("env")
  BY <1>1, <1>3, ThrowsStep DEF Failure
<1>4. CASE Fault /\ Throws("other")
  BY <1>1, <1>4, ThrowsStep DEF Failure
<1> QED
  BY <1>2, <1>3, <1>4 DEF Dump

LEMMA UploadStep == ASSUME RolloutInv, Upload PROVE RolloutInv'
<1>1. /\ SmokeOnly /\ smoke.pc = "upload" /\ smoke.pc \in Pipeline
      /\ smoke \in Script /\ smoke.cause = "none" /\ smoke.manifest \in Schema \cup {None}
      /\ smoke.quiet => smoke.manifest = app
  BY BackupIs DEF Upload, At, Pipeline, Script, RolloutInv, ReadyInv
<1>2. CASE Goto("logUpload") /\ UNCHANGED spent
  <2>1. smoke' = [smoke EXCEPT !.pc = "logUpload", !.cause = "none", !.manifest = smoke.manifest]
    BY <1>1, <1>2 DEF Goto, Script
  <2> QED
    BY <1>1, <1>2, <2>1, BackupMoves DEF Pipeline
<1>3. CASE Fault /\ Throws("other")
  BY <1>1, <1>3, ThrowsStep DEF Failure
<1> QED
  BY <1>2, <1>3 DEF Upload

LEMMA CheckPreparedSchemaStep == ASSUME RolloutInv, CheckPreparedSchema PROVE RolloutInv'
<1>1. /\ SmokeOnly /\ UNCHANGED spent /\ smoke.pc = "check" /\ smoke.pc \in Pipeline
      /\ smoke \in Script /\ smoke.cause = "none" /\ smoke.manifest \in Schema \cup {None}
      /\ smoke.quiet => smoke.apart /\ verify # None /\ smoke.manifest = app
      /\ smoke.prepared => verify = app
  BY BackupIs DEF CheckPreparedSchema, At, Pipeline, Script, RolloutInv, ReadyInv, HasTables
<1>2. CASE ~smoke.apart
  BY <1>1, <1>2, ThrowsStep DEF CheckPreparedSchema, Failure
<1>3. CASE smoke.apart /\ verify = None
  BY <1>1, <1>3, ThrowsStep DEF CheckPreparedSchema, Failure
<1>4. CASE smoke.apart /\ verify # None /\ verify # smoke.manifest
  BY <1>1, <1>4, ThrowsStep DEF CheckPreparedSchema, Failure
<1>5. CASE smoke.apart /\ verify # None /\ verify = smoke.manifest
  <2>1. Goto("restore")
    BY <1>5 DEF CheckPreparedSchema
  <2>2. smoke' = [smoke EXCEPT !.pc = "restore", !.cause = "none", !.manifest = smoke.manifest]
    BY <1>1, <2>1 DEF Goto, Script
  <2> QED
    BY <1>1, <1>5, <2>2, BackupMoves DEF Pipeline
<1> QED
  BY <1>2, <1>3, <1>4, <1>5

LEMMA RestoreStep == ASSUME RolloutInv, Restore PROVE RolloutInv'
<1>1. /\ SmokeOnly /\ smoke.pc = "restore" /\ smoke.pc \in Pipeline
      /\ smoke \in Script /\ smoke.manifest \in Schema \cup {None}
      /\ smoke.quiet => psql /\ smoke.manifest = app /\ verify = app
  BY BackupIs DEF Restore, At, Pipeline, Script, RolloutInv, ReadyInv
<1>2. CASE UNCHANGED spent /\ smoke' = [smoke EXCEPT !.pc = "logSuccess", !.cause = "passed"]
  <2>1. smoke' = [smoke EXCEPT !.pc = "logSuccess", !.cause = "passed", !.manifest = smoke.manifest]
    BY <1>1, <1>2 DEF Script
  <2> QED
    BY <1>1, <1>2, <2>1, BackupMoves DEF Pipeline
<1>3. CASE ~psql /\ Throws("psql") /\ UNCHANGED spent
  BY <1>1, <1>3, ThrowsStep DEF Failure
<1>4. CASE verify # smoke.manifest /\ Throws("schema") /\ UNCHANGED spent
  BY <1>1, <1>4, ThrowsStep DEF Failure
<1>5. CASE Fault /\ Throws("restore")
  BY <1>1, <1>5, ThrowsStep DEF Failure
<1> QED
  BY <1>2, <1>3, <1>4, <1>5 DEF Restore

-----------------------------------------------------------------------------
(* Steps that write the log *)

LEMMA LogStep ==
    ASSUME RolloutInv, UNCHANGED <<world, export>>, UNCHANGED spent \/ Fault,
           logs' \in Seq(BackupStatusEntry), Len(logs') <= MaxRuns, service' \in 0..Len(logs'),
           smoke' \in Script, smoke'.run <= Len(logs'),
           StageInv', ReadyInv', RunsApart', SnapshotInv'
    PROVE  RolloutInv'
<1>1. RolloutTypeOK /\ UNCHANGED <<app, verify, file, psql, current, export>>
  BY DEF RolloutInv, world
<1>2. spent' \in [changes: 0..MaxOperations, failures: 0..MaxFaults]
  BY <1>1, SpentStep, Zenon
<1>3. RolloutTypeOK'
  BY <1>1, <1>2 DEF RolloutTypeOK
<1>4. BootstrapIsCurrent'
  BY <1>1 DEF RolloutInv, BootstrapIsCurrent
<1> QED
  BY <1>3, <1>4 DEF RolloutInv

LEMMA Appends ==
    ASSUME RolloutTypeOK, NEW row \in BackupStatusEntry, Len(logs) < MaxRuns,
           logs' = Append(logs, row)
    PROVE  /\ logs' \in Seq(BackupStatusEntry)
           /\ Len(logs') = Len(logs) + 1 /\ Len(logs') \in Nat /\ Len(logs') <= MaxRuns
           /\ \A i \in 1..Len(logs) : logs'[i] = logs[i]
           /\ logs'[Len(logs) + 1] = row
           /\ RestoreVerified \subseteq RestoreVerified'
<1>1. /\ logs \in Seq(BackupStatusEntry) /\ Len(logs) \in Nat /\ DOMAIN logs = 1..Len(logs)
  BY LogIs DEF RolloutTypeOK
<1>2. /\ logs' \in Seq(BackupStatusEntry) /\ Len(logs') = Len(logs) + 1
      /\ \A i \in 1..Len(logs) : logs'[i] = logs[i]
      /\ logs'[Len(logs) + 1] = row
  BY <1>1, AppendProperties
<1>3. DOMAIN logs' = 1..Len(logs')
  BY <1>2, LenProperties
<1>4. RestoreVerified \subseteq RestoreVerified'
  BY <1>1, <1>2, <1>3 DEF RestoreVerified
<1> QED
  BY <1>1, <1>2, <1>4

(* Only open rows are written, so what was verified stays verified. *)
LEMMA Updates ==
    ASSUME RolloutTypeOK, NEW i \in 1..Len(logs), logs[i].status = "running",
           NEW row \in BackupStatusEntry, logs' = [logs EXCEPT ![i] = row]
    PROVE  /\ logs' \in Seq(BackupStatusEntry) /\ Len(logs') = Len(logs) /\ DOMAIN logs' = DOMAIN logs
           /\ \A j \in 1..Len(logs) : logs'[j] = IF j = i THEN row ELSE logs[j]
           /\ RestoreVerified \subseteq RestoreVerified'
<1>1. /\ logs \in Seq(BackupStatusEntry) /\ Len(logs) \in Nat /\ DOMAIN logs = 1..Len(logs)
  BY LogIs DEF RolloutTypeOK
<1>2. /\ logs' \in Seq(BackupStatusEntry) /\ Len(logs') = Len(logs)
      /\ \A j \in 1..Len(logs) : logs'[j] = IF j = i THEN row ELSE logs[j]
  BY <1>1, ExceptSeq
<1>3. DOMAIN logs' = 1..Len(logs')
  BY <1>2, LenProperties
<1>4. RestoreVerified \subseteq RestoreVerified'
  BY <1>1, <1>2, <1>3 DEF RestoreVerified
<1> QED
  BY <1>1, <1>2, <1>3, <1>4

LEMMA LogStartStep == ASSUME RolloutInv, LogStart PROVE RolloutInv'
<1>1. /\ smoke.pc = "start" /\ Len(logs) < MaxRuns /\ UNCHANGED <<world, export>> /\ service' = service
      /\ RolloutTypeOK /\ UNCHANGED <<app, verify, psql>>
  BY DEF LogStart, At, SmokeAndLog, RolloutInv, world
<1>2. /\ smoke \in Script /\ smoke.run = 0 /\ smoke.cause = "none" /\ smoke.mode = "smoke"
      /\ smoke.latest = None /\ smoke.latestVerified = None
  BY <1>1, EarlyIs
<1>3. /\ Len(logs) \in Nat /\ service \in 0..Len(logs) /\ NewRow \in BackupStatusEntry
      /\ NewRow.status = "running" /\ logs \in Seq(BackupStatusEntry)
  BY <1>1, LogIs DEF NewRow, BackupStatusEntry, RolloutTypeOK
<1>4. ASSUME NEW run \in 0..MaxRuns, NEW told \in BOOLEAN,
             smoke' = [smoke EXCEPT !.pc = "dump", !.run = run, !.alone = TRUE, !.told = told],
             logs' \in Seq(BackupStatusEntry), Len(logs') \in Nat, Len(logs') <= MaxRuns,
             Len(logs) <= Len(logs'), \A i \in 1..Len(logs) : logs'[i] = logs[i],
             run = 0 => told = FALSE,
             run # 0 => /\ HasPhase3Columns(app.log) /\ run = Len(logs') /\ run > Len(logs)
                        /\ logs'[run].status = "running",
             UNCHANGED spent \/ Fault
      PROVE  RolloutInv'
  <2>0. smoke' = [smoke EXCEPT !.pc = "dump", !.run = run, !.alone = TRUE, !.told = told]
    BY <1>4
  <2>1. smoke' \in Script
    BY <1>2, <2>0 DEF Script, Pipeline
  <2>2. /\ smoke'.pc = "dump" /\ smoke'.cause = "none" /\ smoke'.run = run /\ smoke'.mode = "smoke"
        /\ smoke'.latest = None /\ smoke'.latestVerified = None
        /\ smoke'.quiet = smoke.quiet /\ smoke'.prepared = smoke.prepared /\ smoke'.told = told
        /\ smoke'.env = smoke.env /\ smoke'.apart = smoke.apart
        /\ smoke'.bad = smoke.bad
    BY <1>2, <2>0 DEF Script
  <2>7. service' \in 0..Len(logs') /\ smoke'.run <= Len(logs')
    BY <1>1, <1>3, <1>4, <2>2
  <2>3. StageInv'
    BY <2>2 DEF StageInv, At, Preflight, Pipeline, Snapshot
  <2>4. ReadyInv'
    BY <1>1, <2>2 DEF RolloutInv, ReadyInv, At, Pipeline, HasTables
  <2>5. RunsApart'
    BY <1>1, <1>2, <1>3, <1>4, <2>2 DEF RolloutInv, RunsApart, Pipeline, Snapshot
  <2>6. SnapshotInv'
    BY <2>2 DEF SnapshotInv, At, Pipeline, Snapshot, UiState
  <2> QED
    BY <1>1, <1>4, <2>1, <2>3, <2>4, <2>5, <2>6, <2>7, LogStep
<1>5. CASE /\ HasPhase3Columns(app.log) /\ UNCHANGED spent /\ logs' = Append(logs, NewRow)
           /\ smoke' = [smoke EXCEPT !.pc = "dump", !.run = Len(logs) + 1, !.alone = TRUE]
  <2>1. smoke' = [smoke EXCEPT !.pc = "dump", !.run = Len(logs) + 1, !.alone = TRUE, !.told = smoke.told]
        /\ smoke.told \in BOOLEAN
    BY <1>2, <1>5 DEF Script
  <2>2. Len(logs) + 1 \in 0..MaxRuns /\ Len(logs) + 1 # 0 /\ Len(logs) + 1 > Len(logs)
    BY <1>1, <1>3
  <2>3. /\ logs' \in Seq(BackupStatusEntry) /\ Len(logs') \in Nat /\ Len(logs') <= MaxRuns
        /\ Len(logs) <= Len(logs') /\ \A i \in 1..Len(logs) : logs'[i] = logs[i]
        /\ Len(logs) + 1 = Len(logs') /\ logs'[Len(logs) + 1].status = "running"
    BY <1>1, <1>3, <1>5, Appends
  <2> QED
    BY <1>4, <1>5, <2>1, <2>2, <2>3
<1>6. CASE /\ UNCHANGED spent \/ Fault
           /\ logs' \in {logs, Append(logs, NewRow)}
           /\ smoke' = [smoke EXCEPT !.pc = "dump", !.alone = TRUE, !.told = FALSE]
  <2>1. smoke' = [smoke EXCEPT !.pc = "dump", !.run = 0, !.alone = TRUE, !.told = FALSE]
    BY <1>2, <1>6 DEF Script
  <2>2. /\ logs' \in Seq(BackupStatusEntry) /\ Len(logs') \in Nat /\ Len(logs') <= MaxRuns
        /\ Len(logs) <= Len(logs') /\ \A i \in 1..Len(logs) : logs'[i] = logs[i]
    BY <1>1, <1>3, <1>6, Appends
  <2>3. PICK told \in BOOLEAN :
          told = FALSE /\ smoke' = [smoke EXCEPT !.pc = "dump", !.run = 0, !.alone = TRUE, !.told = told]
    BY <2>1
  <2>4. 0 \in 0..MaxRuns
    OBVIOUS
  <2> QED
    BY <1>4, <1>6, <2>2, <2>3, <2>4
<1> QED
  BY <1>5, <1>6 DEF LogStart

(* What the backup writes of its own row: that it goes on, or how it ended. *)

(* What the backup writes of its own row: that it goes on, or how it ended. *)
LEMMA WriteRowStep ==
    ASSUME RolloutInv, smoke.pc \in Pipeline, NEW row \in BackupStatusEntry, NEW next \in Script,
           WriteRow(row, next),
           next.run = smoke.run, next.mode = smoke.mode, next.cause = smoke.cause,
           next.told = smoke.told, next.alone = smoke.alone,
           next.latest = None, next.latestVerified = None,
           \/ /\ next.pc = "check" /\ row.status = "running" /\ smoke.cause = "none"
              /\ next.quiet = smoke.quiet /\ next.prepared = smoke.prepared
              /\ next.env = smoke.env /\ next.apart = smoke.apart /\ next.bad = smoke.bad
              /\ next.quiet => next.manifest = app
           \/ /\ next.pc = "table" /\ next.quiet = FALSE /\ next.prepared = FALSE /\ smoke.cause # "none"
              /\ row.status = "success" => smoke.cause = "passed"
              /\ smoke.cause = "passed" => row.status = "success" /\ row.verification = "passed"
    PROVE  RolloutInv'
<1>1. /\ smoke.mode = "smoke"
      /\ smoke.told => smoke.run # 0
      /\ smoke.run # 0 => /\ HasPhase3Columns(app.log) /\ smoke.run # service
                          /\ logs[smoke.run].status = "running" /\ smoke.run \in 1..Len(logs)
      /\ smoke.quiet => /\ smoke.env /\ smoke.apart /\ psql /\ ~smoke.bad /\ HasTables
                        /\ HasPhase3Columns(app.log)
  BY BackupIs
<1>2. /\ UNCHANGED <<world, export>> /\ service' = service /\ UNCHANGED <<app, verify, psql>>
      /\ UNCHANGED spent \/ Fault
      /\ RolloutTypeOK
  BY DEF WriteRow, SmokeAndLog, world, RolloutInv
<1>3. /\ Len(logs) \in Nat /\ service \in 0..Len(logs) /\ smoke.run \in 0..Len(logs)
      /\ logs \in Seq(BackupStatusEntry) /\ Len(logs) <= MaxRuns /\ DOMAIN logs = 1..Len(logs)
  BY <1>2, LogIs DEF RolloutTypeOK
<1>4. /\ smoke' \in Script /\ smoke'.pc = next.pc /\ smoke'.run = smoke.run /\ smoke'.mode = "smoke"
      /\ smoke'.cause = smoke.cause /\ smoke'.alone = smoke.alone /\ (smoke'.told => smoke.told)
      /\ smoke'.latest = None /\ smoke'.latestVerified = None
      /\ smoke'.quiet = next.quiet /\ smoke'.prepared = next.prepared
      /\ smoke'.env = next.env /\ smoke'.apart = next.apart /\ smoke'.bad = next.bad
      /\ smoke'.manifest = next.manifest
  <2>1. CASE smoke' = next
    BY <1>1, <2>1
  <2>2. CASE smoke' = [next EXCEPT !.told = FALSE]
    BY <1>1, <2>2 DEF Script
  <2> QED
    BY <2>1, <2>2 DEF WriteRow
<1>5. \/ /\ smoke.run # 0 /\ logs' = [logs EXCEPT ![smoke.run] = row]
      \/ logs' = logs /\ ~smoke'.told
  BY <1>1, <1>4 DEF WriteRow, Script
<1>6. /\ logs' \in Seq(BackupStatusEntry) /\ Len(logs') = Len(logs) /\ DOMAIN logs' = DOMAIN logs
      /\ \A j \in 1..Len(logs) : logs'[j] = IF j = smoke.run /\ logs' # logs THEN row ELSE logs[j]
      /\ logs' # logs \/ logs[smoke.run] = row \/ ~smoke'.told
  BY <1>1, <1>2, <1>3, <1>5, Updates
<1>7. StageInv'
  BY <1>1, <1>4 DEF StageInv, At, Preflight, Pipeline, Snapshot, RolloutInv
<1>8. ReadyInv'
  BY <1>1, <1>2, <1>4 DEF RolloutInv, ReadyInv, At, Pipeline, HasTables
<1>9. RunsApart'
  BY <1>1, <1>2, <1>3, <1>4, <1>6 DEF RolloutInv, RunsApart, Pipeline, Snapshot, RestoreVerified
<1>10. SnapshotInv'
  BY <1>4 DEF SnapshotInv, At, Snapshot, UiState
<1> QED
  BY <1>2, <1>3, <1>4, <1>6, <1>7, <1>8, <1>9, <1>10, LogStep

LEMMA LogUploadStep == ASSUME RolloutInv, LogUpload PROVE RolloutInv'
<1> DEFINE next == [smoke EXCEPT !.pc = "check"]
           row == [NewRow EXCEPT !.key = TRUE]
<1>1. /\ smoke.pc = "logUpload" /\ smoke.pc \in Pipeline /\ WriteRow(row, next)
      /\ smoke \in Script /\ smoke.cause = "none" /\ smoke.latest = None /\ smoke.latestVerified = None
      /\ smoke.quiet => smoke.manifest = app
  BY BackupIs DEF LogUpload, At, Pipeline, RolloutInv, ReadyInv
<1>2. row \in BackupStatusEntry /\ row.status = "running"
  BY DEF NewRow, BackupStatusEntry
<1>3. /\ next \in Script /\ next.pc = "check" /\ next.run = smoke.run /\ next.mode = smoke.mode
      /\ next.cause = smoke.cause /\ next.told = smoke.told /\ next.alone = smoke.alone
      /\ next.latest = None /\ next.latestVerified = None
      /\ next.quiet = smoke.quiet /\ next.prepared = smoke.prepared
      /\ next.env = smoke.env /\ next.apart = smoke.apart /\ next.bad = smoke.bad
      /\ next.manifest = smoke.manifest
  BY <1>1 DEF Script, Pipeline
<1> HIDE DEF next, row
<1> QED
  BY <1>1, <1>2, <1>3, WriteRowStep

LEMMA AfterRunIs ==
    ASSUME RolloutInv, smoke.pc \in Pipeline
    PROVE  /\ AfterRun \in Script /\ AfterRun.pc = "table" /\ AfterRun.run = smoke.run
           /\ AfterRun.mode = smoke.mode
           /\ AfterRun.cause = smoke.cause /\ AfterRun.told = smoke.told /\ AfterRun.alone = smoke.alone
           /\ AfterRun.latest = None /\ AfterRun.latestVerified = None
           /\ AfterRun.quiet = FALSE /\ AfterRun.prepared = FALSE
<1>1. smoke \in Script /\ smoke.latest = None /\ smoke.latestVerified = None
  BY BackupIs
<1>2. AfterRun = [smoke EXCEPT !.pc = "table", !.manifest = None, !.quiet = FALSE, !.prepared = FALSE]
  BY DEF AfterRun
<1> QED
  BY <1>1, <1>2 DEF Script, Snapshot

LEMMA LogSuccessStep == ASSUME RolloutInv, LogSuccess PROVE RolloutInv'
<1> DEFINE row == [status |-> "success", key |-> TRUE, verification |-> "passed"]
<1>1. /\ smoke.pc = "logSuccess" /\ smoke.pc \in Pipeline /\ WriteRow(row, AfterRun)
      /\ smoke.cause = "passed"
  BY DEF LogSuccess, At, Pipeline, RolloutInv, StageInv
<1>2. row \in BackupStatusEntry /\ row.status = "success" /\ row.verification = "passed"
  BY DEF BackupStatusEntry
<1> HIDE DEF row
<1> QED
  BY <1>1, <1>2, AfterRunIs, WriteRowStep

LEMMA LogFailedStep == ASSUME RolloutInv, LogFailed PROVE RolloutInv'
<1> DEFINE old == IF smoke.run = 0 THEN NewRow ELSE logs[smoke.run]
           verdict == IF smoke.cause \in {"tables", "schema", "psql", "restore"}
                      THEN "failed" ELSE old.verification
           row == [old EXCEPT !.status = "failed", !.verification = verdict]
<1>1. /\ smoke.pc = "logFailed" /\ smoke.pc \in Pipeline /\ smoke.cause \in Failure
  BY DEF LogFailed, At, Pipeline, RolloutInv, StageInv
<1>2. smoke.cause # "passed" /\ smoke.cause # "none"
  BY <1>1 DEF Failure
<1>3. old \in BackupStatusEntry
  BY LogIs DEF RolloutInv, NewRow, BackupStatusEntry
<1>4. verdict \in {"none", "pending", "passed", "failed"}
  BY <1>3 DEF BackupStatusEntry
<1>5. WriteRow(row, AfterRun)
  BY <1>3 DEF LogFailed, BackupStatusEntry
<1> HIDE DEF old, verdict
<1>6. row \in BackupStatusEntry /\ row.status = "failed"
  BY <1>3, <1>4 DEF BackupStatusEntry
<1> HIDE DEF row
<1> QED
  BY <1>1, <1>2, <1>5, <1>6, AfterRunIs, WriteRowStep

-----------------------------------------------------------------------------
(* Steps of the snapshot, which only reads *)

LEMMA ReadStep ==
    ASSUME RolloutInv, SmokeOnly, UNCHANGED spent, smoke.pc \in Snapshot, smoke'.pc \in Snapshot,
           smoke' \in Script,
           smoke'.mode = smoke.mode, smoke'.run = smoke.run, smoke'.cause = smoke.cause,
           smoke'.quiet = smoke.quiet, smoke'.prepared = smoke.prepared,
           smoke'.alone = smoke.alone, smoke'.told = smoke.told,
           smoke'.pc \notin {"verified", "total", "report"} => smoke'.latest = None,
           smoke'.pc \notin {"total", "report"} => smoke'.latestVerified = None,
           SnapshotInv'
    PROVE  RolloutInv'
<1>1. ~smoke.quiet /\ ~smoke.prepared
  BY DEF RolloutInv, ReadyInv, Preflight, Pipeline, Snapshot
<1>2. StageInv'
  BY DEF RolloutInv, StageInv, At, Preflight, Pipeline, Snapshot
<1>3. ReadyInv'
  BY <1>1 DEF ReadyInv
<1>4. RunsApart'
  BY DEF RolloutInv, RunsApart, SmokeOnly, world, Pipeline, Snapshot, RestoreVerified
<1> QED
  BY <1>2, <1>3, <1>4, SmokeStep

LEMMA ReadsIs ==
    ASSUME RolloutInv, smoke.pc \in Snapshot
    PROVE  /\ smoke \in Script
           /\ smoke.run # 0 => HasPhase3Columns(app.log) /\ app.log # "absent" /\ Len(logs) > 0
           /\ smoke.pc \notin {"verified", "total", "report"} => smoke.latest = None
           /\ smoke.pc \notin {"total", "report"} => smoke.latestVerified = None
           /\ smoke.alone /\ smoke.run # 0 => smoke.run = Len(logs)
           /\ smoke.told /\ smoke.cause = "passed" => smoke.run \in RestoreVerified
<1>1. Len(logs) \in Nat /\ smoke.run \in 0..Len(logs)
  BY LogIs DEF RolloutInv
<1> QED
  BY <1>1 DEF RolloutInv, RolloutTypeOK, StageInv, RunsApart, HasPhase3Columns

LEMMA SnapshotTableStep == ASSUME RolloutInv, SnapshotTable PROVE RolloutInv'
<1>1. SmokeOnly /\ UNCHANGED spent /\ smoke.pc = "table" /\ smoke.pc \in Snapshot
  BY DEF SnapshotTable, At, Snapshot
<1>2. PICK pc \in {"report", "phase3"} :
        smoke' = [smoke EXCEPT !.pc = pc] /\ (pc = "report" <=> app.log = "absent")
  BY DEF SnapshotTable, Goto
<1>3. /\ smoke' \in Script /\ smoke'.pc = pc /\ smoke'.mode = smoke.mode /\ smoke'.run = smoke.run
      /\ smoke'.cause = smoke.cause
      /\ smoke'.quiet = smoke.quiet /\ smoke'.prepared = smoke.prepared
      /\ smoke'.alone = smoke.alone /\ smoke'.told = smoke.told
      /\ smoke'.latest = None /\ smoke'.latestVerified = None
  BY <1>1, <1>2, ReadsIs DEF Script, Snapshot
<1>4. SnapshotInv'
  BY <1>1, <1>2, <1>3, ReadsIs DEF SnapshotInv, At, UiState
<1> QED
  BY <1>1, <1>2, <1>3, <1>4, ReadStep DEF Snapshot

LEMMA SnapshotColumnsStep == ASSUME RolloutInv, SnapshotColumns PROVE RolloutInv'
<1>1. SmokeOnly /\ UNCHANGED spent /\ smoke.pc = "phase3" /\ smoke.pc \in Snapshot
  BY DEF SnapshotColumns, At, Snapshot
<1>2. HasPhase3Columns(app.log) \in BOOLEAN
  BY DEF HasPhase3Columns
<1>3. smoke' = [smoke EXCEPT !.pc = "latest", !.phase3 = HasPhase3Columns(app.log)]
  BY DEF SnapshotColumns
<1>4. /\ smoke' \in Script /\ smoke'.pc = "latest" /\ smoke'.mode = smoke.mode /\ smoke'.run = smoke.run
      /\ smoke'.cause = smoke.cause
      /\ smoke'.quiet = smoke.quiet /\ smoke'.prepared = smoke.prepared
      /\ smoke'.alone = smoke.alone /\ smoke'.told = smoke.told
      /\ smoke'.latest = None /\ smoke'.latestVerified = None
      /\ smoke'.phase3 = HasPhase3Columns(app.log)
  BY <1>1, <1>2, <1>3, ReadsIs DEF Script, Snapshot
<1>5. SnapshotInv'
  BY <1>1, <1>4, ReadsIs DEF SnapshotInv, At, UiState
<1> QED
  BY <1>1, <1>4, <1>5, ReadStep DEF Snapshot

(* The newest row; without the columns it is never green. *)
LEMMA SnapshotLatestStep == ASSUME RolloutInv, SnapshotLatest PROVE RolloutInv'
<1> DEFINE newest == Newest(DOMAIN logs)
<1>1. /\ SmokeOnly /\ UNCHANGED spent /\ smoke.pc = "latest" /\ smoke.pc \in Snapshot
      /\ logs' = logs /\ RolloutTypeOK
      /\ smoke.run # 0 => smoke.phase3
  BY DEF SnapshotLatest, At, Snapshot, SmokeOnly, RolloutInv, SnapshotInv
<1>2. /\ Len(logs) \in Nat /\ DOMAIN logs = 1..Len(logs)
      /\ RestoreVerified \subseteq 1..Len(logs)
      /\ \A i \in 1..Len(logs) :
                i \in RestoreVerified <=>
                  logs[i].status = "success" /\ logs[i].verification = "passed"
  BY <1>1, LogIs
<1>3. /\ newest = None => Len(logs) = 0
      /\ newest # None => /\ newest \in LoggedEntry /\ newest.run \in 1..Len(logs)
                          /\ newest.row = logs[newest.run] /\ newest.run = Len(logs)
  <2>1. DOMAIN logs \in SUBSET (DOMAIN logs) /\ (DOMAIN logs = {} <=> Len(logs) = 0)
    BY <1>2
  <2>2. CASE DOMAIN logs = {}
    BY <1>1, <2>1, <2>2, NewestIs
  <2>3. CASE DOMAIN logs # {}
    <3>1. /\ newest \in LoggedEntry /\ newest # None /\ newest.run \in DOMAIN logs
          /\ \A r \in DOMAIN logs : r <= newest.run
          /\ newest.row = logs[newest.run]
      BY <1>1, <2>1, <2>3, NewestIs
    <3>2. Len(logs) \in DOMAIN logs
      BY <1>2, <2>1, <2>3
    <3> QED
      BY <1>2, <3>1, <3>2
  <2> QED
    BY <2>2, <2>3
<1>4. PICK pc \in {"verified", "report"}, latest \in LoggedEntry \cup {None} :
        /\ smoke' = [smoke EXCEPT !.pc = pc, !.latest = latest]
        /\ pc = "verified" <=> smoke.phase3
        /\ latest = None <=> newest = None
        /\ latest # None => /\ latest.run = newest.run
                            /\ smoke.phase3 => latest.row = newest.row
                            /\ ~smoke.phase3 => latest.row.verification = "none"
  <2>1. CASE smoke.phase3 \/ newest = None
    <3>1. smoke' = [smoke EXCEPT !.pc = IF smoke.phase3 THEN "verified" ELSE "report", !.latest = newest]
      BY <2>1 DEF SnapshotLatest
    <3> QED
      BY <1>3, <2>1, <3>1
  <2>2. CASE ~(smoke.phase3 \/ newest = None)
    <3> DEFINE latest == [newest EXCEPT !.row.verification = "none"]
    <3>1. smoke' = [smoke EXCEPT !.pc = "report", !.latest = latest]
      BY <2>2 DEF SnapshotLatest
    <3>2. newest \in LoggedEntry
      BY <1>3, <2>2
    <3>3. /\ latest \in LoggedEntry /\ latest.run = newest.run /\ latest.row.verification = "none"
      BY <3>2 DEF LoggedEntry, BackupStatusEntry
    <3>4. latest # None
      BY <3>3, NoneAssumption
    <3> HIDE DEF latest
    <3> QED
      BY <2>2, <3>1, <3>3, <3>4
  <2> QED
    BY <2>1, <2>2
<1> HIDE DEF newest
<1>5. /\ smoke' \in Script /\ smoke'.pc = pc /\ smoke'.mode = smoke.mode /\ smoke'.run = smoke.run
      /\ smoke'.cause = smoke.cause
      /\ smoke'.quiet = smoke.quiet /\ smoke'.prepared = smoke.prepared
      /\ smoke'.alone = smoke.alone /\ smoke'.told = smoke.told
      /\ smoke'.latest = latest /\ smoke'.latestVerified = None /\ smoke'.phase3 = smoke.phase3
  <2>1. smoke' = [smoke EXCEPT !.pc = pc, !.latest = latest]
    BY <1>4
  <2> QED
    BY <1>1, <2>1, ReadsIs DEF Script, Snapshot
<1>6. RestoreVerified' = RestoreVerified
  BY <1>1 DEF RestoreVerified
<1>7. latest # None =>
        (UiState(latest) = "verified" <=> latest.row.status = "success" /\ latest.row.verification = "passed")
  BY LoggedEntryIs
<1>8. UiState(smoke'.latest) = "verified" =>
        smoke.phase3 /\ latest # None /\ latest.run \in RestoreVerified
  BY <1>2, <1>3, <1>4, <1>5, <1>7 DEF UiState
<1>9. smoke.run # 0 => latest # None /\ smoke.phase3 /\ Len(logs) > 0
  BY <1>1, <1>3, <1>4, ReadsIs
<1>10. smoke.run # 0 /\ smoke.alone =>
         /\ latest.run = smoke.run
         /\ smoke.told /\ smoke.cause = "passed" => UiState(smoke'.latest) = "verified"
  BY <1>1, <1>2, <1>3, <1>4, <1>5, <1>7, <1>9, ReadsIs
<1>11. SnapshotInv'
  BY <1>4, <1>5, <1>6, <1>8, <1>9, <1>10 DEF SnapshotInv, At, Snapshot, UiState
<1> QED
  BY <1>1, <1>5, <1>11, ReadStep DEF Snapshot

(* What a green latest row found is still there, or something newer. *)
LEMMA SnapshotVerifiedStep == ASSUME RolloutInv, SnapshotVerified PROVE RolloutInv'
<1> DEFINE newest == Newest(RestoreVerified)
<1>1. /\ SmokeOnly /\ UNCHANGED spent /\ smoke.pc = "verified" /\ smoke.pc \in Snapshot
      /\ logs' = logs /\ RolloutTypeOK
      /\ smoke' = [smoke EXCEPT !.pc = "total", !.latestVerified = newest]
  BY DEF SnapshotVerified, At, Snapshot, SmokeOnly, RolloutInv
<1>2. /\ RestoreVerified = {} => newest = None
      /\ RestoreVerified # {} => /\ newest \in LoggedEntry /\ newest # None /\ newest.run \in RestoreVerified
                                 /\ \A r \in RestoreVerified : r <= newest.run
  BY <1>1, LogIs, NewestIs
<1>3. newest \in LoggedEntry \cup {None}
  BY <1>2
<1> HIDE DEF newest
<1>4. /\ smoke' \in Script /\ smoke'.pc = "total" /\ smoke'.mode = smoke.mode /\ smoke'.run = smoke.run
      /\ smoke'.cause = smoke.cause
      /\ smoke'.quiet = smoke.quiet /\ smoke'.prepared = smoke.prepared
      /\ smoke'.alone = smoke.alone /\ smoke'.told = smoke.told
      /\ smoke'.latest = smoke.latest /\ smoke'.latestVerified = newest /\ smoke'.phase3 = smoke.phase3
  BY <1>1, <1>3, ReadsIs DEF Script, Snapshot
<1>5. RestoreVerified' = RestoreVerified
  BY <1>1 DEF RestoreVerified
<1>6. UiState(smoke.latest) = "verified" => smoke.latest # None /\ smoke.latest.run \in RestoreVerified
  BY <1>1 DEF RolloutInv, SnapshotInv, UiState
<1>7. UiState(smoke.latest) = "verified" =>
        newest # None /\ smoke.latest.run <= newest.run
  BY <1>2, <1>6
<1>8. /\ newest # None => newest.run \in RestoreVerified
      /\ newest # None /\ smoke.latest # None => newest.run \in Nat /\ smoke.latest.run \in Nat
  <2>1. RestoreVerified \subseteq Nat
    BY <1>1, LogIs
  <2>2. smoke.latest \in LoggedEntry \cup {None}
    BY <1>1, ReadsIs DEF Script
  <2> QED
    BY <1>2, <2>1, <2>2, LoggedEntryIs
<1>9. SnapshotInv'
  BY <1>1, <1>4, <1>5, <1>6, <1>7, <1>8 DEF RolloutInv, SnapshotInv, At, Snapshot, UiState
<1> QED
  BY <1>1, <1>3, <1>4, <1>9, ReadStep DEF Snapshot

LEMMA SnapshotTotalStep == ASSUME RolloutInv, SnapshotTotal PROVE RolloutInv'
<1> DEFINE total == Cardinality(RestoreVerified)
<1>1. /\ SmokeOnly /\ UNCHANGED spent /\ smoke.pc = "total" /\ smoke.pc \in Snapshot
      /\ logs' = logs /\ RolloutTypeOK
      /\ smoke' = [smoke EXCEPT !.pc = "report", !.total = total]
  BY DEF SnapshotTotal, At, Snapshot, SmokeOnly, RolloutInv
<1>2. total \in 0..MaxRuns /\ (RestoreVerified # {} => total > 0)
  BY <1>1, VerifiedCount
<1> HIDE DEF total
<1>3. /\ smoke' \in Script /\ smoke'.pc = "report" /\ smoke'.mode = smoke.mode /\ smoke'.run = smoke.run
      /\ smoke'.cause = smoke.cause
      /\ smoke'.quiet = smoke.quiet /\ smoke'.prepared = smoke.prepared
      /\ smoke'.alone = smoke.alone /\ smoke'.told = smoke.told /\ smoke'.total = total
      /\ smoke'.latest = smoke.latest /\ smoke'.latestVerified = smoke.latestVerified
      /\ smoke'.phase3 = smoke.phase3
  BY <1>1, <1>2, ReadsIs DEF Script, Snapshot
<1>4. RestoreVerified' = RestoreVerified
  BY <1>1 DEF RestoreVerified
<1>5. SnapshotInv'
  BY <1>1, <1>2, <1>3, <1>4 DEF RolloutInv, SnapshotInv, At, Snapshot, UiState
<1> QED
  BY <1>1, <1>3, <1>5, ReadStep DEF Snapshot

-----------------------------------------------------------------------------
(* Steps of the operator. A script that looked at something no longer counts *)
(* on it, and the columns of the log, once there, stay.                      *)
LEMMA OperatorStep ==
    ASSUME RolloutInv, Disturbs, UNCHANGED <<logs, service>>, UNCHANGED spent \/ OperatorChanges,
           app' \in Schema, verify' \in Schema \cup {None, Part, Foreign},
           file' \in Schema \cup {Part, Foreign},
           psql' \in BOOLEAN, current' \in [file: BOOLEAN, verify: BOOLEAN],
           export' \in [pc: {"idle", "dump"}, content: Schema \cup {None, Foreign}, since: BOOLEAN],
           HasPhase3Columns(app.log) => HasPhase3Columns(app'.log),
           BootstrapIsCurrent'
    PROVE  RolloutInv'
<1>1. RolloutTypeOK /\ smoke \in Script /\ smoke' = [smoke EXCEPT !.quiet = FALSE, !.prepared = FALSE]
  BY DEF RolloutInv, RolloutTypeOK, Disturbs
<1>2. /\ smoke' \in Script /\ smoke'.pc = smoke.pc /\ smoke'.mode = smoke.mode
      /\ smoke'.run = smoke.run /\ smoke'.cause = smoke.cause
      /\ smoke'.alone = smoke.alone /\ smoke'.told = smoke.told /\ smoke'.total = smoke.total
      /\ smoke'.latest = smoke.latest /\ smoke'.latestVerified = smoke.latestVerified
      /\ smoke'.phase3 = smoke.phase3 /\ smoke'.quiet = FALSE /\ smoke'.prepared = FALSE
  BY <1>1 DEF Script
<1>3. spent' \in [changes: 0..MaxOperations, failures: 0..MaxFaults]
  BY <1>1, SpentStep, Zenon
<1>4. RolloutTypeOK'
  BY <1>1, <1>2, <1>3 DEF RolloutTypeOK
<1>5. RestoreVerified' = RestoreVerified
  BY DEF RestoreVerified
<1>6. StageInv'
  BY <1>2 DEF RolloutInv, StageInv, At
<1>7. ReadyInv'
  BY <1>2 DEF ReadyInv
<1>8. RunsApart'
  BY <1>2, <1>5 DEF RolloutInv, RunsApart
<1>9. SnapshotInv'
  BY <1>2, <1>5 DEF RolloutInv, SnapshotInv, At, UiState
<1> QED
  BY <1>4, <1>6, <1>7, <1>8, <1>9 DEF RolloutInv

LEMMA WorldIs ==
    ASSUME RolloutInv
    PROVE  /\ app \in Schema /\ verify \in Schema \cup {None, Part, Foreign}
           /\ file \in Schema \cup {Part, Foreign} /\ file # None
           /\ psql \in BOOLEAN /\ current \in [file: BOOLEAN, verify: BOOLEAN]
           /\ export \in [pc: {"idle", "dump"}, content: Schema \cup {None, Foreign}, since: BOOLEAN]
           /\ export.since => export.content = app
           /\ current.file => file = app
           /\ current.verify => verify = app
  BY DEF RolloutInv, RolloutTypeOK, BootstrapIsCurrent

(* A migration: what was exported and prepared before is no longer current. *)
LEMMA MigrationStep ==
    ASSUME RolloutInv, Disturbs, UNCHANGED <<logs, service>>, UNCHANGED spent \/ OperatorChanges,
           app' \in Schema, HasPhase3Columns(app.log) => HasPhase3Columns(app'.log),
           current' = [file |-> FALSE, verify |-> FALSE],
           export' = [export EXCEPT !.since = FALSE],
           UNCHANGED <<verify, file, psql>>
    PROVE  RolloutInv'
<1>1. /\ export' \in [pc: {"idle", "dump"}, content: Schema \cup {None, Foreign}, since: BOOLEAN]
      /\ export'.since = FALSE
  BY WorldIs
<1>2. current' \in [file: BOOLEAN, verify: BOOLEAN] /\ BootstrapIsCurrent'
  BY <1>1, WorldIs DEF BootstrapIsCurrent
<1> QED
  BY <1>1, <1>2, WorldIs, OperatorStep

LEMMA MigrateAppStep == ASSUME RolloutInv, MigrateApp PROVE RolloutInv'
<1>1. app' = [app EXCEPT !.version = @ + 1] /\ app' \in Schema /\ app \in Schema
  BY WorldIs DEF MigrateApp
<1>2. app'.log = app.log
  BY <1>1 DEF Schema
<1> QED
  BY <1>1, <1>2, MigrationStep DEF MigrateApp, OperatorChanges

LEMMA MigrateLogStep == ASSUME RolloutInv, MigrateLog PROVE RolloutInv'
<1>1. app \in Schema /\ app.log \in {"absent", "legacy", "halfway"}
  BY WorldIs DEF MigrateLog, Schema, LogTable, HasPhase3Columns
<1>2. MigratedLog(app.log) \in LogTable
  BY <1>1 DEF MigratedLog, LogTable
<1>3. app' \in Schema
  BY <1>1, <1>2 DEF MigrateLog, Schema
<1>4. UNCHANGED <<logs, service>> /\ (UNCHANGED spent \/ OperatorChanges)
  BY DEF MigrateLog, OperatorChanges
<1> QED
  BY <1>3, <1>4, MigrationStep DEF MigrateLog

LEMMA BootstrapStep == ASSUME RolloutInv, Bootstrap PROVE RolloutInv'
<1>1. /\ OperatorChanges /\ Disturbs /\ UNCHANGED <<app, file, psql, export>> /\ UNCHANGED <<logs, service>>
  BY DEF Bootstrap, OperatorChanges
<1>2. verify' \in Schema \cup {None, Part, Foreign}
  BY WorldIs DEF Bootstrap
<1>3. /\ current' \in [file: BOOLEAN, verify: BOOLEAN]
      /\ current'.file = current.file
      /\ current'.verify => verify' = file /\ current.file
  BY WorldIs DEF Bootstrap
<1>4. BootstrapIsCurrent'
  BY <1>1, <1>3, WorldIs DEF BootstrapIsCurrent
<1> QED
  BY <1>1, <1>2, <1>3, <1>4, WorldIs, OperatorStep

LEMMA InstallPsqlStep == ASSUME RolloutInv, InstallPsql PROVE RolloutInv'
<1>1. /\ OperatorChanges /\ Disturbs /\ UNCHANGED <<app, verify, file, current, export>>
      /\ UNCHANGED <<logs, service>> /\ psql' \in BOOLEAN
  BY DEF InstallPsql, OperatorChanges
<1>2. BootstrapIsCurrent'
  BY <1>1, WorldIs DEF BootstrapIsCurrent
<1> QED
  BY <1>1, <1>2, WorldIs, OperatorStep

-----------------------------------------------------------------------------
(* Steps of the export, which touch nothing but the bootstrap file *)

LEMMA ExportStep ==
    ASSUME RolloutInv, UNCHANGED <<app, verify, psql, logs, smoke, service>>, UNCHANGED spent \/ Fault,
           file' \in Schema \cup {Part, Foreign}, current' \in [file: BOOLEAN, verify: BOOLEAN],
           export' \in [pc: {"idle", "dump"}, content: Schema \cup {None, Foreign}, since: BOOLEAN],
           export'.since => export'.content = app,
           current'.file => file' = app, current'.verify = current.verify
    PROVE  RolloutInv'
<1>1. RolloutTypeOK /\ spent' \in [changes: 0..MaxOperations, failures: 0..MaxFaults]
  <2>1. RolloutTypeOK
    BY DEF RolloutInv
  <2> QED
    BY <2>1, SpentStep, Zenon
<1>2. RolloutTypeOK'
  BY <1>1 DEF RolloutTypeOK
<1>3. BootstrapIsCurrent'
  BY WorldIs, NoneAssumption DEF BootstrapIsCurrent
<1>4. StageInv' /\ ReadyInv'
  BY DEF RolloutInv, StageInv, ReadyInv, At, HasTables
<1>5. RestoreVerified' = RestoreVerified
  BY DEF RestoreVerified
<1>6. RunsApart' /\ SnapshotInv'
  BY <1>5 DEF RolloutInv, RunsApart, SnapshotInv, At, UiState
<1> QED
  BY <1>2, <1>3, <1>4, <1>6 DEF RolloutInv

LEMMA StartPgDumpStep == ASSUME RolloutInv, StartPgDump PROVE RolloutInv'
<1>1. /\ UNCHANGED <<app, verify, psql, logs, smoke, service>> /\ UNCHANGED spent
      /\ UNCHANGED <<file, current>>
  BY DEF StartPgDump, world
<1>2. PICK content \in {app, Foreign, None}, since \in BOOLEAN :
        /\ since <=> content = app
        /\ export' = [pc |-> "dump", content |-> content, since |-> since]
  BY DEF StartPgDump, Dumped
<1>3. /\ export'.content = content /\ export'.since = since
      /\ export' \in [pc: {"idle", "dump"}, content: Schema \cup {None, Foreign}, since: BOOLEAN]
  BY <1>2, WorldIs
<1>4. export'.since => export'.content = app
  BY <1>2, <1>3
<1> QED
  BY <1>1, <1>3, <1>4, WorldIs, ExportStep

LEMMA WriteBootstrapSchemaStep == ASSUME RolloutInv, WriteBootstrapSchema PROVE RolloutInv'
<1>1. /\ UNCHANGED <<app, verify, psql, logs, smoke, service>> /\ UNCHANGED spent /\ export' = Idle
  BY DEF WriteBootstrapSchema
<1>2. CASE export.content # None
  <2>1. file' = export.content /\ current' = [current EXCEPT !.file = export.since]
    BY <1>2 DEF WriteBootstrapSchema, SchemaOnly
  <2>2. /\ file' \in Schema \cup {Foreign} /\ current' \in [file: BOOLEAN, verify: BOOLEAN]
        /\ current'.verify = current.verify /\ current'.file = export.since
    BY <1>2, <2>1, WorldIs
  <2>3. current'.file => file' = app
    BY <1>2, <2>1, <2>2, WorldIs
  <2> QED
    BY <1>1, <2>2, <2>3, OffIs, ExportStep DEF Idle
<1>3. CASE export.content = None
  <2>1. UNCHANGED <<file, current>>
    BY <1>3 DEF WriteBootstrapSchema, SchemaOnly
  <2> QED
    BY <1>1, <2>1, WorldIs, OffIs, ExportStep DEF Idle
<1> QED
  BY <1>2, <1>3

LEMMA ExportFailsStep == ASSUME RolloutInv, ExportFails PROVE RolloutInv'
<1>1. /\ UNCHANGED <<app, verify, psql, logs, smoke, service>> /\ Fault /\ export' = Idle
  BY DEF ExportFails
<1>2. /\ file' \in Schema \cup {Part, Foreign} /\ current' \in [file: BOOLEAN, verify: BOOLEAN]
      /\ current'.file => file' = app
      /\ current'.verify = current.verify
  BY <1>1, WorldIs DEF ExportFails
<1> QED
  BY <1>1, <1>2, OffIs, ExportStep DEF Idle

-----------------------------------------------------------------------------
(* Steps of the daily run, which has a row of its own *)

LEMMA ServiceStep ==
    ASSUME RolloutInv, UNCHANGED <<world, export>>, UNCHANGED spent \/ Fault,
           logs' \in Seq(BackupStatusEntry), Len(logs) <= Len(logs'), Len(logs') <= MaxRuns,
           RestoreVerified \subseteq RestoreVerified',
           smoke.run # 0 => logs'[smoke.run] = logs[smoke.run],
           service' \in 0..Len(logs'),
           service' # 0 => service' # smoke.run /\ logs'[service'].status = "running",
           NEW alone \in BOOLEAN, smoke' = [smoke EXCEPT !.alone = alone],
           alone /\ smoke.run # 0 => smoke.alone /\ Len(logs') = Len(logs)
    PROVE  RolloutInv'
<1>1. /\ smoke \in Script /\ smoke.run \in 0..Len(logs) /\ Len(logs) \in Nat /\ Len(logs') \in Nat
      /\ UNCHANGED <<app, verify, psql>>
  BY LogIs, LenProperties DEF RolloutInv, RolloutTypeOK, world
<1>2. smoke' = [smoke EXCEPT !.alone = alone]
  OBVIOUS
<1>3. /\ smoke' \in Script /\ smoke'.pc = smoke.pc /\ smoke'.mode = smoke.mode
      /\ smoke'.run = smoke.run /\ smoke'.cause = smoke.cause
      /\ smoke'.told = smoke.told /\ smoke'.total = smoke.total
      /\ smoke'.latest = smoke.latest /\ smoke'.latestVerified = smoke.latestVerified
      /\ smoke'.phase3 = smoke.phase3 /\ smoke'.quiet = smoke.quiet /\ smoke'.prepared = smoke.prepared
      /\ smoke'.env = smoke.env /\ smoke'.apart = smoke.apart /\ smoke'.bad = smoke.bad
      /\ smoke'.manifest = smoke.manifest
  BY <1>1, <1>2 DEF Script
<1>4. smoke'.alone /\ smoke'.run # 0 => smoke.alone /\ Len(logs') = Len(logs)
  BY <1>1, <1>3 DEF Script
<1>5. StageInv'
  BY <1>3 DEF RolloutInv, StageInv, At
<1>6. ReadyInv'
  BY <1>1, <1>3 DEF RolloutInv, ReadyInv, At, HasTables
<1>7. RunsApart'
  BY <1>1, <1>3, <1>4 DEF RolloutInv, RunsApart
<1>8. SnapshotInv'
  BY <1>1, <1>3, <1>4 DEF RolloutInv, SnapshotInv, At, UiState
<1>9. smoke'.run <= Len(logs')
  BY <1>1, <1>3
<1> QED
  BY <1>3, <1>5, <1>6, <1>7, <1>8, <1>9, LogStep

LEMMA ServiceBeginsStep == ASSUME RolloutInv, ServiceBegins PROVE RolloutInv'
<1>1. /\ Len(logs) < MaxRuns /\ UNCHANGED <<world, export, spent>> /\ RolloutTypeOK
      /\ service' = Len(logs) + 1
      /\ smoke' = [smoke EXCEPT !.alone = (smoke.pc = "off")]
  BY DEF ServiceBegins, RolloutInv, At
<1>2. PICK row \in {OldRow, NewRow} : logs' = Append(logs, row)
  BY DEF ServiceBegins
<1>3. row \in BackupStatusEntry /\ row.status = "running"
  <2>1. NewRow \in BackupStatusEntry /\ NewRow.status = "running"
    BY DEF NewRow, BackupStatusEntry
  <2>2. OldRow \in BackupStatusEntry /\ OldRow.status = "running"
    BY <2>1 DEF OldRow, BackupStatusEntry
  <2> QED
    BY <2>1, <2>2
<1>4. /\ logs' \in Seq(BackupStatusEntry)
      /\ Len(logs') = Len(logs) + 1 /\ Len(logs') \in Nat /\ Len(logs') <= MaxRuns
      /\ \A i \in 1..Len(logs) : logs'[i] = logs[i]
      /\ logs'[Len(logs) + 1] = row
      /\ RestoreVerified \subseteq RestoreVerified'
  BY <1>1, <1>2, <1>3, Appends
<1>5. Len(logs) \in Nat /\ smoke.run \in 0..Len(logs)
  BY <1>1, LogIs
<1>6. PICK alone \in BOOLEAN : smoke' = [smoke EXCEPT !.alone = alone] /\ (alone => smoke.pc = "off")
  BY <1>1
<1>7. alone => smoke.run = 0
  BY <1>6 DEF RolloutInv, StageInv
<1>8. /\ Len(logs) <= Len(logs') /\ service' \in 0..Len(logs') /\ service' # smoke.run
      /\ logs'[service'].status = "running"
      /\ smoke.run # 0 => logs'[smoke.run] = logs[smoke.run]
  BY <1>1, <1>3, <1>4, <1>5
<1> QED
  BY <1>1, <1>4, <1>6, <1>7, <1>8, ServiceStep

LEMMA LaterRowsAre ==
    ASSUME NEW row \in BackupStatusEntry
    PROVE  LaterRows(row) \subseteq BackupStatusEntry
<1> SUFFICES ASSUME NEW new \in LaterRows(row) PROVE new \in BackupStatusEntry
  OBVIOUS
<1>1. CASE new = [row EXCEPT !.key = TRUE] \/ new = [row EXCEPT !.status = "failed"]
  BY <1>1 DEF BackupStatusEntry
<1>2. CASE \E end \in {"success", "failed"}, verdict \in {"none", "passed", "failed"} :
             new = [row EXCEPT !.status = end, !.verification = verdict]
  BY <1>2 DEF BackupStatusEntry
<1> QED
  BY <1>1, <1>2 DEF LaterRows

LEMMA ServiceLogsStep == ASSUME RolloutInv, ServiceLogs PROVE RolloutInv'
<1>1. /\ service # 0 /\ RolloutTypeOK /\ UNCHANGED <<world, export>> /\ UNCHANGED spent
      /\ smoke' = smoke /\ smoke \in Script
  BY DEF ServiceLogs, RolloutInv, RolloutTypeOK
<1>2. /\ Len(logs) \in Nat /\ service \in 1..Len(logs) /\ smoke.run \in 0..Len(logs)
      /\ logs[service] \in BackupStatusEntry /\ Len(logs) <= MaxRuns
  BY <1>1, LogIs
<1>3. logs[service].status = "running" /\ service # smoke.run
  BY <1>1 DEF RolloutInv, RunsApart
<1>4. PICK row \in LaterRows(logs[service]) :
        /\ logs' = [logs EXCEPT ![service] = row]
        /\ service' = IF row.status = "running" THEN service ELSE 0
  BY DEF ServiceLogs
<1>5. row \in BackupStatusEntry
  BY <1>2, <1>4, LaterRowsAre
<1>6. /\ logs' \in Seq(BackupStatusEntry) /\ Len(logs') = Len(logs)
      /\ \A j \in 1..Len(logs) : logs'[j] = IF j = service THEN row ELSE logs[j]
      /\ RestoreVerified \subseteq RestoreVerified'
  BY <1>1, <1>2, <1>3, <1>4, <1>5, Updates
<1>7. smoke' = [smoke EXCEPT !.alone = smoke.alone] /\ smoke.alone \in BOOLEAN
  BY <1>1 DEF Script
<1>8. /\ service' \in 0..Len(logs')
      /\ smoke.run # 0 => logs'[smoke.run] = logs[smoke.run]
  BY <1>2, <1>3, <1>4, <1>6
<1>9. service' # 0 => service' # smoke.run /\ logs'[service'].status = "running"
  BY <1>2, <1>3, <1>4, <1>6
<1>10. Len(logs) <= Len(logs') /\ Len(logs') <= MaxRuns
  BY <1>2, <1>6
<1> QED
  BY <1>1, <1>6, <1>7, <1>8, <1>9, <1>10, ServiceStep

LEMMA ServiceDiesStep == ASSUME RolloutInv, ServiceDies PROVE RolloutInv'
<1>1. /\ service' = 0 /\ RolloutTypeOK /\ UNCHANGED <<world, export>> /\ Fault
      /\ smoke' = smoke /\ logs' = logs /\ smoke \in Script
      /\ logs \in Seq(BackupStatusEntry) /\ Len(logs) <= MaxRuns
  BY DEF ServiceDies, RolloutInv, RolloutTypeOK
<1>2. Len(logs) \in Nat
  BY <1>1, LogIs
<1>3. smoke' = [smoke EXCEPT !.alone = smoke.alone] /\ smoke.alone \in BOOLEAN
  BY <1>1 DEF Script
<1>4. RestoreVerified' = RestoreVerified
  BY <1>1 DEF RestoreVerified
<1>5. /\ service' \in 0..Len(logs') /\ logs' \in Seq(BackupStatusEntry)
      /\ Len(logs) <= Len(logs') /\ Len(logs') = Len(logs) /\ Len(logs') <= MaxRuns
      /\ logs'[smoke.run] = logs[smoke.run]
  BY <1>1, <1>2
<1>6. RestoreVerified \subseteq RestoreVerified'
  BY <1>4
<1> QED
  BY <1>1, <1>3, <1>5, <1>6, ServiceStep

-----------------------------------------------------------------------------
LEMMA RolloutStutterStep == ASSUME RolloutInv, UNCHANGED rolloutVars PROVE RolloutInv'
<1>1. RestoreVerified' = RestoreVerified
  BY DEF RestoreVerified, rolloutVars
<1> QED
  BY <1>1 DEF rolloutVars, RolloutInv, RolloutTypeOK, BootstrapIsCurrent, StageInv, ReadyInv,
        RunsApart, SnapshotInv, At, HasTables, UiState

LEMMA RolloutNextInv == RolloutInv /\ [RolloutNext]_rolloutVars => RolloutInv'
<1> SUFFICES ASSUME RolloutInv, [RolloutNext]_rolloutVars PROVE RolloutInv'
  OBVIOUS
<1>1. CASE UNCHANGED rolloutVars
  BY <1>1, RolloutStutterStep
<1>2. CASE RolloutNext
  BY <1>2, MigrateAppStep, MigrateLogStep, BootstrapStep, InstallPsqlStep,
     StartPgDumpStep, WriteBootstrapSchemaStep, ExportFailsStep, BeginScriptStep, ScriptEndsStep,
     CheckEnvironmentStep, InspectTableStep, InspectColumnsStep, InspectVerifyDbStep, InspectFailsStep,
     LogStartStep, DumpStep, UploadStep, LogUploadStep, CheckPreparedSchemaStep, RestoreStep,
     LogSuccessStep, LogFailedStep, SnapshotTableStep, SnapshotColumnsStep, SnapshotLatestStep,
     SnapshotVerifiedStep, SnapshotTotalStep, ServiceBeginsStep, ServiceLogsStep, ServiceDiesStep
     DEF RolloutNext
<1> QED
  BY <1>1, <1>2

(* The rollout's state hangs together at every label of its scripts, beside *)
(* the operator, the export and the daily run; in particular a bootstrap    *)
(* file exported from the live database since the last migration, and the   *)
(* verify database made from it, have the schema as it is                   *)
(* (docs/backup/verify-db-schema-ops.md); with one from another database,   *)
(* which the script accepts, no undisturbed backup passes.                  *)
THEOREM RolloutInvariance == RolloutSpec => []RolloutInv
  BY RolloutInitInv, RolloutNextInv, PTL DEF RolloutSpec

(* Behind a passed preflight no backup fails for what the preflight looked  *)
(* at until something that was looked at is changed. It fails for the       *)
(* schema only if the verify database has another one, foreign, old or cut  *)
(* off, and passes only if it has the live one, which one prepared in order *)
(* has (backup-rollout-preflight.ts, backup-verify.ts:553-588).             *)
THEOREM ReadyBackupsRun == RolloutSpec => []ReadyMeansItRuns
<1>1. RolloutInv => ReadyMeansItRuns
  <2> SUFFICES ASSUME RolloutInv, smoke.quiet
               PROVE  /\ smoke.cause \notin {"env", "same", "tables", "psql"}
                      /\ smoke.cause = "schema" => verify # app
                      /\ smoke.cause = "passed" => verify = app
                      /\ smoke.prepared => smoke.cause # "schema"
                      /\ smoke.pc \in {"dump", "upload"} => HasPhase3Columns(app.log)
    BY DEF ReadyMeansItRuns
  <2>1. smoke.pc \in {"start"} \cup Preflight \cup Pipeline
    BY DEF RolloutInv, ReadyInv
  <2> QED
    BY <2>1 DEF RolloutInv, ReadyInv, StageInv, At, Preflight, Pipeline
<1> QED
  BY <1>1, RolloutInvariance, PTL

(* What smoke and status report fits together and to the log, and the smoke *)
(* passes for its own backup alone (backup-rollout-status.ts:110-202,       *)
(* backup-rollout-smoke.ts:23-49).                                          *)
THEOREM ReportsAreRight == RolloutSpec => []ReportIsRight
<1>1. ASSUME RolloutInv, At("report") PROVE ReportIsRight
  <2>1. smoke.pc = "report" /\ smoke.pc \in Snapshot /\ smoke \in Script
    BY <1>1 DEF At, Snapshot, RolloutInv, RolloutTypeOK
  <2>2. SnapshotAgrees
    BY <1>1, <2>1 DEF RolloutInv, SnapshotInv, SnapshotAgrees, At, UiState, getRolloutSmokeFailure
  <2>3. JudgesItsRun
    <3> SUFFICES ASSUME smoke.mode = "smoke", smoke.alone
                 PROVE  /\ smoke.run # 0 /\ getRolloutSmokeFailure = "none" => smoke.cause = "passed"
                        /\ smoke.told /\ smoke.cause = "passed" => getRolloutSmokeFailure = "none"
      BY DEF JudgesItsRun
    <3>1. ASSUME smoke.run # 0, getRolloutSmokeFailure = "none" PROVE smoke.cause = "passed"
      <4>1. smoke.latest # None /\ UiState(smoke.latest) = "verified"
        BY <3>1 DEF getRolloutSmokeFailure
      <4>2. smoke.run \in RestoreVerified
        BY <1>1, <2>1, <3>1, <4>1 DEF RolloutInv, SnapshotInv
      <4>3. logs[smoke.run].status = "success"
        BY <4>2 DEF RestoreVerified
      <4> QED
        BY <1>1, <2>1, <3>1, <4>3 DEF RolloutInv, RunsApart
    <3>2. ASSUME smoke.told, smoke.cause = "passed" PROVE getRolloutSmokeFailure = "none"
      <4>1. smoke.run \in RestoreVerified /\ smoke.run # 0
        BY <1>1, <2>1, <3>2, ReadsIs, LogIs DEF RolloutInv
      <4>2. smoke.phase3 /\ smoke.latest # None /\ UiState(smoke.latest) = "verified"
        BY <1>1, <2>1, <3>2, <4>1 DEF RolloutInv, SnapshotInv, Snapshot
      <4>3. smoke.latestVerified # None
        BY <1>1, <2>1, <4>2 DEF RolloutInv, SnapshotInv
      <4> QED
        BY <4>2, <4>3 DEF getRolloutSmokeFailure
    <3> QED
      BY <3>1, <3>2
  <2> QED
    BY <2>2, <2>3 DEF ReportIsRight
<1>2. RolloutInv => ReportIsRight
  <2>1. CASE ~At("report")
    BY <2>1 DEF ReportIsRight, SnapshotAgrees, JudgesItsRun
  <2> QED
    BY <1>1, <2>1
<1> QED
  BY <1>2, RolloutInvariance, PTL

(* No write of either run hits a row that passed its verification. *)
LEMMA OpenRowsOnly ==
    ASSUME RolloutInv, NEW i \in 1..Len(logs), logs[i].status = "running", NEW row,
           logs' = [logs EXCEPT ![i] = row]
    PROVE  RestoreVerified \subseteq RestoreVerified'
<1>1. DOMAIN logs = 1..Len(logs) /\ DOMAIN logs' = DOMAIN logs
  BY LogIs DEF RolloutInv
<1>2. \A j \in DOMAIN logs : j # i => logs'[j] = logs[j]
  BY <1>1
<1> QED
  BY <1>1, <1>2 DEF RestoreVerified

LEMMA WriteRowKeeps ==
    ASSUME RolloutInv, smoke.pc \in Pipeline, NEW row, NEW next, WriteRow(row, next)
    PROVE  RestoreVerified \subseteq RestoreVerified'
<1>1. CASE smoke.run # 0 /\ logs' = [logs EXCEPT ![smoke.run] = row]
  BY <1>1, BackupIs, OpenRowsOnly
<1>2. CASE logs' = logs
  BY <1>2 DEF RestoreVerified
<1> QED
  BY <1>1, <1>2 DEF WriteRow

(* A row whose object passed its restore keeps its verdict, whatever the    *)
(* smoke run, a daily run of either version and the operator do around it   *)
(* (backup-logger.ts, whose UPDATEs name a row by its id alone).            *)
THEOREM VerifiedRowsStay ==
    RolloutSpec => [][RestoreVerified \subseteq RestoreVerified']_rolloutVars
<1>1. ASSUME RolloutInv, RolloutNext PROVE RestoreVerified \subseteq RestoreVerified'
  <2>1. CASE logs' = logs
    BY <2>1 DEF RestoreVerified
  <2>2. CASE LogStart
    <3>1. NewRow \in BackupStatusEntry
      BY DEF NewRow, BackupStatusEntry
    <3>2. CASE logs' = Append(logs, NewRow)
      BY <1>1, <2>2, <3>1, <3>2, Appends DEF RolloutInv, LogStart
    <3> QED
      BY <2>1, <2>2, <3>2 DEF LogStart
  <2>3. CASE LogUpload \/ LogSuccess \/ LogFailed
    <3>1. smoke.pc \in Pipeline
      BY <2>3 DEF LogUpload, LogSuccess, LogFailed, At, Pipeline
    <3>2. \E row, next : WriteRow(row, next)
      BY <2>3 DEF LogUpload, LogSuccess, LogFailed
    <3> QED
      BY <1>1, <3>1, <3>2, WriteRowKeeps
  <2>4. CASE ServiceBegins
    <3>1. NewRow \in BackupStatusEntry
      BY DEF NewRow, BackupStatusEntry
    <3>2. OldRow \in BackupStatusEntry
      BY <3>1 DEF OldRow, BackupStatusEntry
    <3>3. PICK row \in {OldRow, NewRow} : logs' = Append(logs, row)
      BY <2>4 DEF ServiceBegins
    <3> QED
      BY <1>1, <2>4, <3>1, <3>2, <3>3, Appends DEF RolloutInv, ServiceBegins
  <2>5. CASE ServiceLogs
    <3>1. service \in 1..Len(logs) /\ logs[service].status = "running"
      BY <1>1, <2>5, LogIs DEF RolloutInv, RunsApart, ServiceLogs
    <3>2. \E row : logs' = [logs EXCEPT ![service] = row]
      BY <2>5 DEF ServiceLogs
    <3> QED
      BY <1>1, <3>1, <3>2, OpenRowsOnly
  <2>6. RolloutNext => logs' = logs \/ LogStart \/ LogUpload \/ LogSuccess \/ LogFailed
                       \/ ServiceBegins \/ ServiceLogs
    BY DEF RolloutNext, MigrateApp, MigrateLog, Bootstrap, InstallPsql, OperatorChanges,
           StartPgDump, WriteBootstrapSchema, ExportFails, BeginScript, ScriptEnds,
           CheckEnvironment, InspectTable, InspectColumns, InspectVerifyDb, InspectFails,
           Dump, Upload, CheckPreparedSchema, Restore,
           SnapshotTable, SnapshotColumns, SnapshotLatest, SnapshotVerified, SnapshotTotal,
           ServiceDies, SmokeOnly
  <2> QED
    BY <1>1, <2>1, <2>2, <2>3, <2>4, <2>5, <2>6
<1>2. RolloutInv /\ [RolloutNext]_rolloutVars => [RestoreVerified \subseteq RestoreVerified']_rolloutVars
  BY <1>1
<1> QED
  BY <1>2, RolloutInvariance, PTL DEF RolloutSpec

-----------------------------------------------------------------------------
(* Part three: both.                                                        *)

(* The popup and the rollout's scripts have their own copy of the rule, and *)
(* show any row in the same state (index.html, getBackupState;              *)
(* backup-rollout-status.ts:48-69).                                         *)
THEOREM OneLightPerRow ==
    ASSUME NEW row \in Row, NEW entry \in BackupStatusEntry,
           entry.status = row.status, entry.key = row.uploaded,
           entry.verification = IF row.verification = Null THEN "none" ELSE row.verification
    PROVE  getBackupUiState(entry) = BackupState(row)
<1>1. /\ row.status \in {"running", "success", "failed"} /\ row.uploaded \in BOOLEAN
      /\ row.verification \in {Null, "pending", "passed", "failed"}
  BY DEF Row
<1>2. \A v \in {"pending", "passed", "failed"} : entry.verification = v <=> row.verification = v
  BY <1>1
<1> QED
  BY <1>1, <1>2 DEF getBackupUiState, BackupState
=============================================================================

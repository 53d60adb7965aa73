------------------------ MODULE BackupServiceProofs ------------------------
(***************************************************************************)
(* Proofs about BackupService for every calendar, retention and bound.     *)
(***************************************************************************)
EXTENDS BackupService, FiniteSetTheorems, WellFoundedInduction, TLAPS

USE NullAssumption, CalendarAssumption, BoundAssumption

-----------------------------------------------------------------------------
(* Types of what the actions are built from. *)

LEMMA DayType == ASSUME NEW t \in Nat PROVE Day(t) \in Nat
  BY DEF Day

LEMMA NextBackupType ==
    ASSUME clock \in Nat, NEW skipToday
    PROVE  NextBackup(skipToday) \in Nat
<1>1. Day(clock) * DayLen \in Nat
  BY DayType
<1> QED
  BY <1>1 DEF NextBackup

LEMMA TimerType ==
    ASSUME clock \in Nat, NEW skipToday
    PROVE  ScheduleNext(skipToday) \in Nat \cup {Null}
  BY NextBackupType DEF ScheduleNext

LEMMA ConstantTypes == /\ NoRow \in LogRow /\ StartedRow \in LogRow
                       /\ NoLocals \in Locals /\ NoLocals.run = 0
  BY DEF NoRow, StartedRow, LogRow, NoLocals, Locals

LEMMA BeginningLocals ==
    ASSUME NEW r \in 0..MaxRuns, NEW t \in Nat
    PROVE  LET s == [NoLocals EXCEPT !.run = r, !.began = t]
           IN  s \in Locals /\ s.run = r
  BY DEF NoLocals, Locals

LEMMA RowTypes ==
    ASSUME NEW row \in LogRow, NEW unverified \in BOOLEAN
    PROVE  /\ UploadedRow(row) \in LogRow
           /\ SuccessRow(row) \in LogRow
           /\ FailedRow(row, unverified) \in LogRow
<1>1. UploadedRow(row) \in LogRow
  BY DEF LogRow, UploadedRow
<1>2. SuccessRow(row) \in LogRow
  BY DEF LogRow, SuccessRow
<1>3. (IF unverified THEN "failed" ELSE row.verification) \in {"none", "pending", "passed", "failed"}
  BY DEF LogRow
<1>4. FailedRow(row, unverified) \in LogRow
  BY <1>3 DEF LogRow, FailedRow
<1> QED
  BY <1>1, <1>2, <1>4

LEMMA InitBInv == Init => BInv
<1> SUFFICES ASSUME Init PROVE BInv
  OBVIOUS
<1>1. TypeOK
  <2>1. logs \in [Run -> LogRow] /\ cur \in [Process -> Locals] /\ pc \in [Process -> Label]
    BY ConstantTypes DEF Init, Label
  <2>2. /\ smoke \in [passed: BOOLEAN, run: 0..MaxRuns] /\ runs \in 0..MaxRuns
        /\ key \in [Run -> Nat \cup {Null}]
    BY DEF Init
  <2> QED
    BY <2>1, <2>2 DEF Init, TypeOK
<1>2. SuccessIsVerified /\ PipelineInv
  BY DEF Init, SuccessIsVerified, PipelineInv, NoRow, Running, Pipeline
<1> QED
  BY <1>1, <1>2 DEF BInv

-----------------------------------------------------------------------------
(* How a step keeps what the rows say. *)

(* Nobody starts a run and no row is written. *)
LEMMA Moves ==
    ASSUME SuccessIsVerified, PipelineInv, UNCHANGED <<logs, runs>>, verified \subseteq verified',
           \A p \in Process : Running(p)' =>
              /\ Running(p) /\ cur'[p].run = cur[p].run
              /\ pc'[p] \in Proven => cur[p].run \in verified'
    PROVE  SuccessIsVerified' /\ PipelineInv'
  BY DEF SuccessIsVerified, PipelineInv

(* A run starts in a row nobody has used. *)
LEMMA Begins ==
    ASSUME TypeOK, SuccessIsVerified, PipelineInv, NEW p \in Process, Begin(p),
           UNCHANGED <<logs, verified>>
    PROVE  /\ SuccessIsVerified' /\ PipelineInv'
           /\ pc' \in [Process -> Label] /\ cur' \in [Process -> Locals]
           /\ runs' \in 0..MaxRuns
<1> DEFINE s == [NoLocals EXCEPT !.run = runs + 1, !.began = clock]
<1>1. /\ runs \in 0..MaxRuns /\ runs < MaxRuns /\ runs' = runs + 1
      /\ clock \in Nat /\ pc \in [Process -> Label] /\ cur \in [Process -> Locals]
      /\ pc' = [pc EXCEPT ![p] = "logStart"] /\ cur' = [cur EXCEPT ![p] = s]
  BY DEF Begin, TypeOK
<1>2. s \in Locals /\ s.run = runs + 1 /\ runs + 1 \in Run
  <2>1. runs + 1 \in Run /\ runs + 1 \in 0..MaxRuns
    BY <1>1 DEF Run
  <2> QED
    BY <1>1, <2>1, BeginningLocals
<1> HIDE DEF s
<1>3. /\ pc' \in [Process -> Label] /\ cur' \in [Process -> Locals] /\ runs' \in 0..MaxRuns
  BY <1>1, <1>2 DEF Label, Pipeline
<1>4. logs[runs + 1] = NoRow
  BY <1>1, <1>2 DEF PipelineInv
<1>5. \A q \in Process : Running(q)' =>
         /\ q = p => cur'[q].run = runs + 1 /\ pc'[q] = "logStart"
         /\ q # p => Running(q) /\ cur'[q] = cur[q] /\ pc'[q] = pc[q]
  BY <1>1, <1>2 DEF Running
<1>6. \A q \in Process : Running(q) => cur[q].run \in Run /\ cur[q].run # runs + 1
  BY <1>1 DEF PipelineInv, Run
<1>7. PipelineInv'
  <2>1. ASSUME NEW q \in Process, Running(q)'
        PROVE  /\ cur'[q].run \in Run /\ cur'[q].run <= runs'
               /\ logs'[cur'[q].run].status \in {"none", "running"}
               /\ logs'[cur'[q].run].verification \in {"none", "pending"}
               /\ pc'[q] \in Proven => cur'[q].run \in verified'
    <3>1. CASE q = p
      BY <1>1, <1>2, <1>4, <1>5, <2>1, <3>1 DEF NoRow, Proven
    <3>2. CASE q # p
      BY <1>1, <1>5, <2>1, <3>2 DEF PipelineInv, Run
    <3> QED
      BY <3>1, <3>2
  <2>2. ASSUME NEW a \in Process, NEW b \in Process, Running(a)', Running(b)',
               cur'[a].run = cur'[b].run
        PROVE  a = b
    BY <1>5, <1>6, <2>2 DEF PipelineInv
  <2>3. \A r \in Run : r > runs' => logs'[r] = NoRow
    BY <1>1 DEF PipelineInv, Run
  <2> QED
    BY <2>1, <2>2, <2>3 DEF PipelineInv
<1> QED
  BY <1>3, <1>7 DEF SuccessIsVerified

(* A run writes its own row. *)
LEMMA Writes ==
    ASSUME TypeOK, SuccessIsVerified, PipelineInv, NEW p \in Process, Running(p),
           NEW row \in LogRow, NEW r \in Run, cur[p].run = r,
           logs' = logs \/ logs' = [logs EXCEPT ![r] = row],
           UNCHANGED <<runs, verified>>,
           row.status = "success" => r \in verified /\ row.r2Key,
           row.verification = "passed" <=> row.status = "success",
           \A q \in Process \ {p} : pc'[q] = pc[q] /\ cur'[q] = cur[q],
           \/ ~Running(p)'
           \/ /\ cur'[p].run = r /\ pc'[p] \notin Proven
              /\ row.status = "running" /\ row.verification = "pending"
    PROVE  SuccessIsVerified' /\ PipelineInv' /\ logs' \in [Run -> LogRow]
<1>1. logs \in [Run -> LogRow] /\ r <= runs /\ runs \in Nat
  BY DEF TypeOK, PipelineInv
<1>2. \A q \in Run \ {r} : logs'[q] = logs[q]
  BY <1>1
<1>3. logs'[r] = logs[r] \/ logs'[r] = row
  BY <1>1
<1>4. logs' \in [Run -> LogRow]
  BY <1>1
<1>5. SuccessIsVerified'
  BY <1>1, <1>2, <1>3 DEF SuccessIsVerified
<1>6. \A q \in Process \ {p} : Running(q) => cur[q].run \in Run \ {r}
  BY DEF PipelineInv
<1>7. \A q \in Process \ {p} : Running(q)' <=> Running(q)
  BY DEF Running
<1>8. PipelineInv'
  <2>1. ASSUME NEW q \in Process, Running(q)'
        PROVE  /\ cur'[q].run \in Run /\ cur'[q].run <= runs'
               /\ logs'[cur'[q].run].status \in {"none", "running"}
               /\ logs'[cur'[q].run].verification \in {"none", "pending"}
               /\ pc'[q] \in Proven => cur'[q].run \in verified'
    <3>1. CASE q = p
      BY <1>1, <1>3, <2>1, <3>1 DEF PipelineInv
    <3>2. CASE q # p
      BY <1>2, <1>6, <1>7, <2>1, <3>2 DEF PipelineInv
    <3> QED
      BY <3>1, <3>2
  <2>2. ASSUME NEW a \in Process, NEW b \in Process, Running(a)', Running(b)',
               cur'[a].run = cur'[b].run
        PROVE  a = b
    BY <1>6, <1>7, <2>2 DEF PipelineInv
  <2>3. \A q \in Run : q > runs' => logs'[q] = NoRow
    BY <1>1, <1>2 DEF PipelineInv, Run
  <2> QED
    BY <2>1, <2>2, <2>3 DEF PipelineInv
<1> QED
  BY <1>4, <1>5, <1>8

-----------------------------------------------------------------------------
(* What all steps of a pipeline have in common. *)

LEMMA Updates ==
    ASSUME cur \in [Process -> Locals], NEW p \in Process, NEW b \in BOOLEAN,
           NEW d \in SUBSET Object,
           \/ cur' = cur
           \/ cur' = [cur EXCEPT ![p].logged = b]
           \/ cur' = [cur EXCEPT ![p].unverified = b]
           \/ cur' = [cur EXCEPT ![p].doomed = d]
    PROVE  /\ cur' \in [Process -> Locals]
           /\ \A q \in Process : cur'[q].run = cur[q].run
           /\ \A q \in Process \ {p} : cur'[q] = cur[q]
<1>1. cur[p] \in Locals
  OBVIOUS
<1> QED
  BY <1>1 DEF Locals

LEMMA Continues ==
    ASSUME TypeOK, NEW p \in Process, NEW label \in Label, Continue(p, label)
    PROVE  /\ pc' \in [Process -> Label] /\ pc'[p] = label
           /\ \A q \in Process \ {p} : pc'[q] = pc[q]
           /\ UNCHANGED <<clock, timer, stopped, runs, lastFired, smoke>>
  BY DEF TypeOK, Continue, Goto

LEMMA Labels == Pipeline \subseteq Label /\ "ready" \in Label /\ "snapshot" \in Label
  BY DEF Label

(* A step of p's pipeline that writes no row. *)
LEMMA SilentStep ==
    ASSUME BInv, NEW p \in Process, Running(p), NEW label \in Label, Continue(p, label),
           logs' = logs, objects' \subseteq Object, verified' \subseteq Run,
           key' \in [Run -> Nat \cup {Null}],
           verified \subseteq verified', cur' \in [Process -> Locals],
           \A q \in Process : cur'[q].run = cur[q].run,
           label \in Proven => cur[p].run \in verified'
    PROVE  BInv'
<1>1. TypeOK'
  BY Continues DEF BInv, TypeOK
<1>2. \A q \in Process : Running(q)' =>
         /\ Running(q) /\ cur'[q].run = cur[q].run
         /\ pc'[q] \in Proven => cur[q].run \in verified'
  <2> SUFFICES ASSUME NEW q \in Process, Running(q)'
               PROVE  /\ Running(q)
                      /\ pc'[q] \in Proven => cur[q].run \in verified'
    OBVIOUS
  <2>1. CASE q = p
    BY <2>1, Continues DEF BInv
  <2>2. CASE q # p
    BY <2>2, Continues DEF BInv, PipelineInv, Running
  <2> QED
    BY <2>1, <2>2
<1>3. SuccessIsVerified' /\ PipelineInv'
  BY <1>2, Moves, Continues DEF BInv
<1> QED
  BY <1>1, <1>3 DEF BInv

LEMMA ThrowStep ==
    ASSUME BInv, NEW p \in Process, Running(p), NEW b \in BOOLEAN, Throw(p, b),
           logs' = logs, objects' \subseteq Object
    PROVE  BInv'
<1>1. /\ cur' = [cur EXCEPT ![p].unverified = b] /\ verified' = verified /\ key' = key
      /\ Continue(p, "logFailed") /\ {} \in SUBSET Object
  BY DEF Throw
<1>2. /\ cur \in [Process -> Locals] /\ verified \subseteq Run
      /\ key' \in [Run -> Nat \cup {Null}]
  BY <1>1 DEF BInv, TypeOK
<1>3. cur' \in [Process -> Locals] /\ \A q \in Process : cur'[q].run = cur[q].run
  BY <1>1, <1>2, Updates
<1>4. "logFailed" \in Label /\ "logFailed" \notin Proven
  BY DEF Label, Pipeline, Proven
<1> QED
  BY <1>1, <1>2, <1>3, <1>4, SilentStep

LEMMA LogStartStep == ASSUME BInv, NEW p \in Process, LogStart(p) PROVE BInv'
<1> DEFINE r == cur[p].run
<1>1. /\ Running(p) /\ Continue(p, "dump") /\ "dump" \in Label
      /\ UNCHANGED <<objects, key, verified>>
  BY Labels DEF LogStart, Running, Pipeline
<1>2. PICK answered \in BOOLEAN : cur' = [cur EXCEPT ![p].logged = answered]
  BY DEF LogStart
<1>3. logs' = logs \/ logs' = [logs EXCEPT ![r] = StartedRow]
  BY DEF LogStart
<1>4. TypeOK /\ SuccessIsVerified /\ PipelineInv /\ cur \in [Process -> Locals]
  BY DEF BInv, TypeOK
<1>5. /\ cur' \in [Process -> Locals] /\ \A q \in Process : cur'[q].run = cur[q].run
      /\ \A q \in Process \ {p} : cur'[q] = cur[q]
  <2>1. {} \in SUBSET Object
    OBVIOUS
  <2> QED
    BY <1>2, <1>4, <2>1, Updates
<1>6. r \in Run
  BY <1>1, <1>4 DEF PipelineInv
<1>7. /\ StartedRow \in LogRow
      /\ StartedRow.status = "running" /\ StartedRow.verification = "pending"
  BY ConstantTypes DEF StartedRow
<1>8. /\ pc' \in [Process -> Label] /\ pc'[p] = "dump"
      /\ \A q \in Process \ {p} : pc'[q] = pc[q]
      /\ UNCHANGED <<clock, timer, stopped, runs, lastFired, smoke>>
  BY <1>1, <1>4, Continues
<1>9. SuccessIsVerified' /\ PipelineInv' /\ logs' \in [Run -> LogRow]
  <2>1. cur'[p].run = r /\ pc'[p] \notin Proven
    BY <1>5, <1>8 DEF Proven
  <2> HIDE DEF r
  <2>2. cur[p].run = r
    BY DEF r
  <2> QED
    BY <1>1, <1>3, <1>4, <1>5, <1>6, <1>7, <1>8, <2>1, <2>2, Writes
<1> QED
  BY <1>1, <1>4, <1>5, <1>8, <1>9 DEF BInv, TypeOK

LEMMA LogUploadStep == ASSUME BInv, NEW p \in Process, LogUpload(p) PROVE BInv'
<1> DEFINE r == cur[p].run
           row == UploadedRow(logs[r])
<1>1. /\ Running(p) /\ Continue(p, "verify") /\ "verify" \in Label
      /\ UNCHANGED <<objects, key, cur, verified>>
  BY Labels DEF LogUpload, Running, Pipeline
<1>2. TypeOK /\ SuccessIsVerified /\ PipelineInv
  BY DEF BInv
<1>3. r \in Run /\ logs[r] \in LogRow
  BY <1>1, <1>2 DEF PipelineInv, TypeOK
<1>4. logs' = logs \/ logs' = [logs EXCEPT ![r] = row]
  BY DEF LogUpload, WriteRow
<1>5. row \in LogRow /\ row.status = "running" /\ row.verification = "pending"
  BY <1>3, RowTypes DEF UploadedRow, LogRow
<1>6. /\ pc' \in [Process -> Label] /\ pc'[p] = "verify"
      /\ \A q \in Process \ {p} : pc'[q] = pc[q]
      /\ UNCHANGED <<clock, timer, stopped, runs, lastFired, smoke>>
  BY <1>1, <1>2, Continues
<1>7. SuccessIsVerified' /\ PipelineInv' /\ logs' \in [Run -> LogRow]
  <2>1. cur'[p].run = r /\ pc'[p] \notin Proven /\ cur' = cur
    BY <1>1, <1>6 DEF Proven
  <2>2. cur[p].run = r
    OBVIOUS
  <2> HIDE DEF r, row
  <2> QED
    BY <1>1, <1>2, <1>3, <1>4, <1>5, <1>6, <2>1, <2>2, Writes
<1> QED
  BY <1>1, <1>2, <1>6, <1>7 DEF BInv, TypeOK

(* The last statement of a run, and its finally block. *)
LEMMA LastStep ==
    ASSUME BInv, NEW p \in Process, LogSuccess(p) \/ LogFailed(p) PROVE BInv'
<1> DEFINE r == cur[p].run
           passed == pc[p] = "logSuccess"
<1>1. PICK row : /\ logs' = logs \/ logs' = [logs EXCEPT ![r] = row]
                 /\ passed => row = SuccessRow(logs[r])
                 /\ ~passed => row = FailedRow(logs[r], cur[p].unverified)
  BY DEF LogSuccess, LogFailed, WriteRow
<1>2. TypeOK /\ SuccessIsVerified /\ PipelineInv /\ Finally(p) /\ Running(p)
  BY DEF BInv, LogSuccess, LogFailed, Running, Pipeline
<1>3. /\ r \in Run /\ logs[r] \in LogRow /\ cur[p].unverified \in BOOLEAN
      /\ logs[r].verification \in {"none", "pending"}
      /\ passed => r \in verified
  BY <1>2 DEF PipelineInv, TypeOK, Locals, Proven
<1>4. /\ row \in LogRow
      /\ row.status = "success" => r \in verified /\ row.r2Key
      /\ row.verification = "passed" <=> row.status = "success"
  <2>1. CASE passed
    <3>1. row = SuccessRow(logs[r]) /\ row \in LogRow
      BY <1>1, <1>3, <2>1, RowTypes
    <3>2. row.status = "success" /\ row.verification = "passed" /\ row.r2Key
      BY <3>1 DEF SuccessRow
    <3> QED
      BY <1>3, <2>1, <3>1, <3>2
  <2>2. CASE ~passed
    <3>1. row = FailedRow(logs[r], cur[p].unverified) /\ row \in LogRow
      BY <1>1, <1>3, <2>2, RowTypes
    <3>2. row.status = "failed" /\ row.verification # "passed"
      BY <1>3, <3>1 DEF FailedRow, LogRow
    <3> QED
      BY <3>1, <3>2
  <2> QED
    BY <2>1, <2>2
<1>5. /\ UNCHANGED <<clock, objects, key, stopped, runs, verified, lastFired, smoke>>
      /\ \A q \in Process \ {p} : pc'[q] = pc[q] /\ cur'[q] = cur[q]
      /\ pc' \in [Process -> Label] /\ cur' \in [Process -> Locals]
      /\ ~Running(p)'
  BY <1>2, Labels, ConstantTypes DEF Finally, Goto, TypeOK, Running, Pipeline
<1>6. timer' \in Nat \cup {Null}
  BY <1>2, TimerType DEF Finally, TypeOK
<1>7. SuccessIsVerified' /\ PipelineInv' /\ logs' \in [Run -> LogRow]
  <2>1. cur[p].run = r
    OBVIOUS
  <2> HIDE DEF r
  <2> QED
    BY <1>1, <1>2, <1>3, <1>4, <1>5, <2>1, Writes
<1> QED
  BY <1>2, <1>5, <1>6, <1>7 DEF BInv, TypeOK

LEMMA DumpStep == ASSUME BInv, NEW p \in Process, Dump(p) PROVE BInv'
<1>1. Running(p) /\ UNCHANGED <<objects, logs>> /\ objects \subseteq Object
  BY DEF Dump, Running, Pipeline, BInv, TypeOK
<1>2. CASE Throw(p, FALSE)
  BY <1>1, <1>2, ThrowStep
<1>3. CASE Continue(p, "upload") /\ NameObject(p) /\ UNCHANGED <<cur, verified>>
  <2>1. key' \in [Run -> Nat \cup {Null}]
    BY <1>3 DEF NameObject, BInv, TypeOK
  <2> QED
    BY <1>1, <1>3, <2>1, Labels, SilentStep DEF Pipeline, Proven, BInv, TypeOK
<1> QED
  BY <1>2, <1>3 DEF Dump

LEMMA UploadStep == ASSUME BInv, NEW p \in Process, Upload(p) PROVE BInv'
<1>1. Running(p) /\ logs' = logs
  BY DEF Upload, Running, Pipeline
<1>2. objects' \subseteq Object
  <2>1. cur[p].run \in Run /\ clock \in Nat /\ objects \subseteq Object
    BY <1>1 DEF BInv, TypeOK, PipelineInv
  <2>2. \A good \in BOOLEAN :
          [run |-> cur[p].run, lastModified |-> clock, good |-> good] \in Object
    BY <2>1 DEF Object
  <2>3. \/ objects' = objects
        \/ \E good \in BOOLEAN : objects' \subseteq objects \cup
              {[run |-> cur[p].run, lastModified |-> clock, good |-> good]}
    <3>1. objects' = objects \/ \E good \in BOOLEAN : PutObject(p, good)
      BY Zenon DEF Upload
    <3>2. ASSUME NEW good \in BOOLEAN, PutObject(p, good)
          PROVE  objects' \subseteq objects \cup
                   {[run |-> cur[p].run, lastModified |-> clock, good |-> good]}
      BY <3>2 DEF PutObject
    <3> QED
      BY <3>1, <3>2
  <2> QED
    BY <2>1, <2>2, <2>3
<1>3. CASE Throw(p, FALSE)
  BY <1>1, <1>2, <1>3, ThrowStep
<1>4. CASE Continue(p, "logUpload") /\ UNCHANGED <<cur, key, verified>>
  BY <1>1, <1>2, <1>4, Labels, SilentStep DEF Pipeline, Proven, BInv, TypeOK
<1> QED
  BY <1>3, <1>4 DEF Upload

LEMMA VerifyStep == ASSUME BInv, NEW p \in Process, Verify(p) PROVE BInv'
<1>1. /\ Running(p) /\ UNCHANGED <<objects, logs>> /\ objects \subseteq Object
      /\ cur \in [Process -> Locals] /\ verified \subseteq Run
  BY DEF Verify, Running, Pipeline, BInv, TypeOK
<1>2. CASE Throw(p, FALSE)
  BY <1>1, <1>2, ThrowStep
<1>3. ASSUME NEW passed \in BOOLEAN,
             Continue(p, AfterVerify(p, passed)),
             cur' = [cur EXCEPT ![p].unverified = ~passed],
             verified' = IF passed THEN verified \cup {cur[p].run} ELSE verified,
             UNCHANGED key
      PROVE  BInv'
  <2>1. AfterVerify(p, passed) \in Label /\ (AfterVerify(p, passed) \in Proven => passed)
    BY DEF AfterVerify, Label, Pipeline, Proven
  <2>2. cur' \in [Process -> Locals] /\ \A q \in Process : cur'[q].run = cur[q].run
    <3>1. PICK u \in BOOLEAN : cur' = [cur EXCEPT ![p].unverified = u]
      BY <1>3
    <3> QED
      BY <1>1, <3>1, Updates
  <2>3. cur[p].run \in Run /\ key' \in [Run -> Nat \cup {Null}]
    BY <1>1, <1>3 DEF BInv, PipelineInv, TypeOK
  <2>4. verified' \subseteq Run /\ verified \subseteq verified' /\ (passed => cur[p].run \in verified')
    BY <1>1, <1>3, <2>3
  <2> QED
    BY <1>1, <1>3, <2>1, <2>2, <2>3, <2>4, SilentStep
<1> QED
  BY <1>2, <1>3 DEF Verify

LEMMA RetentionStep == ASSUME BInv, NEW p \in Process, List(p) \/ Delete(p) PROVE BInv'
<1>1. /\ Running(p) /\ UNCHANGED <<key, logs, verified>> /\ objects \subseteq Object
      /\ cur \in [Process -> Locals] /\ verified \subseteq Run
      /\ key' \in [Run -> Nat \cup {Null}]
      /\ cur[p].run \in verified
  BY DEF List, Delete, Running, Pipeline, Proven, BInv, TypeOK, PipelineInv
<1>2. PICK label \in Label : Continue(p, label)
  BY Labels DEF List, Delete, Pipeline
<1>3. objects' \subseteq Object
  BY <1>1 DEF List, Delete
<1>4. cur' = cur \/ \E d \in SUBSET Object : cur' = [cur EXCEPT ![p].doomed = d]
  <2>1. Doomed \subseteq SUBSET Object
    BY <1>1 DEF Doomed
  <2> QED
    BY <2>1 DEF List, Delete
<1>5. cur' \in [Process -> Locals] /\ \A q \in Process : cur'[q].run = cur[q].run
  <2>1. PICK d \in SUBSET Object : cur' = cur \/ cur' = [cur EXCEPT ![p].doomed = d]
    BY <1>4
  <2> QED
    BY <1>1, <2>1, Updates
<1> QED
  BY <1>1, <1>2, <1>3, <1>5, SilentStep

-----------------------------------------------------------------------------
(* The scheduler and the smoke script. *)

LEMMA RunBegins == ASSUME BInv, Fire \/ SmokeStarts PROVE BInv'
<1>1. PICK p \in Process : Begin(p)
  BY DEF Fire, SmokeStarts, Process
<1>2. UNCHANGED <<clock, objects, key, logs, stopped, verified, smoke>>
  BY DEF Fire, SmokeStarts
<1>3. timer' \in Nat \cup {Null} /\ lastFired' \in Nat \cup {Null}
  BY DEF Fire, SmokeStarts, BInv, TypeOK
<1>4. TypeOK /\ SuccessIsVerified /\ PipelineInv
  BY DEF BInv
<1>5. /\ SuccessIsVerified' /\ PipelineInv'
      /\ pc' \in [Process -> Label] /\ cur' \in [Process -> Locals] /\ runs' \in 0..MaxRuns
  BY <1>1, <1>2, <1>4, Begins
<1> QED
  BY <1>2, <1>3, <1>4, <1>5 DEF BInv, TypeOK

LEMMA OutsideStep ==
    ASSUME BInv,
           \/ Tick \/ Boot \/ Checked \/ Stop \/ Exit \/ SmokeVerdict \/ SmokeAborts
           \/ UNCHANGED vars
    PROVE  BInv'
<1>1. UNCHANGED <<logs, runs, verified, objects, key>>
  BY DEF Tick, Boot, Checked, Stop, Exit, SmokeVerdict, SmokeAborts, vars
<1>2. pc \in [Process -> Label] /\ cur \in [Process -> Locals] /\ clock \in Nat
  BY DEF BInv, TypeOK
<1>3. \A p \in Process : Running(p)' =>
         Running(p) /\ cur'[p].run = cur[p].run /\ pc'[p] = pc[p]
  BY <1>2 DEF Tick, Boot, Checked, Stop, Exit, SmokeVerdict, SmokeAborts, vars,
              Running, Pipeline, Process
<1>4. SuccessIsVerified' /\ PipelineInv'
  <2>1. \A p \in Process : Running(p)' =>
           /\ Running(p) /\ cur'[p].run = cur[p].run
           /\ pc'[p] \in Proven => cur[p].run \in verified'
    BY <1>1, <1>3 DEF BInv, PipelineInv
  <2> QED
    BY <1>1, <2>1, Moves DEF BInv
<1>5. pc' \in [Process -> Label] /\ cur' \in [Process -> Locals]
  <2>1. CASE Tick \/ Stop \/ UNCHANGED vars
    BY <1>2, <2>1 DEF Tick, Stop, vars
  <2>2. CASE Boot \/ Checked
    BY <1>2, <2>2 DEF Boot, Checked, Process, Label
  <2>3. CASE Exit
    BY <1>2, <2>3, ConstantTypes DEF Exit, Process, Label
  <2>4. CASE SmokeVerdict
    BY <1>2, <2>4, ConstantTypes DEF SmokeVerdict, Process, Label
  <2>5. CASE SmokeAborts
    BY <1>2, <2>5, ConstantTypes DEF SmokeAborts, Process, Label
  <2> QED
    BY <2>1, <2>2, <2>3, <2>4, <2>5
<1>6. timer' \in Nat \cup {Null}
  <2>1. CASE Checked
    BY <1>2, <2>1, TimerType DEF Checked
  <2>2. CASE ~Checked
    BY <2>2 DEF Tick, Boot, Stop, Exit, SmokeVerdict, SmokeAborts, vars, BInv, TypeOK
  <2> QED
    BY <2>1, <2>2
<1>7. clock' \in Nat /\ stopped' \in BOOLEAN /\ lastFired' \in Nat \cup {Null}
  <2>1. clock' = clock \/ clock' = clock + 1
    BY Zenon DEF Tick, Boot, Checked, Stop, Exit, SmokeVerdict, SmokeAborts, vars
  <2>2. stopped \in BOOLEAN /\ lastFired \in Nat \cup {Null}
    BY DEF BInv, TypeOK
  <2>3. stopped' \in BOOLEAN
    BY <2>2 DEF Tick, Boot, Checked, Stop, Exit, SmokeVerdict, SmokeAborts, vars
  <2>4. lastFired' = lastFired
    BY Zenon DEF Tick, Boot, Checked, Stop, Exit, SmokeVerdict, SmokeAborts, vars
  <2> QED
    BY <1>2, <2>1, <2>2, <2>3, <2>4
<1>8. smoke' \in [passed: BOOLEAN, run: 0..MaxRuns]
  <2>1. CASE SmokeVerdict
    BY <1>2, <2>1 DEF SmokeVerdict, Locals, Process
  <2>2. CASE ~SmokeVerdict
    BY <2>2 DEF Tick, Boot, Checked, Stop, Exit, SmokeAborts, vars, BInv, TypeOK
  <2> QED
    BY <2>1, <2>2
<1> QED
  BY <1>1, <1>4, <1>5, <1>6, <1>7, <1>8 DEF BInv, TypeOK

LEMMA NextBInv == BInv /\ [Next]_vars => BInv'
<1> SUFFICES ASSUME BInv, [Next]_vars PROVE BInv'
  OBVIOUS
<1>1. CASE \/ Tick \/ Boot \/ Checked \/ Stop \/ Exit \/ SmokeVerdict \/ SmokeAborts
           \/ UNCHANGED vars
  BY <1>1, OutsideStep
<1>2. CASE Fire \/ SmokeStarts
  BY <1>2, RunBegins
<1>3. ASSUME NEW p \in Process,
             \/ LogStart(p) \/ Dump(p) \/ Upload(p) \/ LogUpload(p) \/ Verify(p)
             \/ List(p) \/ Delete(p) \/ LogSuccess(p) \/ LogFailed(p)
      PROVE  BInv'
  BY <1>3, LogStartStep, DumpStep, UploadStep, LogUploadStep, VerifyStep, RetentionStep,
     LastStep
<1> QED
  BY <1>1, <1>2, <1>3 DEF Next

-----------------------------------------------------------------------------
(* The rows, the objects and the pipelines are in step in every state. *)
THEOREM BackupInvariance == Spec => []BInv
  BY InitBInv, NextBInv, PTL DEF Spec

(* The variables keep their types. *)
THEOREM BackupTypeCorrect == Spec => []TypeOK
<1>1. BInv => TypeOK
  BY DEF BInv
<1> QED
  BY <1>1, BackupInvariance, PTL

(* "status='success' means the remote object was downloaded again and      *)
(* restored" (backup-scheduler.ts:13), whatever else happens.              *)
THEOREM SuccessMeansVerified == Spec => []SuccessIsVerified
<1>1. BInv => SuccessIsVerified
  BY DEF BInv
<1> QED
  BY <1>1, BackupInvariance, PTL

(* Nothing writes a finished row of backup_logs again: not the same run,   *)
(* not another one.                                                        *)
THEOREM VerdictsStand == Spec => VerdictIsFinal
<1>1. ASSUME BInv, [Next]_vars, NEW r \in Run, logs[r].status \in {"success", "failed"}
      PROVE  logs'[r] = logs[r]
  <2>1. \A p \in Process : Running(p) => cur[p].run # r
    BY <1>1 DEF BInv, PipelineInv
  <2>2. logs \in [Run -> LogRow]
    BY <1>1 DEF BInv, TypeOK
  <2>3. ASSUME NEW p \in Process,
               LogStart(p) \/ LogUpload(p) \/ LogSuccess(p) \/ LogFailed(p)
        PROVE  logs'[r] = logs[r]
    <3>1. cur[p].run # r
      BY <2>1, <2>3 DEF LogStart, LogUpload, LogSuccess, LogFailed, Running, Pipeline
    <3> QED
      BY <2>2, <2>3, <3>1 DEF LogStart, LogUpload, LogSuccess, LogFailed, WriteRow
  <2>4. CASE \/ Tick \/ Boot \/ Checked \/ Stop \/ Exit \/ SmokeVerdict \/ SmokeAborts
             \/ Fire \/ SmokeStarts \/ UNCHANGED vars
             \/ \E p \in Process : Dump(p) \/ Upload(p) \/ Verify(p) \/ List(p) \/ Delete(p)
    BY <2>4 DEF Tick, Boot, Checked, Stop, Exit, SmokeVerdict, SmokeAborts, Fire,
                SmokeStarts, vars, Dump, Upload, Verify, List, Delete
  <2> QED
    BY <1>1, <2>3, <2>4 DEF Next
<1>2. BInv /\ [Next]_vars =>
        [\A r \in Run : logs[r].status \in {"success", "failed"} => logs'[r] = logs[r]]_vars
  BY <1>1
<1> QED
  BY <1>2, BackupInvariance, PTL DEF Spec, VerdictIsFinal

(* A step of a pipeline moves nothing of the scheduler but the timer, and  *)
(* that through scheduleNext().                                            *)
LEMMA PipelineLeavesScheduler ==
    ASSUME NEW p \in Process,
           \/ LogStart(p) \/ Dump(p) \/ Upload(p) \/ LogUpload(p) \/ Verify(p)
           \/ List(p) \/ Delete(p) \/ LogSuccess(p) \/ LogFailed(p)
    PROVE  /\ Running(p)
           /\ stopped' = stopped
           /\ timer' = timer \/ timer' = ScheduleNext(TRUE)
           /\ \E label : pc' = [pc EXCEPT ![p] = label]
<1>1. Running(p)
  BY DEF LogStart, Dump, Upload, LogUpload, Verify, List, Delete, LogSuccess, LogFailed,
         Running, Pipeline
<1>2. CASE LogSuccess(p) \/ LogFailed(p)
  BY <1>1, <1>2 DEF LogSuccess, LogFailed, Finally, Goto
<1>3. CASE \E label : Continue(p, label)
  BY <1>1, <1>3 DEF Continue, Goto
<1>4. LogStart(p) \/ Dump(p) \/ Upload(p) \/ LogUpload(p) \/ Verify(p) \/ List(p) \/ Delete(p)
      => \E label : Continue(p, label)
  BY Zenon DEF LogStart, Dump, Upload, LogUpload, Verify, List, Delete, Throw
<1> QED
  BY <1>2, <1>3, <1>4

(* Once the scheduler is stopped there is no timer and none is set again,  *)
(* so no run starts: the finally block and the check at start go through   *)
(* scheduleNext(), which looks at stopped first.                           *)
THEOREM StoppedStaysIdle == Spec => NoRunOnceStopped
<1> DEFINE Idle == stopped => timer = Null
<1>1. Init => Idle
  BY DEF Init
<1>2. ASSUME BInv, Idle, [Next]_vars
      PROVE  /\ stopped => timer' = Null
             /\ stopped' /\ ~stopped => timer' = Null
             /\ stopped /\ ~Running("service") => ~Running("service")'
  <2>1. CASE Tick \/ SmokeStarts \/ SmokeVerdict \/ SmokeAborts \/ UNCHANGED vars
    <3>1. stopped' = stopped /\ timer' = timer
      BY <2>1 DEF Tick, SmokeStarts, SmokeVerdict, SmokeAborts, vars
    <3>2. pc'["service"] = pc["service"]
      BY <1>2, <2>1 DEF Tick, SmokeStarts, Begin, SmokeVerdict, SmokeAborts, vars, BInv, TypeOK,
                  Process
    <3> QED
      BY <1>2, <3>1, <3>2 DEF Running
  <2>2. CASE Boot \/ Checked \/ Stop \/ Exit
    <3>1. stopped => timer' = Null
      BY <1>2, <2>2 DEF Boot, Checked, Stop, Exit, ScheduleNext
    <3>2. stopped' /\ ~stopped => timer' = Null
      BY <2>2 DEF Boot, Checked, Stop, Exit
    <3>3. ~Running("service") => ~Running("service")'
      BY <1>2, <2>2 DEF Boot, Checked, Stop, Exit, Running, Pipeline, BInv, TypeOK, Process
    <3> QED
      BY <3>1, <3>2, <3>3
  <2>3. CASE Fire
    BY <1>2, <2>3 DEF Fire, BInv, TypeOK
  <2>4. ASSUME NEW p \in Process,
               \/ LogStart(p) \/ Dump(p) \/ Upload(p) \/ LogUpload(p) \/ Verify(p)
               \/ List(p) \/ Delete(p) \/ LogSuccess(p) \/ LogFailed(p)
        PROVE  /\ stopped => timer' = Null
               /\ stopped' /\ ~stopped => timer' = Null
               /\ ~Running("service") => ~Running("service")'
    <3>1. /\ Running(p) /\ stopped' = stopped
          /\ timer' = timer \/ timer' = ScheduleNext(TRUE)
          /\ \E label : pc' = [pc EXCEPT ![p] = label]
      BY <2>4, PipelineLeavesScheduler
    <3>2. ~Running("service") => pc'["service"] = pc["service"]
      BY <3>1
    <3> QED
      BY <1>2, <3>1, <3>2 DEF ScheduleNext, Running
  <2> QED
    BY <1>2, <2>1, <2>2, <2>3, <2>4 DEF Next
<1>3. BInv /\ Idle /\ [Next]_vars => Idle'
  BY <1>2
<1>4. BInv /\ Idle /\ [Next]_vars =>
        [stopped => /\ ~Running("service") => ~Running("service")'
                    /\ timer' = Null]_vars
  BY <1>2
<1> HIDE DEF Idle
<1> QED
  BY <1>1, <1>3, <1>4, BackupInvariance, PTL DEF Spec, NoRunOnceStopped

-----------------------------------------------------------------------------
(* Arithmetic of days and backup hours. *)

LEMMA DayBounds ==
    ASSUME NEW t \in Nat
    PROVE  /\ Day(t) \in Nat
           /\ Day(t) * DayLen \in Nat
           /\ Day(t) * DayLen <= t /\ t < Day(t) * DayLen + DayLen
<1>1. DayLen \in Nat /\ DayLen > 0
  OBVIOUS
<1>2. Day(t) \in Nat /\ t = DayLen * Day(t) + (t % DayLen) /\ t % DayLen \in 0..DayLen - 1
  BY <1>1 DEF Day
<1>3. Day(t) * DayLen = DayLen * Day(t) /\ Day(t) * DayLen \in Nat
  BY <1>1, <1>2
<1>4. t % DayLen \in Nat /\ t % DayLen < DayLen
  BY <1>1, <1>2
<1> QED
  BY <1>2, <1>3, <1>4, <1>1

LEMMA DayOfHour ==
    ASSUME NEW d \in Nat
    PROVE  Day(d * DayLen + BackupHour) = d
<1> DEFINE t == d * DayLen + BackupHour
<1>1. /\ DayLen \in Nat /\ DayLen > 0 /\ BackupHour \in Nat /\ BackupHour < DayLen
      /\ d * DayLen \in Nat /\ t \in Nat
  OBVIOUS
<1>2. /\ Day(t) \in Nat /\ Day(t) * DayLen \in Nat
      /\ Day(t) * DayLen <= t /\ t < Day(t) * DayLen + DayLen
  BY <1>1, DayBounds
<1>3. (Day(t) - d) * DayLen < DayLen /\ (d - Day(t)) * DayLen < DayLen
  BY <1>1, <1>2
<1> HIDE DEF t
<1>4. Day(t) - d < 1 /\ d - Day(t) < 1
  BY <1>1, <1>2, <1>3
<1> QED
  BY <1>2, <1>4 DEF t

(* Of two backup hours the later one is on a later day. *)
LEMMA LaterHour ==
    ASSUME NEW a \in Nat, NEW b \in Nat, AtBackupHour(a), AtBackupHour(b), a < b
    PROVE  Day(a) < Day(b)
<1>1. DayLen \in Nat /\ BackupHour \in Nat /\ Day(a) \in Nat /\ Day(b) \in Nat
  BY DayBounds
<1>2. Day(a) * DayLen < Day(b) * DayLen
  BY <1>1 DEF AtBackupHour
<1> QED
  BY <1>1, <1>2

(* msUntilNextBackup() gives a backup hour that is still to come, whether  *)
(* or not today is skipped. *)
LEMMA NextBackupIsAhead ==
    ASSUME clock \in Nat, NEW skipToday \in BOOLEAN
    PROVE  /\ NextBackup(skipToday) \in Nat /\ NextBackup(skipToday) > clock
           /\ AtBackupHour(NextBackup(skipToday))
<1>0. \A t \in Nat : /\ Day(t) \in Nat /\ Day(t) * DayLen \in Nat
                     /\ t < Day(t) * DayLen + DayLen
  BY DayBounds
<1> DEFINE today == Day(clock) * DayLen + BackupHour
           tomorrow == (Day(clock) + 1) * DayLen + BackupHour
<1>1. /\ DayLen \in Nat /\ BackupHour \in Nat /\ Day(clock) \in Nat
      /\ Day(clock) * DayLen \in Nat /\ clock < Day(clock) * DayLen + DayLen
  BY <1>0
<1>2. tomorrow = today + DayLen /\ today \in Nat /\ tomorrow \in Nat /\ tomorrow > clock
  BY <1>1
<1>3. Day(today) = Day(clock) /\ Day(tomorrow) = Day(clock) + 1
  BY <1>1, DayOfHour
<1>4. AtBackupHour(today) /\ AtBackupHour(tomorrow)
  BY <1>3 DEF AtBackupHour
<1>5. NextBackup(skipToday) = IF skipToday \/ today <= clock THEN tomorrow ELSE today
  BY <1>2 DEF NextBackup
<1> HIDE DEF today, tomorrow
<1> QED
  BY <1>2, <1>4, <1>5

-----------------------------------------------------------------------------
(* The invariant of the service. *)

(* What SchedulerInv says of the timer. *)
TimerInv ==
    /\ TimerArmed /\ HourInv
    /\ stopped => timer = Null
    /\ smoke.passed => verified # {}

LEMMA InitTimerInv == Init => TimerInv
<1> SUFFICES ASSUME Init PROVE TimerInv
  OBVIOUS
<1>1. /\ pc["service"] = "down" /\ timer = Null /\ lastFired = Null
      /\ smoke.passed = FALSE
  BY DEF Init, Process
<1> QED
  BY <1>1 DEF TimerInv, TimerArmed, HourInv

(* There is a latest row, so that the smoke script reads one of the table. *)
LEMMA LatestRun ==
    ASSUME NEW rows, rows \subseteq Run, rows # {}
    PROVE  \E r \in rows : \A q \in rows : q <= r
<1> DEFINE R == {ss \in Nat \X Nat : ss[1] < ss[2]}
           T == {MaxRuns - r : r \in rows}
<1>1. IsWellFoundedOn(R, Nat)
  BY NatLessThanWellFounded DEF OpToRel
<1>2. \A r \in rows : r \in Nat /\ MaxRuns - r \in Nat
  BY DEF Run
<1>t. T \subseteq Nat
  BY <1>2
<1>n. T # {}
  OBVIOUS
<1> HIDE DEF R
<1>3. \E x \in T : \A y \in T : <<y, x>> \notin R
  BY <1>1, <1>t, <1>n, WFMin
<1> USE DEF R
<1>4. PICK r \in rows : \A q \in rows : <<MaxRuns - q, MaxRuns - r>> \notin R
  BY <1>3
<1>5. \A q \in rows : ~(MaxRuns - q < MaxRuns - r)
  BY <1>2, <1>4
<1> QED
  BY <1>2, <1>5

(* A timer scheduleNext() has just set. *)
LEMMA ScheduledTimer ==
    ASSUME BInv, HourInv, NEW skipToday \in BOOLEAN,
           clock' = clock, lastFired' = lastFired, timer' = ScheduleNext(skipToday)
    PROVE  /\ HourInv' /\ (stopped => timer' = Null)
           /\ ~stopped => timer' # Null /\ timer' >= clock
<1>1. /\ clock \in Nat /\ lastFired \in Nat \cup {Null} /\ Null \notin Nat
  BY DEF BInv, TypeOK
<1>2. CASE stopped
  BY <1>1, <1>2 DEF ScheduleNext, HourInv, AtBackupHour, Day
<1>3. CASE ~stopped
  <2>1. /\ timer' \in Nat /\ timer' > clock /\ AtBackupHour(timer')
    BY <1>1, <1>3, NextBackupIsAhead DEF ScheduleNext
  <2>2. AtBackupHour(timer)' /\ (AtBackupHour(lastFired)' <=> AtBackupHour(lastFired))
    BY <2>1 DEF AtBackupHour, Day
  <2>3. lastFired # Null => lastFired < timer'
    BY <1>1, <2>1 DEF HourInv
  <2> QED
    BY <1>1, <1>3, <2>1, <2>2, <2>3 DEF HourInv
<1> QED
  BY <1>2, <1>3

(* Every action keeps it. *)
LEMMA NextTimerInv == BInv /\ TimerInv /\ [Next]_vars => TimerInv'
<1> SUFFICES ASSUME BInv, TimerInv, [Next]_vars
             PROVE  TimerInv'
  OBVIOUS
<1>1. /\ clock \in Nat /\ timer \in Nat \cup {Null} /\ lastFired \in Nat \cup {Null}
      /\ Null \notin Nat /\ pc \in [Process -> Label] /\ verified \subseteq Run
      /\ \A r \in Run : logs[r].status = "success" => r \in verified
  BY DEF BInv, TypeOK, SuccessIsVerified
<1> USE DEF AtBackupHour, Day
<1>2. CASE Tick
  BY <1>1, <1>2 DEF Tick, TimerInv, TimerArmed, HourInv
<1>3. CASE Boot \/ Stop \/ Exit
  BY <1>1, <1>3 DEF Boot, Stop, Exit, TimerInv, TimerArmed, HourInv, Process
<1>4. CASE Checked
  <2>1. PICK exists \in {TodayBackupExists, FALSE} : timer' = ScheduleNext(exists)
    BY <1>4 DEF Checked
  <2>2. exists \in BOOLEAN /\ clock' = clock /\ lastFired' = lastFired
    BY <1>4, <2>1 DEF Checked, TodayBackupExists
  <2>3. HourInv' /\ (stopped => timer' = Null) /\ (~stopped => timer' # Null /\ timer' >= clock)
    BY <2>1, <2>2, ScheduledTimer DEF TimerInv
  <2> QED
    BY <1>4, <2>2, <2>3 DEF Checked, TimerInv, TimerArmed
<1>5. CASE Fire
  BY <1>1, <1>5 DEF Fire, Begin, TimerInv, TimerArmed, HourInv, Process
<1>6. CASE SmokeStarts \/ SmokeAborts \/ UNCHANGED vars
  BY <1>1, <1>6 DEF SmokeStarts, SmokeAborts, Begin, vars, TimerInv, TimerArmed, HourInv, Process
<1>7. CASE SmokeVerdict
  <2>1. Latest.status = "success" => verified # {}
    <3> DEFINE rows == {r \in Run : logs[r].status # "none"}
    <3>1. CASE rows = {}
      BY <3>1 DEF Latest, NoRow
    <3>2. CASE rows # {}
      <4>1. \A r \in rows : logs[r].status = "success" => verified # {}
        BY <1>1
      <4>2. \E r \in rows : \A q \in rows : q <= r
        BY <3>2, LatestRun
      <4>3. Latest = logs[CHOOSE r \in rows : \A q \in rows : q <= r]
        BY <3>2 DEF Latest
      <4> QED
        BY <4>1, <4>2, <4>3
    <3> QED
      BY <3>1, <3>2
  <2>2. smoke'.passed => Latest.status = "success"
    BY <1>7 DEF SmokeVerdict
  <2> QED
    BY <1>1, <1>7, <2>1, <2>2 DEF SmokeVerdict, TimerInv, TimerArmed, HourInv, Process
<1>8. ASSUME NEW p \in Process, LogSuccess(p) \/ LogFailed(p)
      PROVE  TimerInv'
  <2>1. Finally(p) /\ UNCHANGED <<clock, stopped, verified, lastFired, smoke>>
    BY <1>8 DEF LogSuccess, LogFailed, Finally
  <2>2. CASE p = "service"
    <3>1. timer' = ScheduleNext(TRUE)
      BY <2>1, <2>2 DEF Finally
    <3>2. HourInv' /\ (stopped => timer' = Null)
          /\ (~stopped => timer' # Null /\ timer' >= clock)
      BY <2>1, <3>1, ScheduledTimer DEF TimerInv
    <3> QED
      BY <2>1, <3>2 DEF TimerInv, TimerArmed
  <2>3. CASE p # "service"
    <3>1. timer' = timer /\ pc'["service"] = pc["service"]
      BY <1>1, <2>1, <2>3 DEF Finally, Goto, Process
    <3> QED
      BY <2>1, <3>1 DEF TimerInv, TimerArmed, HourInv
  <2> QED
    BY <2>2, <2>3
<1>9. ASSUME NEW p \in Process,
             \/ LogStart(p) \/ Dump(p) \/ Upload(p) \/ LogUpload(p) \/ Verify(p)
             \/ List(p) \/ Delete(p)
      PROVE  TimerInv'
  <2>1. \E label \in Pipeline : Continue(p, label)
    BY <1>9 DEF LogStart, Dump, Upload, LogUpload, Verify, List, Delete, Throw, AfterVerify, Pipeline
  <2>2. UNCHANGED <<clock, timer, stopped, lastFired, smoke>>
    BY <2>1 DEF Continue
  <2>3. pc'["service"] = "ready" => pc["service"] = "ready"
    BY <1>1, <2>1 DEF Continue, Goto, Pipeline, Process
  <2>4. verified \subseteq verified'
    BY <1>9 DEF LogStart, Dump, Upload, LogUpload, Verify, List, Delete, Throw
  <2> QED
    BY <2>2, <2>3, <2>4 DEF TimerInv, TimerArmed, HourInv
<1> QED
  BY <1>2, <1>3, <1>4, <1>5, <1>6, <1>7, <1>8, <1>9 DEF Next

(* The service's run is the one it started last: only its own steps and    *)
(* its exit touch its locals, and only Fire begins a run of its. *)
LEMMA NextLastStart == BInv /\ LastStart /\ [Next]_vars => LastStart'
<1> SUFFICES ASSUME BInv, LastStart, [Next]_vars, Running("service")'
             PROVE  lastFired' = cur'["service"].began
  BY DEF LastStart
<1>1. /\ pc \in [Process -> Label] /\ cur \in [Process -> Locals] /\ "service" \in Process
      /\ \A p \in Process : p \in {"service", "manual"}
  BY DEF BInv, TypeOK, Process
<1>2. CASE Tick \/ Boot \/ Checked \/ Stop \/ Exit \/ SmokeStarts \/ SmokeVerdict \/ SmokeAborts
           \/ UNCHANGED vars
  <2>1. /\ UNCHANGED lastFired
        /\ Running("service") /\ cur'["service"] = cur["service"]
    BY <1>1, <1>2 DEF Tick, Boot, Checked, Stop, Exit, SmokeStarts, SmokeVerdict, SmokeAborts,
                      Begin, vars, Running, Pipeline
  <2> QED
    BY <2>1 DEF LastStart
<1>3. CASE Fire
  BY <1>1, <1>3 DEF Fire, Begin, NoLocals
<1>4. ASSUME NEW p \in Process, LogSuccess(p) \/ LogFailed(p)
      PROVE  lastFired' = cur'["service"].began
  <2>1. Finally(p)
    BY <1>4 DEF LogSuccess, LogFailed
  <2>2. p # "service"
    BY <1>1, <2>1 DEF Finally, Goto, Running, Pipeline
  <2>3. lastFired' = lastFired /\ Running("service") /\ cur'["service"] = cur["service"]
    BY <1>1, <2>1, <2>2 DEF Finally, Goto, Running
  <2> QED
    BY <2>3 DEF LastStart
<1>5. ASSUME NEW p \in Process,
             \/ LogStart(p) \/ Dump(p) \/ Upload(p) \/ LogUpload(p) \/ Verify(p)
             \/ List(p) \/ Delete(p)
      PROVE  lastFired' = cur'["service"].began
  <2>1. Running(p) /\ (\E label \in Pipeline : Continue(p, label))
    BY <1>5 DEF LogStart, Dump, Upload, LogUpload, Verify, List, Delete, Throw, AfterVerify, Running,
                Pipeline
  <2>2. Running("service") /\ lastFired' = lastFired
    BY <1>1, <2>1 DEF Continue, Goto, Running
  <2>3. PICK b \in BOOLEAN, d \in SUBSET Object :
          \/ cur' = cur
          \/ cur' = [cur EXCEPT ![p].logged = b]
          \/ cur' = [cur EXCEPT ![p].unverified = b]
          \/ cur' = [cur EXCEPT ![p].doomed = d]
    <3>1. CASE LogStart(p)
      BY <3>1 DEF LogStart
    <3>2. CASE List(p)
      <4>1. Doomed \subseteq SUBSET Object
        BY DEF Doomed, BInv, TypeOK
      <4> QED
        BY <3>2, <4>1 DEF List
    <3>3. CASE Dump(p) \/ Upload(p) \/ LogUpload(p) \/ Verify(p) \/ Delete(p)
      BY <3>3 DEF Dump, Upload, LogUpload, Verify, Delete, Throw
    <3> QED
      BY <1>5, <3>1, <3>2, <3>3
  <2>4. cur["service"] \in Locals
    BY <1>1
  <2>5. cur'["service"].began = cur["service"].began
    BY <1>1, <2>3, <2>4 DEF Locals
  <2> QED
    BY <2>2, <2>5 DEF LastStart
<1> QED
  BY <1>2, <1>3, <1>4, <1>5 DEF Next

LEMMA NextSchedulerInv == BInv /\ SchedulerInv /\ [Next]_vars => SchedulerInv'
  BY NextTimerInv, NextLastStart DEF SchedulerInv, TimerInv

LEMMA SchedulerInvariance == Spec => [](BInv /\ SchedulerInv)
<1>1. Init => BInv /\ SchedulerInv
  <2>1. Init => LastStart
    BY DEF Init, LastStart, Running, Pipeline, Process
  <2> QED
    BY <2>1, InitBInv, InitTimerInv DEF SchedulerInv, TimerInv
<1>2. BInv /\ SchedulerInv /\ [Next]_vars => BInv' /\ SchedulerInv'
  BY NextBInv, NextSchedulerInv
<1> QED
  BY <1>1, <1>2, PTL DEF Spec

(* The service starts at most one run a day, whatever restarts, failed     *)
(* listings and late ends of runs do to its timer.                         *)
THEOREM OncePerDay == Spec => OneRunPerDay
<1>1. ASSUME BInv, SchedulerInv, [Next]_vars, ~Running("service"), Running("service")', lastFired # Null
      PROVE  Day(lastFired) < Day(clock)
  <2>1. pc \in [Process -> Label] /\ "service" \in Process
    BY <1>1 DEF BInv, TypeOK, Process
  <2>2. CASE Fire
    BY <1>1, <2>2, LaterHour DEF Fire, SchedulerInv, HourInv, BInv, TypeOK
  <2>3. CASE \/ Tick \/ Boot \/ Checked \/ Stop \/ Exit \/ SmokeVerdict \/ SmokeAborts
             \/ SmokeStarts \/ UNCHANGED vars
    BY <1>1, <2>1, <2>3 DEF Tick, Boot, Checked, Stop, Exit, SmokeVerdict, SmokeAborts,
                            SmokeStarts, Begin, vars, Running, Pipeline
  <2>4. ASSUME NEW p \in Process,
               \/ LogStart(p) \/ Dump(p) \/ Upload(p) \/ LogUpload(p) \/ Verify(p)
               \/ List(p) \/ Delete(p) \/ LogSuccess(p) \/ LogFailed(p)
        PROVE  FALSE
    <3>1. Running(p) /\ \E label : pc' = [pc EXCEPT ![p] = label]
      BY <2>4, PipelineLeavesScheduler
    <3> QED
      BY <1>1, <2>1, <3>1 DEF Running
  <2> QED
    BY <1>1, <2>2, <2>3, <2>4 DEF Next
<1>2. BInv /\ SchedulerInv /\ [Next]_vars =>
        [~Running("service") /\ Running("service")' /\ lastFired # Null
         => Day(lastFired) < Day(clock)]_vars
  BY <1>1
<1> QED
  BY <1>2, SchedulerInvariance, PTL DEF Spec, OneRunPerDay

(* The service runs when it is due: once a day, and never after a stop.    *)
THEOREM StartsWhenDue == Spec => RunsWhenDue
  BY OncePerDay, StoppedStaysIdle DEF RunsWhenDue
-----------------------------------------------------------------------------
(* Retention. *)

(* What retention relies on and what it keeps. *)
KeepInv == ObjectInv /\ RetentionInv /\ VerifiedBackupKept

LEMMA InitKeepInv == Init => KeepInv
  BY FS_EmptySet DEF Init, KeepInv, ObjectInv, KeyInv, RetentionInv, VerifiedBackupKept,
     Running, Pipeline, Process

(* No object is named or put or removed, no run starts, and nobody gets to *)
(* the listing or to the put.                                              *)
LEMMA KeepStep ==
    ASSUME KeepInv, UNCHANGED <<clock, objects, key, verified, runs>>,
           \A p \in Process : Running(p)' =>
              /\ Running(p) /\ cur'[p].run = cur[p].run /\ cur'[p].began = cur[p].began
              /\ pc'[p] \in {"logStart", "dump"} => pc[p] \in {"logStart", "dump"}
              /\ pc'[p] = "upload" => pc[p] = "upload",
           pc'["manual"] \notin {"list", "delete"},
           pc'["service"] \in {"list", "delete"} =>
              pc["service"] \in {"list", "delete"} /\ cur'["service"] = cur["service"],
           pc'["service"] = "delete" => pc["service"] = "delete"
    PROVE  KeepInv'
<1>1. KeyInv'
  BY DEF KeepInv, ObjectInv, KeyInv
<1>2. ObjectInv'
  BY <1>1 DEF KeepInv, ObjectInv, KeyOf
<1>3. RetentionInv' /\ VerifiedBackupKept'
  BY DEF KeepInv, RetentionInv, VerifiedBackupKept, Replaced, KeyOf
<1> QED
  BY <1>2, <1>3 DEF KeepInv

(* A run that has just begun has named no object yet. *)
LEMMA KeepBegins ==
    ASSUME BInv, KeepInv, NEW p \in Process, ~Running(p), Begin(p),
           UNCHANGED <<clock, objects, key, verified>>
    PROVE  KeepInv'
<1>1. /\ runs \in Nat /\ runs' = runs + 1 /\ runs + 1 \in Run
      /\ clock \in Nat /\ MaxRun \in Nat
      /\ cur \in [Process -> Locals] /\ pc \in [Process -> Label]
      /\ pc' = [pc EXCEPT ![p] = "logStart"]
      /\ \A o \in objects : o.run \in Nat
  BY DEF Begin, BInv, TypeOK, Object, Run
<1>2. cur'[p].run = runs + 1 /\ cur'[p].began = clock
  BY <1>1 DEF Begin, NoLocals
<1>3. \A q \in Process \ {p} : cur'[q] = cur[q] /\ pc'[q] = pc[q]
  BY <1>1 DEF Begin
<1>4. pc'[p] = "logStart" /\ key[runs + 1] = Null
  BY <1>1 DEF KeepInv, ObjectInv, KeyInv
<1>5. ObjectInv'
  <2>1. ASSUME NEW q \in Process, Running(q)'
        PROVE  /\ cur'[q].began <= clock' /\ clock' <= cur'[q].began + MaxRun
               /\ pc'[q] \in {"logStart", "dump"} => KeyOf(q)' = Null
               /\ pc'[q] = "upload" => KeyOf(q)' # Null /\ cur'[q].run \notin verified'
               /\ KeyOf(q)' # Null => cur'[q].began <= KeyOf(q)' /\ KeyOf(q)' <= clock'
    <3>1. CASE q = p
      BY <1>1, <1>2, <1>4, <3>1 DEF KeyOf
    <3>2. CASE q # p
      BY <1>3, <2>1, <3>2 DEF KeepInv, ObjectInv, Running, KeyOf
    <3> QED
      BY <3>1, <3>2
  <2>2. IsFiniteSet(objects') /\ KeyInv'
    BY <1>1 DEF KeepInv, ObjectInv, KeyInv, Run
  <2> QED
    BY <2>1, <2>2 DEF ObjectInv
<1>6. RetentionInv'
  <2>1. pc'["manual"] \notin {"list", "delete"}
    BY <1>3, <1>4 DEF KeepInv, RetentionInv, Process
  <2>2. CASE p = "service"
    BY <1>4, <2>1, <2>2 DEF RetentionInv
  <2>3. CASE p # "service"
    <3>1. cur'["service"] = cur["service"] /\ pc'["service"] = pc["service"]
      BY <1>3, <2>3 DEF Process
    <3> QED
      BY <2>1, <3>1 DEF KeepInv, RetentionInv, KeyOf
  <2> QED
    BY <2>2, <2>3
<1> QED
  BY <1>5, <1>6 DEF KeepInv, VerifiedBackupKept, Replaced

(* Time passes: what was old stays old, and Tick waits for the runs. *)
LEMMA KeepTick == ASSUME BInv, KeepInv, Tick PROVE KeepInv'
<1> DEFINE P == RetentionDays * DayLen
<1>1. /\ P \in Nat /\ clock \in Nat /\ clock' = clock + 1 /\ MaxRun \in Nat
      /\ UNCHANGED <<objects, key, pc, cur, runs, verified>>
      /\ \A o \in objects : o.lastModified \in Nat
      /\ \A p \in Process : cur[p].began \in Nat
  BY DEF Tick, BInv, TypeOK, Object, Locals
<1>2. \A p \in Process : Running(p) => clock < cur[p].began + MaxRun
  BY DEF Tick
<1>3. ObjectInv'
  <2>1. \A p \in Process : Running(p) => KeyOf(p) = Null \/ KeyOf(p) \in Nat
    BY DEF BInv, PipelineInv, TypeOK, KeyOf
  <2>2. KeyInv' /\ IsFiniteSet(objects')
    BY <1>1 DEF KeepInv, ObjectInv, KeyInv
  <2>3. ASSUME NEW p \in Process, Running(p)'
        PROVE  /\ cur'[p].began <= clock' /\ clock' <= cur'[p].began + MaxRun
               /\ pc'[p] \in {"logStart", "dump"} => KeyOf(p)' = Null
               /\ pc'[p] = "upload" => KeyOf(p)' # Null /\ cur'[p].run \notin verified'
               /\ KeyOf(p)' # Null => cur'[p].began <= KeyOf(p)' /\ KeyOf(p)' <= clock'
    <3>1. Running(p) /\ KeyOf(p)' = KeyOf(p)
      BY <1>1, <2>3 DEF Running, KeyOf
    <3> QED
      BY <1>1, <1>2, <2>1, <3>1 DEF KeepInv, ObjectInv
  <2> QED
    BY <2>2, <2>3 DEF ObjectInv
<1> DEFINE doomed == cur["service"].doomed
<1>4. pc["service"] = "delete" =>
        /\ doomed \subseteq objects
        /\ \A o \in doomed : o.lastModified < clock - P
  BY DEF KeepInv, RetentionInv
<1>5. pc["service"] = "delete" => \A o \in doomed : o.lastModified < clock' - P
  <2> HIDE DEF P, doomed
  <2> QED
    BY <1>1, <1>4
<1>6. RetentionInv'
  BY <1>1, <1>5 DEF KeepInv, RetentionInv, KeyOf
<1> QED
  BY <1>1, <1>3, <1>6 DEF KeepInv, VerifiedBackupKept, Replaced

(* A statement on a row, a failure, the end of the put: the locals other   *)
(* than logged and unverified stay. *)
LEMMA KeepSilent ==
    ASSUME BInv, KeepInv, NEW p \in Process, Running(p), NEW label \in Label,
           Continue(p, label), label \notin {"logStart", "upload", "list", "delete"},
           label = "dump" => pc[p] = "logStart",
           UNCHANGED <<objects, key, verified>>,
           NEW b \in BOOLEAN,
           \/ cur' = cur
           \/ cur' = [cur EXCEPT ![p].logged = b]
           \/ cur' = [cur EXCEPT ![p].unverified = b]
    PROVE  KeepInv'
<1>1. /\ pc'[p] = label /\ \A q \in Process \ {p} : pc'[q] = pc[q]
      /\ UNCHANGED <<clock, runs>> /\ cur \in [Process -> Locals]
  BY Continues DEF BInv, TypeOK
<1>2. cur[p] \in Locals
  BY <1>1
<1>3. /\ cur'[p].run = cur[p].run /\ cur'[p].began = cur[p].began
      /\ \A q \in Process \ {p} : cur'[q] = cur[q]
  BY <1>1, <1>2 DEF Locals
<1>4. \A q \in Process : Running(q)' =>
        /\ Running(q) /\ cur'[q].run = cur[q].run /\ cur'[q].began = cur[q].began
        /\ pc'[q] \in {"logStart", "dump"} => pc[q] \in {"logStart", "dump"}
        /\ pc'[q] = "upload" => pc[q] = "upload"
  <2> TAKE q \in Process
  <2>1. CASE q = p
    BY <1>1, <1>3, <2>1
  <2>2. CASE q # p
    BY <1>1, <1>3, <2>2 DEF Running
  <2> QED
    BY <2>1, <2>2
<1>5. /\ pc'["manual"] \notin {"list", "delete"}
      /\ pc'["service"] \in {"list", "delete"} =>
           p # "service" /\ pc'["service"] = pc["service"]
  BY <1>1 DEF KeepInv, RetentionInv, Process
<1>6. p # "service" => cur'["service"] = cur["service"]
  BY <1>3 DEF Process
<1> QED
  BY <1>1, <1>4, <1>5, <1>6, KeepStep

LEMMA KeepThrow ==
    ASSUME BInv, KeepInv, NEW p \in Process, Running(p), NEW b \in BOOLEAN, Throw(p, b),
           UNCHANGED objects
    PROVE  KeepInv'
<1>1. /\ cur' = [cur EXCEPT ![p].unverified = b] /\ UNCHANGED <<key, verified>>
      /\ Continue(p, "logFailed") /\ "logFailed" \in Label
  BY DEF Throw, Label, Pipeline
<1> QED
  BY <1>1, KeepSilent

(* Naming: nobody else has the run's number, so nobody else's key moves. *)
LEMMA KeepName ==
    ASSUME BInv, KeepInv, NEW p \in Process, pc[p] = "dump", Continue(p, "upload"),
           NameObject(p), UNCHANGED <<cur, objects, verified>>
    PROVE  KeepInv'
<1> DEFINE r == cur[p].run
<1>1. /\ Running(p) /\ r \in Run /\ r <= runs /\ clock \in Nat
      /\ key \in [Run -> Nat \cup {Null}] /\ verified \subseteq Run
      /\ \A o \in objects : o.run \in Run
  BY DEF Running, Pipeline, BInv, PipelineInv, TypeOK, Object
<1>2. /\ pc'[p] = "upload" /\ \A q \in Process \ {p} : pc'[q] = pc[q]
      /\ UNCHANGED <<clock, runs>>
  BY Labels, Continues DEF BInv, Pipeline
<1>3. key[r] = Null /\ r \notin verified /\ \A o \in objects : o.run # r
  BY <1>1 DEF KeepInv, ObjectInv, KeyInv, KeyOf
<1>4. key'[r] = clock /\ \A q \in Run \ {r} : key'[q] = key[q]
  BY <1>1 DEF NameObject
<1>5. \A q \in Process \ {p} : Running(q) => cur[q].run \in Run /\ KeyOf(q)' = KeyOf(q)
  <2>1. \A q \in Process \ {p} : Running(q) => cur[q].run \in Run \ {r}
    BY <1>1 DEF BInv, PipelineInv
  <2> QED
    BY <1>4, <2>1 DEF KeyOf
<1>6. KeyOf(p)' = clock /\ clock # Null
  BY <1>1, <1>4 DEF KeyOf
<1> HIDE DEF r
<1>7. \A o \in objects : key'[o.run] = key[o.run]
  BY <1>1, <1>3, <1>4
<1>8. \A v \in verified : key'[v] = key[v]
  BY <1>1, <1>3, <1>4
<1>9. KeyInv'
  <2>1. \A q \in Run : q > runs => q # r
    BY <1>1 DEF BInv, TypeOK, Run
  <2> QED
    BY <1>2, <1>4, <1>7, <1>8, <2>1 DEF KeepInv, ObjectInv, KeyInv
<1>10. ObjectInv'
  <2>1. ASSUME NEW q \in Process, Running(q)'
        PROVE  /\ cur'[q].began <= clock' /\ clock' <= cur'[q].began + MaxRun
               /\ pc'[q] \in {"logStart", "dump"} => KeyOf(q)' = Null
               /\ pc'[q] = "upload" => KeyOf(q)' # Null /\ cur'[q].run \notin verified'
               /\ KeyOf(q)' # Null => cur'[q].began <= KeyOf(q)' /\ KeyOf(q)' <= clock'
    <3>1. CASE q = p
      BY <1>1, <1>2, <1>3, <1>6, <3>1 DEF KeepInv, ObjectInv, r
    <3>2. CASE q # p
      BY <1>2, <1>5, <2>1, <3>2 DEF KeepInv, ObjectInv, Running
    <3> QED
      BY <3>1, <3>2
  <2> QED
    BY <1>9, <2>1 DEF KeepInv, ObjectInv
<1>11. RetentionInv'
  <2>1. pc'["manual"] \notin {"list", "delete"}
    BY <1>2 DEF KeepInv, RetentionInv, Process
  <2>2. pc'["service"] \in {"list", "delete"} =>
          pc'["service"] = pc["service"] /\ KeyOf("service")' = KeyOf("service")
    BY <1>2, <1>5 DEF Process, Running, Pipeline
  <2> QED
    BY <1>2, <1>7, <2>1, <2>2 DEF KeepInv, RetentionInv
<1>12. VerifiedBackupKept'
  <2>1. \A o \in objects : Replaced(o) => Replaced(o)'
    BY <1>7, <1>8 DEF Replaced
  <2> QED
    BY <2>1 DEF KeepInv, VerifiedBackupKept
<1> QED
  BY <1>10, <1>11, <1>12 DEF KeepInv

(* A put leaves one object under the key, and at least as many objects. *)
LEMMA PutOne ==
    ASSUME BInv, KeepInv, NEW p \in Process, NEW good \in BOOLEAN, PutObject(p, good)
    PROVE  /\ IsFiniteSet(objects')
           /\ Cardinality(objects') \in Nat /\ Cardinality(objects) \in Nat
           /\ Cardinality(objects) <= Cardinality(objects')
<1> DEFINE new == [run |-> cur[p].run, lastModified |-> clock, good |-> good]
           rest == {o \in objects : key[o.run] # KeyOf(p)}
<1>1. objects' = rest \cup {new} /\ new \notin rest /\ rest \subseteq objects
  BY DEF PutObject, KeyOf
<1>2. IsFiniteSet(objects) /\ Cardinality(objects) \in Nat
  BY FS_CardinalityType DEF KeepInv, ObjectInv
<1>3. IsFiniteSet(rest) /\ Cardinality(rest) \in Nat
  BY <1>1, <1>2, FS_Subset, FS_CardinalityType
<1>4. Cardinality(objects) <= Cardinality(rest) + 1
  <2>1. CASE rest = objects
    <3> HIDE DEF rest
    <3> QED
      BY <1>2, <2>1
  <2>2. CASE rest # objects
    <3>1. PICK x \in objects : key[x.run] = KeyOf(p)
      BY <2>2
    <3>2. rest = objects \ {x}
      BY <3>1 DEF KeepInv, ObjectInv, KeyInv
    <3> HIDE DEF rest
    <3>3. Cardinality(rest) = Cardinality(objects) - 1
      BY <1>2, <3>1, <3>2, FS_RemoveElement
    <3> QED
      BY <1>2, <1>3, <3>3
  <2> QED
    BY <2>1, <2>2
<1> HIDE DEF new, rest
<1>5. IsFiniteSet(objects') /\ Cardinality(objects') = Cardinality(rest) + 1
  BY <1>1, <1>3, FS_AddElement
<1> QED
  BY <1>2, <1>3, <1>4, <1>5

(* The put may replace an object of the same second, and then the run that *)
(* was verified by that key is another one; no old object is replaced.     *)
LEMMA KeepUpload == ASSUME BInv, KeepInv, NEW p \in Process, Upload(p) PROVE KeepInv'
<1>1. Running(p) /\ pc[p] = "upload"
  BY DEF Upload, Running, Pipeline
<1>2. CASE UNCHANGED objects
  <2>1. CASE Throw(p, FALSE)
    BY <1>1, <1>2, <2>1, KeepThrow
  <2>2. CASE Continue(p, "logUpload") /\ UNCHANGED <<cur, key, verified>>
    <3>1. "logUpload" \in Label
      BY DEF Label, Pipeline
    <3> QED
      BY <1>1, <1>2, <2>2, <3>1, KeepSilent
  <2> QED
    BY <2>1, <2>2 DEF Upload
<1>3. ASSUME NEW good \in BOOLEAN, PutObject(p, good)
      PROVE  KeepInv'
  <2> DEFINE new == [run |-> cur[p].run, lastModified |-> clock, good |-> good]
             k == KeyOf(p)
  <2>1. /\ new.run = cur[p].run /\ new.lastModified = clock
        /\ objects' = {o \in objects : key[o.run] # k} \cup {new}
        /\ k = key[new.run]
    BY <1>3 DEF PutObject, KeyOf
  <2> HIDE DEF new
  <2>2. PICK label \in {"logUpload", "logFailed"} :
          /\ Continue(p, label) /\ UNCHANGED <<key, verified>>
          /\ cur' = cur \/ cur' = [cur EXCEPT ![p].unverified = FALSE]
    BY DEF Upload, Throw
  <2>3. /\ pc'[p] = label /\ \A q \in Process \ {p} : pc'[q] = pc[q]
        /\ UNCHANGED <<clock, runs>> /\ cur \in [Process -> Locals]
    BY <1>1, <2>2, Continues DEF BInv, TypeOK, Label, Pipeline
  <2>4. /\ cur'[p].run = cur[p].run /\ cur'[p].began = cur[p].began
        /\ \A q \in Process \ {p} : cur'[q] = cur[q]
    <3>1. cur[p] \in Locals
      BY <2>3
    <3> QED
      BY <2>2, <2>3, <3>1 DEF Locals
  <2>5. \A q \in Process : KeyOf(q)' = KeyOf(q)
    <3> TAKE q \in Process
    <3>1. cur'[q].run = cur[q].run
      BY <2>4
    <3> QED
      BY <2>2, <3>1 DEF KeyOf
  <2>6. /\ k \in Nat /\ k # Null /\ clock \in Nat /\ MaxRun \in Nat /\ cur[p].began \in Nat
        /\ cur[p].began <= k /\ k <= clock /\ clock <= cur[p].began + MaxRun
        /\ new.run \notin verified
    BY <1>1, <2>1, <2>3 DEF BInv, TypeOK, PipelineInv, Locals, KeepInv, ObjectInv, KeyOf
  <2> HIDE DEF k
  <2>7. KeyInv'
    <3>1. \A o \in objects' : /\ key[o.run] # Null /\ key[o.run] <= o.lastModified
                              /\ o.run \in verified => o.good
      BY <2>1, <2>6 DEF KeepInv, ObjectInv, KeyInv
    <3>2. \A o, n \in objects' : key[o.run] = key[n.run] => o = n
      BY <2>1 DEF KeepInv, ObjectInv, KeyInv
    <3> QED
      BY <2>2, <2>3, <3>1, <3>2 DEF KeepInv, ObjectInv, KeyInv
  <2>8. ObjectInv'
    <3>1. ASSUME NEW q \in Process, Running(q)'
          PROVE  /\ cur'[q].began <= clock' /\ clock' <= cur'[q].began + MaxRun
                 /\ pc'[q] \in {"logStart", "dump"} => KeyOf(q)' = Null
                 /\ pc'[q] = "upload" => KeyOf(q)' # Null /\ cur'[q].run \notin verified'
                 /\ KeyOf(q)' # Null => cur'[q].began <= KeyOf(q)' /\ KeyOf(q)' <= clock'
      <4>1. CASE q = p
        BY <1>1, <2>2, <2>3, <2>4, <2>5, <4>1 DEF KeepInv, ObjectInv
      <4>2. CASE q # p
        BY <2>2, <2>3, <2>4, <2>5, <3>1, <4>2 DEF KeepInv, ObjectInv, Running
      <4> QED
        BY <4>1, <4>2
    <3>2. IsFiniteSet(objects')
      BY <1>3, PutOne
    <3> QED
      BY <2>7, <3>1, <3>2 DEF ObjectInv
  <2>9. RetentionInv'
    <3>1. pc'["manual"] \notin {"list", "delete"}
      BY <2>2, <2>3 DEF KeepInv, RetentionInv, Process
    <3>2. pc'["service"] \in {"list", "delete"} =>
            pc'["service"] = pc["service"] /\ cur'["service"] = cur["service"]
      BY <2>2, <2>3, <2>4 DEF Process
    <3> SUFFICES ASSUME pc["service"] \in {"list", "delete"}, cur'["service"] = cur["service"]
                 PROVE  /\ \E o \in objects' : key'[o.run] = KeyOf("service")'
                        /\ pc["service"] = "delete" =>
                             LET doomed == cur["service"].doomed
                             IN  /\ doomed \subseteq objects'
                                 /\ \A o \in doomed :
                                      o.lastModified < clock - RetentionDays * DayLen
                                 /\ doomed = {} \/ Cardinality(doomed) + MinKeep
                                                     <= Cardinality(objects')
      BY <2>3, <3>1, <3>2 DEF RetentionInv
    <3>3. \E o \in objects' : key'[o.run] = KeyOf("service")'
      <4>1. PICK o \in objects : key[o.run] = KeyOf("service")
        BY DEF KeepInv, RetentionInv
      <4>2. CASE key[o.run] = k
        BY <2>1, <2>2, <2>5, <4>1, <4>2 DEF Process
      <4>3. CASE key[o.run] # k
        BY <2>1, <2>2, <2>5, <4>1, <4>3 DEF Process
      <4> QED
        BY <4>2, <4>3
    <3> DEFINE doomed == cur["service"].doomed
               P == RetentionDays * DayLen
    <3>4. ASSUME pc["service"] = "delete"
          PROVE  /\ doomed \subseteq objects'
                 /\ \A o \in doomed : o.lastModified < clock - P
                 /\ doomed = {} \/ Cardinality(doomed) + MinKeep <= Cardinality(objects')
      <4>1. /\ doomed \subseteq objects
            /\ \A o \in doomed : o.lastModified < clock - P
            /\ doomed = {} \/ Cardinality(doomed) + MinKeep <= Cardinality(objects)
        BY <3>4 DEF KeepInv, RetentionInv
      <4>2. P \in Nat /\ MaxRun < P /\ MinKeep \in Nat
        OBVIOUS
      <4>3. \A o \in objects : o.lastModified \in Nat /\ o.run \in Run
        BY DEF BInv, TypeOK, Object
      <4>4. \A o \in objects : key[o.run] \in Nat /\ key[o.run] <= o.lastModified
        BY <4>3 DEF BInv, TypeOK, KeepInv, ObjectInv, KeyInv
      <4> HIDE DEF doomed, P
      <4>5. \A o \in doomed : key[o.run] # k
        BY <2>6, <4>1, <4>2, <4>3, <4>4
      <4>6. doomed \subseteq objects'
        BY <2>1, <4>1, <4>5
      <4>7. /\ Cardinality(objects) <= Cardinality(objects')
            /\ Cardinality(objects) \in Nat /\ Cardinality(objects') \in Nat
        BY <1>3, PutOne
      <4>8. Cardinality(doomed) \in Nat
        BY <4>1, FS_Subset, FS_CardinalityType DEF KeepInv, ObjectInv
      <4> QED
        BY <4>1, <4>2, <4>6, <4>7, <4>8
    <3> QED
      BY <3>3, <3>4
  <2>10. VerifiedBackupKept'
    <3> SUFFICES ASSUME verified # {}
                 PROVE  \E o \in objects' : \/ o.run \in verified /\ o.good
                                            \/ Replaced(o)
      BY <2>2 DEF VerifiedBackupKept, Replaced
    <3>1. PICK o \in objects : \/ o.run \in verified /\ o.good
                               \/ Replaced(o)
      BY DEF KeepInv, VerifiedBackupKept
    <3>2. CASE key[o.run] # k
      BY <2>1, <3>1, <3>2
    <3>3. CASE key[o.run] = k
      <4>1. \E r \in verified : key[r] = k
        BY <3>1, <3>3 DEF Replaced
      <4>2. Replaced(new) /\ new \in objects'
        BY <2>1, <2>6, <4>1 DEF Replaced
      <4> QED
        BY <4>2
    <3> QED
      BY <3>2, <3>3
  <2> QED
    BY <2>8, <2>9, <2>10 DEF KeepInv
<1>4. UNCHANGED objects \/ \E good \in BOOLEAN : PutObject(p, good)
  BY Zenon DEF Upload
<1> QED
  BY <1>2, <1>3, <1>4

(* A verification that passes is of an object that is there: only then     *)
(* does the service go on to the retention. *)
LEMMA KeepVerify == ASSUME BInv, KeepInv, NEW p \in Process, Verify(p) PROVE KeepInv'
<1>1. Running(p) /\ UNCHANGED objects /\ cur[p].run \in Run
  BY DEF Verify, Running, Pipeline, BInv, PipelineInv
<1>2. CASE Throw(p, FALSE)
  BY <1>1, <1>2, KeepThrow
<1>3. CASE ~Throw(p, FALSE)
  <2> DEFINE r == cur[p].run
  <2>1. PICK o \in objects, passed \in BOOLEAN :
          /\ key[o.run] = KeyOf(p) /\ (passed => o.good)
          /\ Continue(p, AfterVerify(p, passed))
          /\ cur' = [cur EXCEPT ![p].unverified = ~passed]
          /\ verified' = IF passed THEN verified \cup {r} ELSE verified
          /\ UNCHANGED key
    BY <1>3 DEF Verify
  <2> DEFINE label == AfterVerify(p, passed)
  <2>2. /\ label \in Label /\ (~passed => label = "logFailed")
        /\ (p = "manual" => label \notin {"list", "delete"}) /\ label # "delete"
        /\ label \notin {"logStart", "dump", "upload"}
    BY Labels DEF AfterVerify, Pipeline
  <2>3. Continue(p, label)
    BY <2>1
  <2> HIDE DEF label
  <2>4. /\ pc'[p] = label /\ \A q \in Process \ {p} : pc'[q] = pc[q]
        /\ UNCHANGED <<clock, runs>> /\ cur \in [Process -> Locals]
    BY <2>2, <2>3, Continues DEF BInv, TypeOK
  <2>5. /\ cur'[p].run = cur[p].run /\ cur'[p].began = cur[p].began
        /\ \A q \in Process \ {p} : cur'[q] = cur[q]
    <3>1. cur[p] \in Locals
      BY <2>4
    <3> QED
      BY <2>1, <2>4, <3>1 DEF Locals
  <2>6. \A q \in Process : KeyOf(q)' = KeyOf(q)
    <3> TAKE q \in Process
    <3>1. cur'[q].run = cur[q].run
      BY <2>5
    <3> QED
      BY <2>1, <3>1 DEF KeyOf
  <2>7. key[r] = KeyOf(p) /\ key[o.run] # Null
    BY <2>1 DEF KeyOf, KeepInv, ObjectInv, KeyInv
  <2>8. /\ verified \subseteq verified' /\ verified' \subseteq verified \cup {r}
        /\ passed => r \in verified'
        /\ ~passed => verified' = verified
    BY <2>1
  <2>9. KeyInv'
    <3>1. \A v \in verified' : key[v] # Null
      BY <2>1, <2>7, <2>8 DEF KeepInv, ObjectInv, KeyInv
    <3>2. ASSUME NEW n \in objects, n.run \in verified' PROVE n.good
      <4>1. CASE n.run \in verified
        BY <4>1 DEF KeepInv, ObjectInv, KeyInv
      <4>2. CASE n.run \notin verified
        <5>1. n.run = r /\ passed
          BY <2>8, <3>2, <4>2
        <5>2. n = o
          BY <2>1, <2>7, <5>1 DEF KeepInv, ObjectInv, KeyInv
        <5> QED
          BY <2>1, <5>1, <5>2
      <4> QED
        BY <4>1, <4>2
    <3> QED
      BY <1>1, <2>1, <2>4, <3>1, <3>2 DEF KeepInv, ObjectInv, KeyInv
  <2>10. ObjectInv'
    <3>1. ASSUME NEW q \in Process, Running(q)'
          PROVE  /\ cur'[q].began <= clock' /\ clock' <= cur'[q].began + MaxRun
                 /\ pc'[q] \in {"logStart", "dump"} => KeyOf(q)' = Null
                 /\ pc'[q] = "upload" => KeyOf(q)' # Null /\ cur'[q].run \notin verified'
                 /\ KeyOf(q)' # Null => cur'[q].began <= KeyOf(q)' /\ KeyOf(q)' <= clock'
      <4>1. CASE q = p
        BY <1>1, <2>2, <2>4, <2>5, <2>6, <4>1 DEF KeepInv, ObjectInv
      <4>2. CASE q # p
        <5>1. Running(q) /\ cur[q].run # r /\ cur'[q] = cur[q] /\ pc'[q] = pc[q]
          BY <1>1, <2>4, <2>5, <3>1, <4>2 DEF Running, BInv, PipelineInv
        <5> QED
          BY <2>4, <2>6, <2>8, <5>1 DEF KeepInv, ObjectInv
      <4> QED
        BY <4>1, <4>2
    <3> QED
      BY <1>1, <2>9, <3>1 DEF KeepInv, ObjectInv
  <2>11. RetentionInv'
    <3>1. pc'["manual"] \notin {"list", "delete"}
      BY <2>2, <2>4 DEF KeepInv, RetentionInv, Process
    <3>2. CASE p = "service"
      BY <1>1, <2>1, <2>2, <2>4, <2>6, <3>1, <3>2 DEF RetentionInv
    <3>3. CASE p # "service"
      <4>1. /\ pc'["service"] = pc["service"] /\ cur'["service"] = cur["service"]
            /\ KeyOf("service")' = KeyOf("service")
        BY <2>4, <2>5, <2>6, <3>3 DEF Process
      <4> QED
        BY <1>1, <2>1, <2>4, <3>1, <4>1 DEF KeepInv, RetentionInv
    <3> QED
      BY <3>2, <3>3
  <2>12. VerifiedBackupKept'
    <3>1. CASE ~passed
      BY <1>1, <2>1, <2>8, <3>1 DEF KeepInv, VerifiedBackupKept, Replaced
    <3>2. CASE passed
      <4>1. CASE o.run = r
        BY <1>1, <2>1, <2>8, <3>2, <4>1 DEF VerifiedBackupKept
      <4>2. CASE o.run # r
        BY <1>1, <2>1, <2>7, <2>8, <3>2, <4>2 DEF VerifiedBackupKept, Replaced
      <4> QED
        BY <4>1, <4>2
    <3> QED
      BY <3>1, <3>2
  <2> QED
    BY <2>10, <2>11, <2>12 DEF KeepInv
<1> QED
  BY <1>2, <1>3

(* What applyRetention() chooses: past the period, and MinKeep stay. *)
LEMMA DoomedChoice ==
    ASSUME IsFiniteSet(objects), NEW d \in Doomed
    PROVE  /\ d \subseteq objects
           /\ \A o \in d : TooOld(o)
           /\ d = {} \/ Cardinality(d) + MinKeep <= Cardinality(objects)
<1> DEFINE old == {o \in objects : TooOld(o)}
           spare == Cardinality(objects) - MinKeep
<1>1. d \subseteq old /\ old \subseteq objects /\ MinKeep \in Nat
  BY DEF Doomed
<1>2. /\ IsFiniteSet(old) /\ IsFiniteSet(d)
      /\ Cardinality(objects) \in Nat /\ Cardinality(old) \in Nat /\ Cardinality(d) \in Nat
  BY <1>1, FS_Subset, FS_CardinalityType
<1>3. Cardinality(d) = IF spare <= 0 THEN 0
                       ELSE IF Cardinality(old) < spare THEN Cardinality(old) ELSE spare
  BY DEF Doomed
<1> HIDE DEF old
<1>4. Cardinality(d) = 0 \/ Cardinality(d) + MinKeep <= Cardinality(objects)
  BY <1>1, <1>2, <1>3
<1>5. Cardinality(d) = 0 => d = {}
  BY <1>2, FS_EmptySet
<1>6. d \subseteq objects /\ \A o \in d : TooOld(o)
  BY <1>1 DEF old
<1> QED
  BY <1>4, <1>5, <1>6

LEMMA KeepList == ASSUME BInv, KeepInv, NEW p \in Process, List(p) PROVE KeepInv'
<1>1. /\ Running(p) /\ UNCHANGED <<objects, key, logs, verified>>
      /\ pc[p] = "list" /\ p = "service"
  BY DEF List, Running, Pipeline, KeepInv, RetentionInv, Process
<1>2. CASE Continue(p, "logSuccess") /\ UNCHANGED cur
  <2>1. "logSuccess" \in Label
    BY DEF Label, Pipeline
  <2> QED
    BY <1>1, <1>2, <2>1, KeepSilent
<1>3. CASE \E d \in Doomed : Continue(p, "delete") /\ cur' = [cur EXCEPT ![p].doomed = d]
  <2>1. PICK d \in Doomed : Continue(p, "delete") /\ cur' = [cur EXCEPT ![p].doomed = d]
    BY <1>3
  <2>2. /\ pc'[p] = "delete" /\ \A q \in Process \ {p} : pc'[q] = pc[q]
        /\ UNCHANGED <<clock, runs>> /\ cur \in [Process -> Locals]
    BY <2>1, Labels, Continues DEF BInv, TypeOK, Pipeline
  <2>3. /\ cur'[p].run = cur[p].run /\ cur'[p].began = cur[p].began /\ cur'[p].doomed = d
        /\ \A q \in Process \ {p} : cur'[q] = cur[q]
    <3>1. cur[p] \in Locals
      BY <2>2
    <3> QED
      BY <2>1, <2>2, <3>1 DEF Locals
  <2>4. \A q \in Process : Running(q)' =>
          /\ Running(q) /\ cur'[q].run = cur[q].run /\ cur'[q].began = cur[q].began
          /\ pc'[q] \in {"logStart", "dump", "upload"} => pc'[q] = pc[q]
          /\ KeyOf(q)' = KeyOf(q)
    <3> TAKE q \in Process
    <3>1. CASE q = p
      BY <1>1, <2>2, <2>3, <3>1 DEF KeyOf
    <3>2. CASE q # p
      BY <1>1, <2>2, <2>3, <3>2 DEF Running, KeyOf
    <3> QED
      BY <3>1, <3>2
  <2>5. ObjectInv'
    BY <1>1, <2>2, <2>4 DEF KeepInv, ObjectInv, KeyInv
  <2>6. /\ d \subseteq objects
        /\ \A o \in d : o.lastModified < clock - RetentionDays * DayLen
        /\ d = {} \/ Cardinality(d) + MinKeep <= Cardinality(objects)
    BY DoomedChoice DEF KeepInv, ObjectInv, TooOld
  <2>7. pc'["manual"] \notin {"list", "delete"}
    BY <1>1, <2>2 DEF KeepInv, RetentionInv, Process
  <2>8. RetentionInv'
    BY <1>1, <2>2, <2>3, <2>6, <2>7 DEF KeepInv, RetentionInv, KeyOf
  <2> QED
    BY <1>1, <2>5, <2>8 DEF KeepInv, VerifiedBackupKept, Replaced
<1> QED
  BY <1>2, <1>3 DEF List

(* Deleting: the listing is older than the requests, but all of it is      *)
(* still there under its keys, past the period, and the object under the   *)
(* key of the run is not in it.                                            *)
LEMMA DeleteKeeps ==
    ASSUME BInv, KeepInv, NEW p \in Process, Delete(p)
    PROVE  /\ objects' \subseteq objects
           /\ p = "service" /\ pc[p] = "delete"
           /\ \E o \in objects' : /\ key[o.run] = KeyOf(p)
                                  /\ (o.run \in verified /\ o.good) \/ Replaced(o)
           /\ \A o \in objects \ objects' : o.lastModified < clock - RetentionDays * DayLen
           /\ objects' # objects => Cardinality(objects') >= MinKeep
           /\ IsFiniteSet(objects')
<1>1. pc[p] = "delete" /\ p = "service" /\ Running(p) /\ cur[p].run \in verified
  BY DEF Delete, KeepInv, RetentionInv, Process, Running, Pipeline, BInv, PipelineInv, Proven
<1> DEFINE doomed == cur[p].doomed
<1>2. /\ doomed \subseteq objects
      /\ \A o \in doomed : o.lastModified < clock - RetentionDays * DayLen
      /\ doomed = {} \/ Cardinality(doomed) + MinKeep <= Cardinality(objects)
  BY <1>1 DEF KeepInv, RetentionInv
<1>3. PICK gone \in SUBSET doomed : objects' = objects \ gone
  <2>1. PICK gone \in SUBSET doomed :
          objects' = {o \in objects : \A d \in gone : key[d.run] # key[o.run]}
    BY DEF Delete
  <2>2. \A o \in objects : (\E d \in gone : key[d.run] = key[o.run]) <=> o \in gone
    <3>1. \A o, d \in objects : key[o.run] = key[d.run] => o = d
      BY DEF KeepInv, ObjectInv, KeyInv
    <3> QED
      BY <1>2, <2>1, <3>1
  <2>3. objects' = objects \ gone
    BY <2>1, <2>2
  <2> QED
    BY <2>3
<1>4. PICK own \in objects : key[own.run] = KeyOf(p)
  BY <1>1 DEF KeepInv, RetentionInv
<1> HIDE DEF doomed
<1>5. own \notin doomed
  <2> DEFINE P == RetentionDays * DayLen
  <2>1. /\ P \in Nat /\ MaxRun \in Nat /\ MaxRun < P /\ clock \in Nat
        /\ own.lastModified \in Nat /\ cur[p].began \in Nat
    BY DEF BInv, TypeOK, Object, Locals
  <2>2. /\ KeyOf(p) \in Nat /\ cur[p].began <= KeyOf(p) /\ KeyOf(p) <= own.lastModified
        /\ clock <= cur[p].began + MaxRun
    <3>1. own.run \in Run /\ KeyOf(p) # Null /\ KeyOf(p) <= own.lastModified
      BY <1>4 DEF KeepInv, ObjectInv, KeyInv, BInv, TypeOK, Object
    <3>2. KeyOf(p) \in Nat
      BY <1>4, <3>1 DEF BInv, TypeOK
    <3> QED
      BY <1>1, <3>1, <3>2 DEF KeepInv, ObjectInv
  <2>3. own \in doomed => own.lastModified < clock - P
    BY <1>2
  <2> HIDE DEF P
  <2> QED
    BY <2>1, <2>2, <2>3
<1>6. own \in objects' /\ ((own.run \in verified /\ own.good) \/ Replaced(own))
  <2>1. own \in objects'
    BY <1>3, <1>4, <1>5
  <2>2. CASE own.run = cur[p].run
    BY <1>1, <1>4, <2>1, <2>2 DEF KeepInv, ObjectInv, KeyInv
  <2>3. CASE own.run # cur[p].run
    BY <1>1, <1>4, <2>1, <2>3 DEF Replaced, KeyOf
  <2> QED
    BY <2>2, <2>3
<1>7. objects \ objects' \subseteq doomed /\ objects' \subseteq objects
  BY <1>3
<1>8. /\ IsFiniteSet(objects) /\ IsFiniteSet(objects') /\ IsFiniteSet(doomed)
      /\ Cardinality(objects) \in Nat /\ Cardinality(objects') \in Nat
      /\ Cardinality(doomed) \in Nat
  BY <1>2, <1>7, FS_Subset, FS_CardinalityType DEF KeepInv, ObjectInv
<1>9. objects' # objects => Cardinality(objects') >= MinKeep
  <2> SUFFICES ASSUME objects' # objects PROVE Cardinality(objects') >= MinKeep
    OBVIOUS
  <2>1. doomed # {} /\ MinKeep \in Nat
    BY <1>3
  <2>2. Cardinality(doomed) + MinKeep <= Cardinality(objects)
    BY <1>2, <2>1
  <2>3. objects \cap doomed = doomed /\ objects \ doomed \subseteq objects'
    BY <1>2, <1>3
  <2>4. Cardinality(objects \ doomed) = Cardinality(objects) - Cardinality(doomed)
    BY <1>8, <2>3, FS_Difference
  <2>5. Cardinality(objects \ doomed) <= Cardinality(objects')
    BY <1>8, <2>3, FS_Subset
  <2> QED
    BY <1>8, <2>1, <2>2, <2>4, <2>5
<1> QED
  BY <1>1, <1>2, <1>4, <1>6, <1>7, <1>8, <1>9

LEMMA KeepDelete == ASSUME BInv, KeepInv, NEW p \in Process, Delete(p) PROVE KeepInv'
<1>1. /\ objects' \subseteq objects /\ p = "service" /\ pc[p] = "delete"
      /\ \E o \in objects' : (o.run \in verified /\ o.good) \/ Replaced(o)
      /\ IsFiniteSet(objects')
  BY DeleteKeeps
<1>2. /\ Continue(p, "logSuccess") /\ UNCHANGED <<key, logs, cur, verified>>
      /\ "logSuccess" \in Label
  BY DEF Delete, Label, Pipeline
<1>3. /\ pc'[p] = "logSuccess" /\ \A q \in Process \ {p} : pc'[q] = pc[q]
      /\ UNCHANGED <<clock, runs>>
  BY <1>2, Continues DEF BInv
<1>4. \A q \in Process : Running(q)' => Running(q)
  BY <1>1, <1>3 DEF Running, Pipeline
<1>5. ObjectInv'
  <2>1. KeyInv'
    BY <1>1, <1>2, <1>3 DEF KeepInv, ObjectInv, KeyInv
  <2> QED
    BY <1>1, <1>2, <1>3, <1>4, <2>1 DEF KeepInv, ObjectInv, KeyOf
<1>6. RetentionInv'
  BY <1>1, <1>3 DEF KeepInv, RetentionInv, Process
<1> QED
  BY <1>1, <1>2, <1>5, <1>6 DEF KeepInv, VerifiedBackupKept, Replaced

LEMMA NextKeepInv == BInv /\ KeepInv /\ [Next]_vars => KeepInv'
<1> SUFFICES ASSUME BInv, KeepInv, [Next]_vars PROVE KeepInv'
  OBVIOUS
<1>1. pc \in [Process -> Label] /\ cur \in [Process -> Locals]
  BY DEF BInv, TypeOK
<1>2. CASE Tick
  BY <1>2, KeepTick
<1>3. CASE Boot \/ Checked \/ Stop \/ Exit \/ SmokeVerdict \/ SmokeAborts \/ UNCHANGED vars
  <2>1. UNCHANGED <<clock, objects, key, verified, runs>>
    BY <1>3 DEF Boot, Checked, Stop, Exit, SmokeVerdict, SmokeAborts, vars
  <2>2. \A p \in Process : Running(p)' => Running(p) /\ cur'[p] = cur[p] /\ pc'[p] = pc[p]
    BY <1>1, <1>3 DEF Boot, Checked, Stop, Exit, SmokeVerdict, SmokeAborts, vars, Running, Pipeline
  <2>3. /\ pc'["manual"] \notin {"list", "delete"}
        /\ pc'["service"] \in {"list", "delete"} =>
             pc'["service"] = pc["service"] /\ cur'["service"] = cur["service"]
    BY <2>2 DEF Running, Pipeline, Process, KeepInv, RetentionInv
  <2> QED
    BY <2>1, <2>2, <2>3, KeepStep
<1>4. CASE Fire
  BY <1>4, KeepBegins DEF Fire, Running, Pipeline, Process
<1>5. CASE SmokeStarts
  BY <1>5, KeepBegins DEF SmokeStarts, Running, Pipeline, Process
<1>6. ASSUME NEW p \in Process, LogStart(p) \/ Dump(p) \/ LogUpload(p)
      PROVE  KeepInv'
  <2>1. /\ Running(p) /\ UNCHANGED <<objects, verified>>
        /\ (LogStart(p) \/ LogUpload(p)) => UNCHANGED key
        /\ "dump" \in Label /\ "upload" \in Label /\ "verify" \in Label
    BY <1>6, Labels DEF LogStart, Dump, LogUpload, Throw, Running, Pipeline
  <2>2. CASE LogStart(p)
    BY <2>1, <2>2, KeepSilent DEF LogStart
  <2>3. CASE LogUpload(p)
    BY <2>1, <2>3, KeepSilent DEF LogUpload
  <2>4. CASE Dump(p)
    <3>1. CASE Throw(p, FALSE)
      BY <2>1, <3>1, KeepThrow
    <3>2. CASE Continue(p, "upload") /\ NameObject(p) /\ UNCHANGED <<cur, verified>>
      BY <2>1, <2>4, <3>2, KeepName DEF Dump
    <3> QED
      BY <2>4, <3>1, <3>2 DEF Dump
  <2> QED
    BY <1>6, <2>2, <2>3, <2>4
<1>7. ASSUME NEW p \in Process, LogSuccess(p) \/ LogFailed(p)
      PROVE  KeepInv'
  <2>1. Finally(p)
    BY <1>7 DEF LogSuccess, LogFailed
  <2>2. \A q \in Process : Running(q)' => Running(q) /\ cur'[q] = cur[q] /\ pc'[q] = pc[q]
    BY <1>1, <2>1 DEF Finally, Goto, Running, Pipeline
  <2>3. /\ pc'["manual"] \notin {"list", "delete"}
        /\ pc'["service"] \in {"list", "delete"} =>
             pc'["service"] = pc["service"] /\ cur'["service"] = cur["service"]
    BY <2>2 DEF Running, Pipeline, Process, KeepInv, RetentionInv
  <2> QED
    BY <2>1, <2>2, <2>3, KeepStep DEF Finally
<1> QED
  BY <1>2, <1>3, <1>4, <1>5, <1>6, <1>7, KeepUpload, KeepVerify, KeepList, KeepDelete DEF Next

(* The invariant of the service, as the runs check it, with what retention *)
(* keeps. *)
LEMMA FullInvariance == Spec => [](BInv /\ SchedulerInv /\ KeepInv)
<1>1. Init => KeepInv
  BY InitKeepInv
<1>2. BInv /\ KeepInv /\ [Next]_vars => KeepInv'
  BY NextKeepInv
<1> QED
  BY <1>1, <1>2, SchedulerInvariance, PTL DEF Spec

(* The rows tell the truth, the service always has its timer, and what     *)
(* retention is about to delete is old, there, and enough is left. *)
THEOREM ServiceInvariance == Spec => []ServiceInv
<1>1. BInv /\ SchedulerInv /\ KeepInv => ServiceInv
  BY DEF ServiceInv, KeepInv
<1> QED
  BY <1>1, FullInvariance, PTL

(* Once a backup has passed verification R2 never is without a good one    *)
(* that has, whatever the retention deletes and whoever else uploads,      *)
(* unless a run that named its object in the same second replaced it.      *)
THEOREM SomeVerifiedBackup == Spec => []VerifiedBackupKept
<1>1. BInv /\ SchedulerInv /\ KeepInv => VerifiedBackupKept
  BY DEF KeepInv
<1> QED
  BY <1>1, FullInvariance, PTL

(* Every deletion is past the retention period and leaves MinKeep objects, *)
(* although the listing it works from is stale; a put that replaces an     *)
(* object leaves its key. *)
THEOREM RetentionIsSafe == Spec => RetentionKeepsYoung
<1>1. ASSUME BInv, KeepInv, [Next]_vars, NEW o \in objects,
             \A n \in objects' : key[n.run] # key[o.run]
      PROVE  /\ o.lastModified < clock - RetentionDays * DayLen
             /\ Cardinality(objects') >= MinKeep
  <2>1. o \notin objects'
    BY <1>1
  <2>2. PICK p \in Process : Delete(p)
    <3>1. CASE Tick \/ Boot \/ Checked \/ Fire \/ Stop \/ Exit \/ SmokeStarts \/ SmokeVerdict
               \/ SmokeAborts \/ UNCHANGED vars
      BY <1>1, <2>1, <3>1 DEF Tick, Boot, Checked, Fire, Stop, Exit, SmokeStarts, SmokeVerdict,
                              SmokeAborts, vars
    <3>2. ASSUME NEW p \in Process,
                 \/ LogStart(p) \/ Dump(p) \/ LogUpload(p) \/ Verify(p) \/ List(p)
                 \/ LogSuccess(p) \/ LogFailed(p)
          PROVE  FALSE
      BY <1>1, <2>1, <3>2 DEF LogStart, Dump, LogUpload, Verify, List, LogSuccess, LogFailed, Finally
    <3>3. ASSUME NEW p \in Process, Upload(p) PROVE FALSE
      <4>1. PICK good \in BOOLEAN : PutObject(p, good)
        BY <1>1, <2>1, <3>3 DEF Upload
      <4> DEFINE new == [run |-> cur[p].run, lastModified |-> clock, good |-> good]
      <4>2. /\ new \in objects' /\ key[new.run] = KeyOf(p)
            /\ key[o.run] # KeyOf(p) => o \in objects'
        BY <1>1, <4>1 DEF PutObject, KeyOf
      <4> QED
        BY <1>1, <2>1, <4>2
    <3> QED
      BY <1>1, <3>1, <3>2, <3>3 DEF Next
  <2> QED
    BY <1>1, <2>1, <2>2, DeleteKeeps
<1>2. BInv /\ SchedulerInv /\ KeepInv /\ [Next]_vars =>
        [\A o \in objects :
           (\A n \in objects' : key[n.run] # key[o.run]) =>
              /\ o.lastModified < clock - RetentionDays * DayLen
              /\ Cardinality(objects') >= MinKeep]_vars
  BY <1>1
<1> QED
  BY <1>2, FullInvariance, PTL DEF Spec, RetentionKeepsYoung

(* A run that ends schedules the next one for the same hour of the next    *)
(* day, provided no run reaches past midnight: skipToday is about the day  *)
(* on which the run ends. *)
THEOREM NextDay ==
    ASSUME BackupHour + MaxRun < DayLen PROVE Spec => NextRunIsTomorrow
<1>1. ASSUME BInv, SchedulerInv, KeepInv, [Next]_vars,
             Running("service"), pc'["service"] = "ready", ~stopped
      PROVE  timer' = lastFired + DayLen
  <2>1. pc \in [Process -> Label] /\ "service" \in Process /\ clock \in Nat
    BY <1>1 DEF BInv, TypeOK, Process
  <2>2. timer' = ScheduleNext(TRUE)
    <3>1. ~(Tick \/ Boot \/ Checked \/ Stop \/ Exit \/ Fire \/ SmokeStarts \/ SmokeVerdict
            \/ SmokeAborts \/ UNCHANGED vars)
      BY <1>1, <2>1 DEF Tick, Boot, Checked, Fire, Stop, Exit, SmokeStarts, SmokeVerdict, SmokeAborts,
                        Begin, vars, Running, Pipeline
    <3>2. ASSUME NEW p \in Process,
                 \/ LogStart(p) \/ Dump(p) \/ Upload(p) \/ LogUpload(p) \/ Verify(p)
                 \/ List(p) \/ Delete(p)
          PROVE  FALSE
      <4>1. \E label \in Pipeline : Continue(p, label)
        BY <3>2 DEF LogStart, Dump, Upload, LogUpload, Verify, List, Delete, Throw, AfterVerify, Pipeline
      <4> QED
        BY <1>1, <2>1, <4>1 DEF Continue, Goto, Running, Pipeline
    <3>3. PICK p \in Process : LogSuccess(p) \/ LogFailed(p)
      BY <1>1, <3>1, <3>2 DEF Next
    <3>4. Finally(p)
      BY <3>3 DEF LogSuccess, LogFailed
    <3>5. p = "service"
      BY <1>1, <2>1, <3>4 DEF Finally, Goto, Running, Pipeline
    <3> QED
      BY <3>4, <3>5 DEF Finally
  <2>3. /\ lastFired \in Nat /\ AtBackupHour(lastFired)
        /\ lastFired <= clock /\ clock <= lastFired + MaxRun
    <3>1. cur["service"].began \in Nat /\ lastFired = cur["service"].began
      BY <1>1, <2>1 DEF BInv, TypeOK, Locals, SchedulerInv, LastStart
    <3> QED
      BY <1>1, <2>1, <3>1 DEF SchedulerInv, HourInv, KeepInv, ObjectInv
  <2>4. timer' = Day(clock) * DayLen + BackupHour + DayLen
    BY <1>1, <2>2 DEF ScheduleNext, NextBackup
  <2>5. /\ DayLen \in Nat /\ BackupHour \in Nat /\ MaxRun \in Nat
        /\ Day(clock) \in Nat /\ Day(lastFired) \in Nat
        /\ Day(clock) * DayLen \in Nat /\ Day(lastFired) * DayLen \in Nat
        /\ Day(clock) * DayLen <= clock /\ clock < Day(clock) * DayLen + DayLen
        /\ lastFired = Day(lastFired) * DayLen + BackupHour
    <3>1. \A t \in Nat : /\ Day(t) \in Nat /\ Day(t) * DayLen \in Nat
                         /\ Day(t) * DayLen <= t /\ t < Day(t) * DayLen + DayLen
      BY DayBounds
    <3>2. lastFired = Day(lastFired) * DayLen + BackupHour
      BY <2>3 DEF AtBackupHour
    <3>3. DayLen \in Nat /\ BackupHour \in Nat /\ MaxRun \in Nat
      OBVIOUS
    <3> QED
      BY <2>1, <2>3, <3>1, <3>2, <3>3
  <2>6. Day(clock) = Day(lastFired)
    <3>1. \A d, e \in Nat : d * DayLen < e * DayLen + DayLen => d <= e
      <4> SUFFICES ASSUME NEW d \in Nat, NEW e \in Nat, d * DayLen < e * DayLen + DayLen
                   PROVE  d <= e
        OBVIOUS
      <4>1. (d - e) * DayLen < DayLen /\ DayLen \in Nat /\ DayLen > 0
        BY <2>5
      <4> QED
        BY <4>1
    <3>2. Day(clock) * DayLen < Day(lastFired) * DayLen + DayLen
      BY <2>1, <2>3, <2>5
    <3>3. Day(lastFired) * DayLen < Day(clock) * DayLen + DayLen
      BY <2>1, <2>3, <2>5
    <3> QED
      BY <2>5, <3>1, <3>2, <3>3
  <2> QED
    BY <2>4, <2>5, <2>6
<1>2. BInv /\ SchedulerInv /\ KeepInv /\ [Next]_vars =>
        [Running("service") /\ pc'["service"] = "ready" /\ ~stopped
         => timer' = lastFired + DayLen]_vars
  BY <1>1
<1> QED
  BY <1>2, FullInvariance, PTL DEF Spec, NextRunIsTomorrow
=============================================================================

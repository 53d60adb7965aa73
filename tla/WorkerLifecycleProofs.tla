------------------------ MODULE WorkerLifecycleProofs ------------------------
(***************************************************************************)
(* Proofs about WorkerLifecycle for every set of jobs, every retry and     *)
(* poll limit and every number of faults: its invariant, what a step may   *)
(* never do, and that the main loop implements LeasedJobs.                 *)
(***************************************************************************)
EXTENDS WorkerLifecycle, TLAPS

USE ConstantsAssumption

-----------------------------------------------------------------------------
(* The rows the statements write are rows. *)

LEMMA FailedRowType ==
    ASSUME NEW r \in Row, r.retryCount < MaxRetries
    PROVE  /\ FailedRow(r) \in Row
           /\ FailedRow(r).retryCount = r.retryCount + 1
           /\ FailedRow(r).status =
                IF r.retryCount + 1 < MaxRetries THEN "failed" ELSE "dead_letter"
<1>1. r.retryCount + 1 \in 0..MaxRetries
  BY DEF Row
<1> DEFINE status == IF r.retryCount + 1 >= MaxRetries THEN "dead_letter" ELSE "failed"
<1>2. status \in {"absent", "queued", "processing", "failed"} \cup Terminal
  BY DEF Terminal
<1>3. status = IF r.retryCount + 1 < MaxRetries THEN "failed" ELSE "dead_letter"
  BY DEF Row
<1>4. FailedRow(r) = [r EXCEPT !.retryCount = r.retryCount + 1, !.expired = FALSE,
                               !.status = status]
  BY DEF FailedRow
<1> HIDE DEF status
<1> QED
  BY <1>1, <1>2, <1>3, <1>4 DEF Row

LEMMA RequeuedType ==
    ASSUME NEW r \in Row
    PROVE  /\ Requeued(r) \in Row
           /\ Requeued(r).retryCount = r.retryCount /\ Requeued(r).status = "queued"
  BY DEF Requeued, Row, Terminal

(* The head of the loop is never an iteration of it. *)
LEMMA LoopHeadIs ==
    /\ LoopHead \in {"ended", "pause", "claim"}
    /\ ~running => LoopHead = "ended"
  BY DEF LoopHead

-----------------------------------------------------------------------------
(* Steps that write one row: what is left to show of the invariant.        *)

LEMMA RowStep ==
    ASSUME TypeOK, RetryInv, NEW j \in Job, NEW r \in Row,
           row' = [row EXCEPT ![j] = r],
           r.retryCount = MaxRetries <=> r.status = "dead_letter"
    PROVE  /\ row' \in [Job -> Row] /\ RetryInv'
           /\ row'[j] = r /\ \A k \in Job \ {j} : row'[k] = row[k]
  BY Zenon DEF TypeOK, RetryInv

LEMMA SameRows ==
    ASSUME TypeOK, RetryInv, row' = row
    PROVE  row' \in [Job -> Row] /\ RetryInv'
  BY DEF TypeOK, RetryInv

(* A step that touches nothing of the process. *)
LEMMA OutsideStep ==
    ASSUME WorkerInv, row' \in [Job -> Row], RetryInv', UNCHANGED processVars,
           diskLow' \in BOOLEAN, lastExit' = lastExit, faults' \in 0..MaxFaults
    PROVE  WorkerInv'
  BY DEF WorkerInv, TypeOK, LoopInv, StopInv, Up, processVars, loopVars, stopVars

(* The process is gone. *)
LEMMA ExitStep ==
    ASSUME WorkerInv, NEW kind \in ExitKind, Exit(kind), row' = row,
           diskLow' = diskLow, faults' \in 0..MaxFaults
    PROVE  WorkerInv'
<1>1. TypeOK'
  <2>1. row' \in [Job -> Row] /\ diskLow' \in BOOLEAN
    BY DEF WorkerInv, TypeOK
  <2>2. polls' \in 0..MaxPolls /\ recovering' \subseteq Job
    BY DEF Exit
  <2>3. /\ loop' \in LoopState /\ stopping' \in StopState /\ lastExit' \in ExitKind
        /\ mine' \in Attempt \cup {Null} /\ currentJobId' \in Job \cup {Null}
        /\ waitFor' \in Attempt \cup {Null}
        /\ running' \in BOOLEAN /\ shuttingDown' \in BOOLEAN /\ backup' \in BOOLEAN
    BY Zenon DEF Exit, LoopState, StopState
  <2> QED
    BY <2>1, <2>2, <2>3 DEF TypeOK
<1>2. LoopInv' /\ StopInv'
  BY DEF Exit, LoopInv, StopInv, Up, InHand
<1>3. RetryInv'
  BY SameRows DEF WorkerInv
<1> QED
  BY <1>1, <1>2, <1>3 DEF WorkerInv

(* A step of the loop that leaves stop(), the recovery and the backup be.  *)
LEMMA LoopMoves ==
    ASSUME WorkerInv, row' \in [Job -> Row], RetryInv',
           loop # "down", loop' \in LoopState \ {"down"}, mine' \in Attempt \cup {Null},
           UNCHANGED <<stopVars, recovering, backup, worldVars>>,
           mine' # Null <=> loop' \in InHand,
           currentJobId' = IF loop' \in InHand \ {"claimed"} THEN mine'.job ELSE Null,
           recovering # {} => loop' = "recover"
    PROVE  WorkerInv'
<1>1. currentJobId' \in Job \cup {Null}
  <2>1. Null \notin Attempt
    BY DEF Attempt
  <2>2. CASE loop' \in InHand \ {"claimed"}
    BY <2>1, <2>2 DEF Attempt
  <2> QED
    BY <2>2
<1>2. TypeOK'
  BY <1>1 DEF WorkerInv, TypeOK, stopVars, worldVars
<1>3. LoopInv'
  BY DEF LoopInv
<1>4. StopInv'
  BY DEF WorkerInv, StopInv, Up, stopVars
<1> QED
  BY <1>2, <1>3, <1>4 DEF WorkerInv

LEMMA HeadMoves ==
    ASSUME WorkerInv, row' \in [Job -> Row], RetryInv', loop # "down",
           loop' = LoopHead, mine' = Null, currentJobId' = Null, recovering = {},
           UNCHANGED <<stopVars, recovering, backup, worldVars>>
    PROVE  WorkerInv'
  BY LoopHeadIs, LoopMoves, Zenon DEF InHand, LoopState

(* What is in hand. *)
LEMMA InHandIs ==
    ASSUME WorkerInv, loop \in InHand
    PROVE  /\ mine \in Attempt /\ mine # Null /\ mine.job \in Job
           /\ recovering = {} /\ loop # "down"
  BY DEF WorkerInv, TypeOK, LoopInv, Attempt, InHand

-----------------------------------------------------------------------------
(* One lemma per group of actions. *)

LEMMA InitInv == Init => WorkerInv
<1> SUFFICES ASSUME Init PROVE WorkerInv
  OBVIOUS
<1>1. TypeOK
  <2>1. NoRow \in Row
    BY DEF NoRow, Row
  <2>2. polls \in 0..MaxPolls /\ faults \in 0..MaxFaults /\ recovering \subseteq Job
    BY DEF Init
  <2>3. /\ row \in [Job -> Row]
        /\ loop \in LoopState /\ stopping \in StopState /\ lastExit \in ExitKind
        /\ mine \in Attempt \cup {Null} /\ currentJobId \in Job \cup {Null}
        /\ waitFor \in Attempt \cup {Null}
        /\ running \in BOOLEAN /\ shuttingDown \in BOOLEAN
        /\ backup \in BOOLEAN /\ diskLow \in BOOLEAN
    BY <2>1 DEF Init, LoopState, StopState, ExitKind
  <2> QED
    BY <2>2, <2>3 DEF TypeOK
<1>2. LoopInv /\ StopInv
  BY DEF Init, LoopInv, StopInv, Up, InHand
<1>3. RetryInv
  BY DEF Init, RetryInv, NoRow
<1> QED
  BY <1>1, <1>2, <1>3 DEF WorkerInv

LEMMA FaultBound == ASSUME TypeOK, Fault PROVE faults' \in 0..MaxFaults
  BY DEF TypeOK, Fault

LEMMA RowWrites ==
    ASSUME WorkerInv, NEW j \in Job,
           \/ Enqueue(j) \/ OrphanExpires(j) \/ LeaseLapses(j)
           \/ LeaseExtended(j) \/ SweepJob(j)
    PROVE  WorkerInv'
<1>1. row[j] \in Row /\ (row[j].retryCount = MaxRetries <=> row[j].status = "dead_letter")
  BY DEF WorkerInv, TypeOK, RetryInv
<1>2. UNCHANGED processVars /\ diskLow' = diskLow /\ lastExit' = lastExit
  BY DEF Enqueue, OrphanExpires, LeaseLapses, LeaseExtended, SweepJob, worldVars
<1>3. faults' \in 0..MaxFaults
  BY FaultBound DEF WorkerInv, TypeOK, Enqueue, OrphanExpires, LeaseLapses,
                    LeaseExtended, SweepJob, worldVars
<1>4. PICK r \in Row : /\ row' = [row EXCEPT ![j] = r]
                       /\ r.retryCount = MaxRetries <=> r.status = "dead_letter"
  <2>1. CASE Enqueue(j)
    <3> DEFINE r == [row[j] EXCEPT !.status = "queued"]
    <3>1. row' = [row EXCEPT ![j] = r] /\ row[j].status = "absent"
      BY <2>1 DEF Enqueue
    <3>2. r \in Row /\ r.retryCount = row[j].retryCount /\ r.status = "queued"
      BY <1>1 DEF Row
    <3> QED
      BY <1>1, <3>1, <3>2
  <2>2. CASE SweepJob(j)
    <3>1. row' = [row EXCEPT ![j] = Requeued(row[j])] /\ row[j].status = "processing"
      BY <2>2 DEF SweepJob, Stale
    <3> QED
      BY <1>1, <3>1, RequeuedType
  <2>3. CASE OrphanExpires(j) \/ LeaseLapses(j) \/ LeaseExtended(j)
    <3>1. PICK b \in BOOLEAN : row' = [row EXCEPT ![j].expired = b]
      BY <2>3 DEF OrphanExpires, LeaseLapses, LeaseExtended
    <3> DEFINE r == [row[j] EXCEPT !.expired = b]
    <3>2. row' = [row EXCEPT ![j] = r]
      BY <3>1
    <3>3. r \in Row /\ r.retryCount = row[j].retryCount /\ r.status = row[j].status
      BY <1>1 DEF Row
    <3> QED
      BY <1>1, <3>2, <3>3
  <2> QED
    BY <2>1, <2>2, <2>3
<1>5. row' \in [Job -> Row] /\ RetryInv'
  BY <1>4, RowStep DEF WorkerInv
<1> QED
  BY <1>2, <1>3, <1>5, OutsideStep DEF WorkerInv, TypeOK

LEMMA WorldSteps ==
    ASSUME WorkerInv, DiskFills \/ DiskFreed \/ BackupStarts \/ BackupEnds
    PROVE  WorkerInv'
<1>1. row' \in [Job -> Row] /\ RetryInv'
  BY SameRows DEF WorkerInv, DiskFills, DiskFreed, BackupStarts, BackupEnds
<1>2. CASE DiskFills \/ DiskFreed
  <2>1. faults' \in 0..MaxFaults
    BY <1>2, FaultBound DEF WorkerInv, TypeOK, DiskFills, DiskFreed
  <2> QED
    BY <1>1, <1>2, <2>1, OutsideStep DEF DiskFills, DiskFreed
<1>3. CASE BackupStarts \/ BackupEnds
  <2>1. /\ UNCHANGED <<loopVars, stopVars, recovering, worldVars>>
        /\ backup' \in BOOLEAN
    BY <1>3 DEF BackupStarts, BackupEnds
  <2>2. TypeOK'
    BY <1>1, <2>1, Zenon DEF WorkerInv, TypeOK, loopVars, stopVars, worldVars
  <2>3. LoopInv' /\ StopInv'
    BY <2>1 DEF WorkerInv, LoopInv, StopInv, Up, loopVars, stopVars
  <2> QED
    BY <1>1, <2>2, <2>3 DEF WorkerInv
<1> QED
  BY <1>2, <1>3

LEMMA RecoverySteps ==
    ASSUME WorkerInv, Boot \/ EnterLoop \/ \E j \in Job : RecoverJob(j)
    PROVE  WorkerInv'
<1>1. CASE Boot
  <2>1. row' \in [Job -> Row] /\ RetryInv'
    BY <1>1, SameRows DEF WorkerInv, Boot
  <2>2. TypeOK'
    BY <1>1, <2>1 DEF WorkerInv, TypeOK, Boot, LoopState, worldVars
  <2>3. LoopInv' /\ StopInv'
    BY <1>1 DEF WorkerInv, LoopInv, StopInv, Boot, Up, InHand
  <2> QED
    BY <2>1, <2>2, <2>3 DEF WorkerInv
<1>2. CASE EnterLoop
  <2>1. row' \in [Job -> Row] /\ RetryInv'
    BY <1>2, SameRows DEF WorkerInv, EnterLoop
  <2>2. mine = Null /\ currentJobId = Null
    BY <1>2 DEF WorkerInv, LoopInv, EnterLoop, InHand
  <2> QED
    BY <1>2, <2>1, <2>2, HeadMoves DEF EnterLoop
<1>3. ASSUME NEW j \in Job, RecoverJob(j) PROVE WorkerInv'
  <2>1. row[j] \in Row /\ (row[j].retryCount = MaxRetries <=> row[j].status = "dead_letter")
    BY DEF WorkerInv, TypeOK, RetryInv
  <2> DEFINE r == IF Stale(j) THEN Requeued(row[j]) ELSE row[j]
  <2>2. row' = [row EXCEPT ![j] = r]
    BY <1>3 DEF RecoverJob
  <2>3. r \in Row /\ (r.retryCount = MaxRetries <=> r.status = "dead_letter")
    BY <2>1, RequeuedType DEF Stale
  <2>4. row' \in [Job -> Row] /\ RetryInv'
    <3> HIDE DEF r
    <3> QED
      BY <2>2, <2>3, RowStep DEF WorkerInv
  <2> QED
    BY <1>3, <2>4 DEF RecoverJob, WorkerInv, TypeOK, LoopInv, StopInv, Up,
                      loopVars, stopVars, worldVars
<1> QED
  BY <1>1, <1>2, <1>3

LEMMA IdleLoopSteps ==
    ASSUME WorkerInv, PauseEnds \/ ClaimNone
    PROVE  WorkerInv'
<1>1. row' \in [Job -> Row] /\ RetryInv'
  BY SameRows DEF WorkerInv, PauseEnds, ClaimNone
<1>2. mine = Null /\ currentJobId = Null /\ recovering = {} /\ loop # "down"
  BY DEF WorkerInv, LoopInv, PauseEnds, ClaimNone, InHand
<1>3. CASE PauseEnds
  BY <1>1, <1>2, <1>3, HeadMoves DEF PauseEnds
<1>4. CASE ClaimNone
  BY <1>1, <1>2, <1>4, LoopMoves DEF ClaimNone, InHand, LoopState
<1> QED
  BY <1>3, <1>4

LEMMA ClaimStep ==
    ASSUME WorkerInv, NEW j \in Job, ClaimCommit(j)
    PROVE  /\ WorkerInv'
           /\ mine = Null /\ Holds(j)'
           /\ \A k \in Job \ {j} : row'[k] = row[k] /\ ~Holds(k)'
           /\ row'[j].status = "processing" /\ row'[j].retryCount = row[j].retryCount
<1> DEFINE r == [row[j] EXCEPT !.status = "processing", !.attempt = @ + 1,
                               !.expired = FALSE]
<1>1. /\ row[j] \in Row /\ row[j].status \in Claimable
      /\ row[j].retryCount = MaxRetries <=> row[j].status = "dead_letter"
  BY DEF WorkerInv, TypeOK, RetryInv, ClaimCommit
<1>2. row' = [row EXCEPT ![j] = r]
  BY DEF ClaimCommit
<1>3. /\ r \in Row /\ r.status = "processing" /\ r.retryCount = row[j].retryCount
      /\ r.attempt = row[j].attempt + 1
      /\ r.retryCount = MaxRetries <=> r.status = "dead_letter"
  <2>1. /\ r \in Row /\ r.status = "processing" /\ r.retryCount = row[j].retryCount
        /\ r.attempt = row[j].attempt + 1
    <3>1. row[j].attempt + 1 \in Nat
      BY <1>1 DEF Row
    <3> QED
      BY <1>1, <3>1 DEF Row
  <2>2. row[j].status # "dead_letter"
    BY <1>1 DEF Claimable
  <2> QED
    BY <1>1, <2>1, <2>2
<1>4. /\ row' \in [Job -> Row] /\ RetryInv'
      /\ row'[j] = r /\ \A k \in Job \ {j} : row'[k] = row[k]
  <2> HIDE DEF r
  <2> QED
    BY <1>2, <1>3, RowStep DEF WorkerInv
<1>5. mine' \in Attempt /\ mine' # Null /\ mine'.job = j /\ mine'.attempt = row[j].attempt + 1
  BY <1>1 DEF ClaimCommit, Attempt, Row
<1>6. mine = Null /\ currentJobId = Null /\ recovering = {} /\ loop = "claim"
  BY DEF WorkerInv, LoopInv, ClaimCommit, InHand
<1>7. WorkerInv'
  BY <1>4, <1>5, <1>6, LoopMoves DEF ClaimCommit, InHand, LoopState
<1>8. Holds(j)' /\ \A k \in Job \ {j} : ~Holds(k)'
  <2> HIDE DEF r
  <2> QED
    BY <1>3, <1>4, <1>5 DEF Holds
<1> QED
  BY <1>3, <1>4, <1>6, <1>7, <1>8

LEMMA WorkSteps ==
    ASSUME WorkerInv, ClaimReturns \/ ProcessEnds
    PROVE  WorkerInv'
<1>1. row' \in [Job -> Row] /\ RetryInv'
  BY SameRows DEF WorkerInv, ClaimReturns, ProcessEnds
<1>2. mine \in Attempt /\ mine # Null /\ recovering = {} /\ loop # "down"
  BY InHandIs DEF ClaimReturns, ProcessEnds, InHand
<1>3. CASE ClaimReturns
  BY <1>1, <1>2, <1>3, LoopMoves DEF ClaimReturns, InHand, LoopState
<1>4. CASE ProcessEnds
  BY <1>1, <1>2, <1>4, LoopMoves
  DEF ProcessEnds, InHand, LoopState, WorkerInv, LoopInv
<1> QED
  BY <1>3, <1>4

(* complete() and fail(): the row in hand is ended, or nothing is written. *)
LEMMA EndSteps ==
    ASSUME WorkerInv, Complete \/ Fail
    PROVE  /\ WorkerInv'
           /\ mine.job \in Job
           /\ \/ row' = row
              \/ /\ Holds(mine.job)
                 /\ \A k \in Job \ {mine.job} : row'[k] = row[k]
                 /\ \A k \in Job : ~Holds(k)'
                 /\ \/ /\ row'[mine.job].status = "completed"
                       /\ row'[mine.job].retryCount = row[mine.job].retryCount
                    \/ /\ row'[mine.job].retryCount = row[mine.job].retryCount + 1
                       /\ row'[mine.job].status =
                            IF row[mine.job].retryCount + 1 < MaxRetries
                            THEN "failed" ELSE "dead_letter"
<1> DEFINE j == mine.job
           completed == [row[j] EXCEPT !.status = "completed", !.expired = FALSE]
<1>1. mine \in Attempt /\ mine # Null /\ j \in Job /\ recovering = {} /\ loop # "down"
  BY InHandIs DEF Complete, Fail, InHand
<1>2. /\ row[j] \in Row
      /\ row[j].retryCount = MaxRetries <=> row[j].status = "dead_letter"
  BY <1>1 DEF WorkerInv, TypeOK, RetryInv
<1>3. WorkerInv' \/ ~(row' \in [Job -> Row] /\ RetryInv')
  <2> SUFFICES ASSUME row' \in [Job -> Row], RetryInv' PROVE WorkerInv'
    OBVIOUS
  <2>1. CASE Finally /\ UNCHANGED <<stopVars, recovering, backup, worldVars>>
    BY <1>1, <2>1, HeadMoves DEF Finally
  <2>2. CASE /\ loop' = "fail" /\ UNCHANGED <<mine, currentJobId>> /\ loop = "complete"
             /\ UNCHANGED <<stopVars, recovering, backup, worldVars>>
    BY <1>1, <2>2, LoopMoves DEF WorkerInv, LoopInv, InHand, LoopState
  <2> QED
    BY <2>1, <2>2 DEF Complete, Fail
<1>4. \/ row' = row
      \/ Holds(j) /\ row' = [row EXCEPT ![j] = completed]
      \/ Holds(j) /\ row' = [row EXCEPT ![j] = FailedRow(row[j])]
  <2>1. CASE Complete
    <3>1. row' = row \/ (Holds(j) /\ row' = [row EXCEPT ![j].status = "completed",
                                                        ![j].expired = FALSE])
      BY <2>1 DEF Complete
    <3>2. [row EXCEPT ![j].status = "completed", ![j].expired = FALSE]
            = [row EXCEPT ![j] = completed]
      BY <1>1 DEF WorkerInv, TypeOK
    <3> QED
      BY <3>1, <3>2
  <2>2. CASE Fail
    <3>1. row' = [row EXCEPT ![j] = IF Holds(j) THEN FailedRow(row[j]) ELSE row[j]]
      BY <2>2 DEF Fail
    <3> QED
      BY <1>1, <3>1 DEF WorkerInv, TypeOK
  <2> QED
    BY <2>1, <2>2
<1>5. CASE row' = row
  BY <1>1, <1>3, <1>5, SameRows DEF WorkerInv
<1>6. ASSUME NEW r \in Row, row' = [row EXCEPT ![j] = r], r.status # "processing",
             r.retryCount = MaxRetries <=> r.status = "dead_letter"
      PROVE  /\ WorkerInv' /\ row'[j] = r
             /\ \A k \in Job \ {j} : row'[k] = row[k]
             /\ \A k \in Job : ~Holds(k)'
  <2>1. /\ row' \in [Job -> Row] /\ RetryInv'
        /\ row'[j] = r /\ \A k \in Job \ {j} : row'[k] = row[k]
    BY <1>1, <1>6, RowStep DEF WorkerInv
  <2>2. mine' = Null \/ mine' = mine
    BY DEF Complete, Fail, Finally
  <2>3. \A k \in Job : ~Holds(k)'
    BY <1>6, <2>1, <2>2 DEF Holds
  <2> QED
    BY <1>3, <2>1, <2>3
<1>7. CASE Holds(j) /\ row' = [row EXCEPT ![j] = completed]
  <2>1. row[j].status = "processing"
    BY <1>7 DEF Holds
  <2>2. /\ completed \in Row /\ completed.status = "completed"
        /\ completed.retryCount = row[j].retryCount
    BY <1>2 DEF Row, Terminal
  <2> HIDE DEF completed
  <2> QED
    BY <1>1, <1>2, <1>6, <1>7, <2>1, <2>2
<1>8. CASE Holds(j) /\ row' = [row EXCEPT ![j] = FailedRow(row[j])]
  <2>1. row[j].status = "processing" /\ row[j].retryCount < MaxRetries
    BY <1>2, <1>8 DEF Holds, Row
  <2>2. /\ FailedRow(row[j]) \in Row
        /\ FailedRow(row[j]).retryCount = row[j].retryCount + 1
        /\ FailedRow(row[j]).status =
             IF row[j].retryCount + 1 < MaxRetries THEN "failed" ELSE "dead_letter"
    BY <1>2, <2>1, FailedRowType
  <2>3. FailedRow(row[j]).retryCount = MaxRetries <=> FailedRow(row[j]).status = "dead_letter"
    BY <1>2, <2>1, <2>2 DEF Row
  <2> QED
    BY <1>1, <1>6, <1>8, <2>2, <2>3
<1> QED
  BY <1>4, <1>5, <1>7, <1>8

(* Every way out of the process. *)
Leaves ==
    /\ row' = row /\ diskLow' = diskLow /\ faults' \in 0..MaxFaults
    /\ Exit("crash") \/ Exit("idle") \/ Exit("forced") \/ WaitedExit

LEMMA LeavesStep == ASSUME WorkerInv, Leaves PROVE WorkerInv'
<1>1. PICK kind \in ExitKind : Exit(kind)
  BY DEF Leaves, WaitedExit, ExitKind
<1> QED
  BY <1>1, ExitStep DEF Leaves

LEMMA StopSteps ==
    ASSUME WorkerInv,
           \/ Crash \/ StopIdle \/ StopWait \/ StopAgain
           \/ StopPoll \/ StopWaited \/ StopBackupWaited
    PROVE  /\ WorkerInv'
           /\ Leaves \/ (row' = row /\ loop' = loop /\ mine' = mine)
<1>1. row' = row /\ diskLow' = diskLow
  BY DEF Crash, StopIdle, StopWait, StopAgain, StopPoll, StopWaited, StopBackupWaited,
         worldVars
<1>2. faults' \in 0..MaxFaults
  BY FaultBound DEF WorkerInv, TypeOK, Crash, Signalled, StopIdle, StopWait, StopAgain,
                    StopPoll, StopWaited, StopBackupWaited, worldVars
<1>3. row' \in [Job -> Row] /\ RetryInv'
  BY <1>1, SameRows DEF WorkerInv
<1>4. \/ Leaves
      \/ /\ UNCHANGED <<loopVars, recovering, lastExit>>
         /\ \/ stopping' = "idleBackup" /\ running' = FALSE /\ shuttingDown' = TRUE /\ Up
               /\ UNCHANGED <<polls, waitFor, backup>>
            \/ stopping' = "waiting" /\ stopping = "no" /\ waitFor' = mine /\ shuttingDown' = TRUE
               /\ currentJobId # Null /\ UNCHANGED <<running, polls, backup>>
            \/ stopping = "waiting" /\ polls' = polls + 1 /\ polls < MaxPolls
               /\ UNCHANGED <<running, shuttingDown, stopping, waitFor, backup>>
            \/ stopping' = "waitedBackup" /\ stopping = "waiting" /\ running' = FALSE
               /\ UNCHANGED <<shuttingDown, polls, waitFor, backup>>
  <2>1. CASE Crash \/ StopAgain \/ StopBackupWaited
    BY <1>1, <1>2, <2>1 DEF Crash, StopAgain, StopBackupWaited, Leaves
  <2>2. CASE StopIdle
    BY <1>1, <1>2, <2>2 DEF StopIdle, Signalled, Leaves
  <2>3. CASE StopWait
    BY <2>3 DEF StopWait, WorkerInv, StopInv, TypeOK
  <2>4. CASE StopPoll
    BY <2>4 DEF StopPoll, worldVars
  <2>5. CASE StopWaited
    BY <1>1, <1>2, <2>5 DEF StopWaited, Leaves
  <2> QED
    BY <2>1, <2>2, <2>3, <2>4, <2>5
<1>5. CASE Leaves
  BY <1>5, LeavesStep
<1>6. CASE ~Leaves
  <2>1. UNCHANGED <<loopVars, recovering, lastExit>>
    BY <1>4, <1>6
  <2>2. mine \in Attempt \cup {Null} /\ (currentJobId # Null => Up)
    BY DEF WorkerInv, TypeOK, LoopInv, Up, InHand
  <2>3. TypeOK'
    <3>1. polls' \in 0..MaxPolls
      BY <1>4, <1>6 DEF WorkerInv, TypeOK
    <3>2. /\ stopping' \in StopState /\ waitFor' \in Attempt \cup {Null}
          /\ running' \in BOOLEAN /\ shuttingDown' \in BOOLEAN /\ backup' \in BOOLEAN
      BY <1>4, <1>6, <2>2 DEF WorkerInv, TypeOK, StopState
    <3> QED
      BY <1>1, <1>2, <1>3, <2>1, <3>1, <3>2, Zenon DEF WorkerInv, TypeOK, loopVars
  <2>4. LoopInv'
    BY <2>1 DEF WorkerInv, LoopInv, loopVars
  <2>5. StopInv'
    BY <1>4, <1>6, <2>1, <2>2 DEF WorkerInv, StopInv, Up, loopVars
  <2> QED
    BY <1>3, <2>1, <1>1, <2>3, <2>4, <2>5 DEF WorkerInv, loopVars
<1> QED
  BY <1>5, <1>6, <1>1, <1>4 DEF loopVars

LEMMA NextInv == ASSUME WorkerInv, [Next]_vars PROVE WorkerInv'
<1>1. CASE UNCHANGED vars
  BY <1>1 DEF vars, WorkerInv, TypeOK, LoopInv, StopInv, RetryInv, Up, processVars, loopVars,
              stopVars, worldVars
<1>2. CASE Next
  BY <1>2, RowWrites, WorldSteps, RecoverySteps, IdleLoopSteps, ClaimStep, WorkSteps,
     EndSteps, StopSteps
  DEF Next, LoopStep, StopStep
<1> QED
  BY <1>1, <1>2

(* Whatever signals, crashes, lapses, exits and restarts come in whatever  *)
(* order, the loop's local job, currentJobId, the flags of stop() and the  *)
(* retry counts fit together (runner.ts: start, stop).                     *)
THEOREM Invariance == Spec => []WorkerInv
<1>1. Init => WorkerInv
  BY InitInv
<1>2. WorkerInv /\ [Next]_vars => WorkerInv'
  BY NextInv
<1> QED
  BY <1>1, <1>2, PTL DEF Spec
-----------------------------------------------------------------------------
(* What a step may never do. *)

(* Once running is FALSE the loop enters no claim again, whatever it was   *)
(* doing and however long stop() waits for the backup.                     *)
THEOREM StoppedClaimsNothing == Spec => NoClaimOnceStopped
<1> DEFINE quiet == ~running /\ loop # "claim" => loop' # "claim"
<1>1. [Next]_vars => quiet
  <2> SUFFICES ASSUME [Next]_vars, ~running, loop # "claim" PROVE loop' # "claim"
    OBVIOUS
  <2>1. CASE loop' = LoopHead
    BY <2>1, LoopHeadIs
  <2>2. CASE loop' = loop \/ loop' \in {"down", "recover", "sleep", "claimed", "process",
                                       "complete", "fail"}
    BY <2>2
  <2> QED
    BY <2>1, <2>2
    DEF Next, vars, processVars, loopVars, Enqueue, OrphanExpires, LeaseLapses, LeaseExtended,
        RecoverJob, SweepJob, DiskFills, DiskFreed, BackupStarts, BackupEnds, Crash, Boot,
        LoopStep, EnterLoop, PauseEnds, ClaimNone, ClaimCommit, ClaimReturns, ProcessEnds,
        Complete, Fail, Finally, StopIdle, StopWait, StopAgain, StopStep, StopPoll,
        StopWaited, StopBackupWaited, WaitedExit, Exit
<1>2. [][Next]_vars => [][quiet]_vars
  BY <1>1, PTL
<1> QED
  BY <1>2, PTL DEF Spec, NoClaimOnceStopped

(* Only a crash or stop() ends the process. *)
LEMMA OnlyLeavesEnd ==
    ASSUME WorkerInv, [Next]_vars, Up, loop' = "down"
    PROVE  Leaves
<1>1. LoopHead # "down"
  BY LoopHeadIs
<1>2. CASE \/ Crash \/ StopIdle \/ StopWait \/ StopAgain
           \/ StopPoll \/ StopWaited \/ StopBackupWaited
  BY <1>2, StopSteps DEF Up
<1> QED
  BY <1>1, <1>2
  DEF Up, Next, vars, processVars, loopVars, Enqueue, OrphanExpires, LeaseLapses,
      LeaseExtended, RecoverJob, SweepJob, DiskFills, DiskFreed, BackupStarts, BackupEnds,
      Boot, LoopStep, EnterLoop, PauseEnds, ClaimNone, ClaimCommit, ClaimReturns,
      ProcessEnds, Complete, Fail, Finally, StopStep

(* "Active job finished. Exiting cleanly.": currentJobId was Null when the *)
(* exit was decided, and by LoopInv the only attempt that can then be      *)
(* alive is one whose claim is still on its way back (runner.ts: stop).    *)
THEOREM FinishedIsTrue == Spec => FinishedMeansFinished
<1> DEFINE finished == Exits("finished") => \A j \in Job : Holds(j) => loop = "claimed"
<1>1. WorkerInv /\ [Next]_vars => finished
  <2> SUFFICES ASSUME WorkerInv, [Next]_vars, Exits("finished"), NEW j \in Job, Holds(j)
               PROVE  loop = "claimed"
    OBVIOUS
  <2>1. Leaves /\ lastExit' = "finished"
    BY OnlyLeavesEnd DEF Exits
  <2>2. currentJobId = Null
    BY <2>1 DEF Leaves, WaitedExit, Exit
  <2>3. mine \in Attempt /\ loop \in InHand
    BY DEF Holds, WorkerInv, TypeOK, LoopInv
  <2>4. mine.job # Null
    BY <2>3 DEF Attempt
  <2> QED
    BY <2>2, <2>3, <2>4 DEF WorkerInv, LoopInv
<1>2. []WorkerInv /\ [][Next]_vars => [][finished]_vars
  BY <1>1, PTL
<1> QED
  BY <1>2, Invariance, PTL DEF Spec, FinishedMeansFinished

(* Both of what a stop may rely on.                                        *)
THEOREM StopsInOrder == Spec => StopIsOrderly
  BY StoppedClaimsNothing, FinishedIsTrue DEF StopIsOrderly

-----------------------------------------------------------------------------
(* The refinement of LeasedJobs: the state of the abstract queue, and what *)
(* leaves it as it is.                                                     *)

HolderOf(j) == IF Holds(j) THEN Runner ELSE Null

Queue == <<[j \in Job |-> row[j].status], [j \in Job |-> row[j].retryCount],
           [j \in Job |-> HolderOf(j)]>>

LEMMA Stutter ==
    ASSUME \A j \in Job : /\ row'[j].status = row[j].status
                          /\ row'[j].retryCount = row[j].retryCount
                          /\ Holds(j)' <=> Holds(j)
    PROVE  UNCHANGED Queue
  BY DEF Queue, HolderOf

LEMMA NothingMoves == ASSUME row' = row, mine' = mine PROVE UNCHANGED Queue
<1>1. \A j \in Job : Holds(j)' <=> Holds(j)
  BY DEF Holds
<1> QED
  BY <1>1, Stutter

LEMMA SubmitStep == ASSUME WorkerInv, NEW j \in Job, Enqueue(j) PROVE Leased!Submit(j)
<1>1. row \in [Job -> Row] /\ row[j].status = "absent" /\ mine' = mine
  BY DEF WorkerInv, TypeOK, Enqueue, processVars, loopVars
<1>2. /\ row'[j].status = "queued" /\ row'[j].retryCount = row[j].retryCount
      /\ \A k \in Job \ {j} : row'[k] = row[k]
  BY <1>1 DEF Enqueue, Row
<1>3. \A k \in Job : Holds(k)' <=> Holds(k)
  BY <1>1, <1>2 DEF Holds
<1> QED
  BY <1>1, <1>2, <1>3 DEF Leased!Submit

LEMMA LeaseStep ==
    ASSUME WorkerInv, NEW j \in Job, OrphanExpires(j) \/ LeaseLapses(j) \/ LeaseExtended(j)
    PROVE  UNCHANGED Queue
<1>1. row \in [Job -> Row] /\ mine' = mine
  BY DEF WorkerInv, TypeOK, OrphanExpires, LeaseLapses, LeaseExtended, processVars, loopVars
<1>2. \A k \in Job : /\ row'[k].status = row[k].status
                     /\ row'[k].retryCount = row[k].retryCount
                     /\ row'[k].attempt = row[k].attempt
  BY <1>1 DEF OrphanExpires, LeaseLapses, LeaseExtended, Row
<1>3. \A k \in Job : Holds(k)' <=> Holds(k)
  BY <1>1, <1>2 DEF Holds
<1> QED
  BY <1>2, <1>3, Stutter

(* requeueStale() of one row, by the sweeper or the recovery. *)
LEMMA RevokeStep ==
    ASSUME WorkerInv, NEW j \in Job, Stale(j), mine' = mine,
           row' = [row EXCEPT ![j] = Requeued(row[j])]
    PROVE  Leased!Revoke(j)
<1>1. row \in [Job -> Row] /\ row[j].status = "processing"
  BY DEF WorkerInv, TypeOK, Stale
<1>2. /\ row'[j].status = "queued" /\ row'[j].retryCount = row[j].retryCount
      /\ \A k \in Job \ {j} : row'[k] = row[k]
  BY <1>1, RequeuedType
<1>3. ~Holds(j)' /\ \A k \in Job \ {j} : Holds(k)' <=> Holds(k)
  BY <1>2 DEF Holds
<1> QED
  BY <1>1, <1>2, <1>3 DEF Leased!Revoke

LEMMA TakeStep == ASSUME WorkerInv, NEW j \in Job, ClaimCommit(j) PROVE Leased!Take(Runner, j)
<1>1. /\ mine = Null /\ Holds(j)'
      /\ \A k \in Job \ {j} : row'[k] = row[k] /\ ~Holds(k)'
      /\ row'[j].status = "processing" /\ row'[j].retryCount = row[j].retryCount
      /\ row[j].status \in Claimable
  BY ClaimStep DEF ClaimCommit
<1>2. \A k \in Job : ~Holds(k)
  BY <1>1 DEF Holds
<1> QED
  BY <1>1, <1>2 DEF Leased!Take, Claimable

(* The process gives up its attempt without a word about the row. *)
LEMMA DropStep ==
    ASSUME row' = row, mine' \in {mine, Null}
    PROVE  UNCHANGED Queue \/ \E j \in Job : Leased!Abandon(j)
<1>1. CASE mine' = mine
  BY <1>1, NothingMoves
<1>2. CASE mine' = Null /\ \A j \in Job : ~Holds(j)
  <2>1. \A j \in Job : ~Holds(j)'
    BY <1>2 DEF Holds
  <2> QED
    BY <1>2, <2>1, Stutter
<1>3. CASE mine' = Null /\ \E j \in Job : Holds(j)
  <2>1. PICK j \in Job : Holds(j)
    BY <1>3
  <2>2. \A k \in Job : ~Holds(k)'
    BY <1>3 DEF Holds
  <2>3. \A k \in Job \ {j} : ~Holds(k)
    BY <2>1 DEF Holds
  <2> QED
    BY <2>1, <2>2, <2>3 DEF Leased!Abandon
<1> QED
  BY <1>1, <1>2, <1>3

LEMMA EndingStep ==
    ASSUME WorkerInv, Complete \/ Fail
    PROVE  Leased!Next \/ UNCHANGED Queue
<1>1. mine' \in {mine, Null}
  BY DEF Complete, Fail, Finally
<1>2. CASE row' = row
  BY <1>1, <1>2, DropStep DEF Leased!Next
<1>3. CASE row' # row
  <2>0. PICK j \in Job : j = mine.job
    BY EndSteps
  <2>1. /\ j \in Job /\ Holds(j)
        /\ \A k \in Job \ {j} : row'[k] = row[k]
        /\ \A k \in Job : ~Holds(k)'
    BY <1>3, <2>0, EndSteps
  <2>2. \A k \in Job \ {j} : ~Holds(k)
    BY <2>0 DEF Holds
  <2>3. CASE row'[j].status = "completed" /\ row'[j].retryCount = row[j].retryCount
    <3>1. Leased!Finish(Runner, j)
      BY <2>1, <2>2, <2>3 DEF Leased!Finish
    <3> QED
      BY <2>1, <3>1 DEF Leased!Next
  <2>4. CASE /\ row'[j].retryCount = row[j].retryCount + 1
             /\ row'[j].status = IF row[j].retryCount + 1 < MaxRetries
                                 THEN "failed" ELSE "dead_letter"
    <3>1. Leased!Fail(Runner, j)
      BY <2>1, <2>2, <2>4 DEF Leased!Fail
    <3> QED
      BY <2>1, <3>1 DEF Leased!Next
  <2> QED
    BY <1>3, <2>0, <2>3, <2>4, EndSteps
<1> QED
  BY <1>2, <1>3

LEMMA InitQueue == Init => Leased!Init
  BY DEF Init, NoRow, Holds, Leased!Init

LEMMA NextQueue ==
    ASSUME WorkerInv, [Next]_vars
    PROVE  Leased!Next \/ UNCHANGED Queue
<1>1. ASSUME NEW j \in Job, Enqueue(j) PROVE Leased!Next
  BY <1>1, SubmitStep DEF Leased!Next
<1>2. ASSUME NEW j \in Job, OrphanExpires(j) \/ LeaseLapses(j) \/ LeaseExtended(j)
      PROVE  UNCHANGED Queue
  BY <1>2, LeaseStep
<1>3. ASSUME NEW j \in Job, SweepJob(j) \/ RecoverJob(j)
      PROVE  Leased!Next \/ UNCHANGED Queue
  <2>1. mine' = mine
    BY <1>3 DEF SweepJob, RecoverJob, processVars, loopVars
  <2>2. CASE Stale(j)
    <3>1. row' = [row EXCEPT ![j] = Requeued(row[j])]
      BY <1>3, <2>2 DEF SweepJob, RecoverJob
    <3> QED
      BY <2>1, <2>2, <3>1, RevokeStep DEF Leased!Next
  <2>3. CASE ~Stale(j)
    <3>1. row' = row
      BY <1>3, <2>3 DEF SweepJob, RecoverJob, WorkerInv, TypeOK
    <3> QED
      BY <2>1, <3>1, NothingMoves
  <2> QED
    BY <2>2, <2>3
<1>4. ASSUME NEW j \in Job, ClaimCommit(j) PROVE Leased!Next
  BY <1>4, TakeStep DEF Leased!Next
<1>5. CASE Complete \/ Fail
  BY <1>5, EndingStep
<1>6. CASE \/ DiskFills \/ DiskFreed \/ BackupStarts \/ BackupEnds \/ Boot
           \/ EnterLoop \/ PauseEnds \/ ClaimNone \/ ClaimReturns \/ ProcessEnds
           \/ UNCHANGED vars
  <2>1. row' = row /\ mine' = mine
    BY <1>6 DEF DiskFills, DiskFreed, BackupStarts, BackupEnds, Boot, EnterLoop, PauseEnds,
                ClaimNone, ClaimReturns, ProcessEnds, vars, processVars, loopVars
  <2> QED
    BY <2>1, NothingMoves
<1>7. CASE \/ Crash \/ StopIdle \/ StopWait \/ StopAgain
           \/ StopPoll \/ StopWaited \/ StopBackupWaited
  <2>1. row' = row /\ mine' \in {mine, Null}
    BY <1>7, StopSteps DEF Leaves, WaitedExit, Exit
  <2> QED
    BY <2>1, DropStep DEF Leased!Next
<1> QED
  BY <1>1, <1>2, <1>3, <1>4, <1>5, <1>6, <1>7 DEF Next, LoopStep, StopStep

(* The main loop, its crashes, its two ways of stopping and its restarts   *)
(* keep the promises of the abstract queue: an exit is an Abandon, which   *)
(* costs the job no retry, a row swept away under a live attempt is not    *)
(* ended by that attempt, and only the MaxRetries-th failure is final.     *)
THEOREM Refinement == Spec => ImplementsLeasedJobs
<1>1. Init => Leased!Init
  BY InitQueue
<1>2. WorkerInv /\ [Next]_vars => [Leased!Next]_(Leased!jobVars)
  BY NextQueue DEF Queue, HolderOf, Leased!jobVars
<1> QED
  BY <1>1, <1>2, Invariance, PTL DEF Spec, ImplementsLeasedJobs, Leased!Spec
=============================================================================

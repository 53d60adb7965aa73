--------------------------- MODULE WorkerLifecycle ---------------------------
(***************************************************************************)
(* The life of the one worker process (scripts/transcode-worker.ts,        *)
(* worker/runner.ts): start() and its main loop, stop() running beside it  *)
(* from a signal handler, the exit, and the restart by the container       *)
(* runtime (restart: always).                                              *)
(*                                                                         *)
(* JavaScript runs to the next await without interruption, so an action is *)
(* the code between two awaits. The queue's statements are atomic here and *)
(* their fence compares attempt numbers: TranscodeQueue shows that it may. *)
(* Time is left out: a lease expires, a deadline passes or a sleep ends by *)
(* an action of its own.                                                   *)
(***************************************************************************)
EXTENDS Naturals

CONSTANTS
    Job,
    Runner,         \* the worker process
    Null,
    MaxRetries,     \* DEFAULT_MAX_RETRIES
    MaxPolls,       \* polls of currentJobId before stop()'s deadline
    MaxFaults       \* bound: crashes, signals, leases that expire under a
                    \* live attempt and times the disk fills up, together

ASSUME ConstantsAssumption ==
    /\ Null \notin Job /\ Null # Runner
    /\ Null \notin [job: Job, attempt: Nat]
    /\ MaxRetries \in Nat \ {0}
    /\ MaxPolls \in Nat /\ MaxFaults \in Nat

VARIABLES
    row,            \* media_transcode_jobs
    loop,           \* where start() is suspended
    mine,           \* the loop's local job: the row claim() gave it
    currentJobId,
    running,
    shuttingDown,
    stopping,       \* where stop() is suspended
    polls,          \* polls stop() has made
    waitFor,        \* history: the attempt in hand when stop() began to wait
    recovering,     \* rows recoverStaleJobs() listed and has not handled
    backup,         \* a backup is in progress
    diskLow,
    lastExit,       \* how the last process ended: stop()'s last message
    faults          \* crashes, signals, lapses and full disks so far

loopVars == <<loop, mine, currentJobId>>
stopVars == <<running, shuttingDown, stopping, polls, waitFor>>
processVars == <<loopVars, stopVars, recovering, backup>>
worldVars == <<diskLow, lastExit, faults>>
vars == <<row, processVars, worldVars>>

-----------------------------------------------------------------------------
Claimable == {"queued", "failed"}
Terminal == {"completed", "dead_letter"}

Row == [status: {"absent", "queued", "processing", "failed"} \cup Terminal,
        retryCount: 0..MaxRetries, attempt: Nat, expired: BOOLEAN]

NoRow == [status |-> "absent", retryCount |-> 0, attempt |-> 0, expired |-> FALSE]

Attempt == [job: Job, attempt: Nat]

LoopState == {"down", "recover", "pause", "claim", "claimed", "sleep",
              "process", "complete", "fail", "ended"}

(* "waiting": for the current job; "idleBackup" and "waitedBackup": for    *)
(* stopBackupScheduler(), from the branch without and with a current job.  *)
StopState == {"no", "waiting", "idleBackup", "waitedBackup"}
ExitKind == {"none", "idle", "finished", "timeout", "forced", "crash"}

TypeOK ==
    /\ row \in [Job -> Row]
    /\ loop \in LoopState
    /\ mine \in Attempt \cup {Null}
    /\ currentJobId \in Job \cup {Null}
    /\ running \in BOOLEAN /\ shuttingDown \in BOOLEAN
    /\ stopping \in StopState
    /\ polls \in 0..MaxPolls
    /\ waitFor \in Attempt \cup {Null}
    /\ recovering \subseteq Job
    /\ backup \in BOOLEAN /\ diskLow \in BOOLEAN
    /\ lastExit \in ExitKind
    /\ faults \in 0..MaxFaults

-----------------------------------------------------------------------------
Up == loop # "down"

(* Where the loop has a job, and where currentJobId says so.               *)
InHand == {"claimed", "process", "complete", "fail"}

(* The process can still pass the fence of job j. *)
Holds(j) ==
    /\ mine # Null
    /\ mine.job = j
    /\ row[j].status = "processing" /\ row[j].attempt = mine.attempt

Stale(j) == row[j].status = "processing" /\ row[j].expired

(* The sweeper's interval is set between the recovery and stop(). *)
SweeperOn == Up /\ loop # "recover" /\ stopping \in {"no", "waiting"}

(* stopBackupScheduler() clears the timer; no backup starts after it. *)
BackupsOn == SweeperOn

(* Mutant: the loop condition is lost. *)
MutHeadIgnoresStop == IF diskLow THEN "pause" ELSE "claim"

(* Mutant: break instead of continue in the disk guard. *)
MutHeadBreaksOnLowDisk == IF ~running \/ diskLow THEN "ended" ELSE "claim"

(* The head of the main loop: where the code runs to once an iteration is  *)
(* over.                                                                   *)
LoopHead ==
    IF ~running THEN "ended" ELSE IF diskLow THEN "pause" ELSE "claim"

(* What is left of the process: its module-level state starts afresh. *)
Exit(kind) ==
    /\ loop' = "down" /\ mine' = Null /\ currentJobId' = Null
    /\ running' = FALSE /\ shuttingDown' = FALSE
    /\ stopping' = "no" /\ polls' = 0 /\ waitFor' = Null
    /\ recovering' = {} /\ backup' = FALSE
    /\ lastExit' = kind

(* The finally block of the main loop, and on to its head. *)
Finally ==
    /\ mine' = Null /\ currentJobId' = Null
    /\ loop' = LoopHead

Init ==
    /\ row = [j \in Job |-> NoRow]
    /\ loop = "down" /\ mine = Null /\ currentJobId = Null
    /\ running = FALSE /\ shuttingDown = FALSE
    /\ stopping = "no" /\ polls = 0 /\ waitFor = Null
    /\ recovering = {} /\ backup = FALSE
    /\ diskLow = FALSE /\ lastExit = "none"
    /\ faults = 0

-----------------------------------------------------------------------------
(* The environment. *)

(* One of the things that may go wrong at any time, within their bound. *)
Fault == faults < MaxFaults /\ faults' = faults + 1

Enqueue(j) ==
    /\ row[j].status = "absent"
    /\ row' = [row EXCEPT ![j].status = "queued"]
    /\ UNCHANGED <<processVars, worldVars>>

(* Nobody extends the lease of an attempt whose process is gone. *)
OrphanExpires(j) ==
    /\ row[j].status = "processing" /\ ~Holds(j) /\ ~row[j].expired
    /\ row' = [row EXCEPT ![j].expired = TRUE]
    /\ UNCHANGED <<processVars, worldVars>>

(* The heartbeats of a live attempt fail for as long as the lease lasts. *)
LeaseLapses(j) ==
    /\ Holds(j) /\ ~row[j].expired
    /\ Fault
    /\ row' = [row EXCEPT ![j].expired = TRUE]
    /\ UNCHANGED <<processVars, diskLow, lastExit>>

(* A heartbeat gets through again before any sweep. *)
LeaseExtended(j) ==
    /\ Holds(j) /\ row[j].expired /\ currentJobId = j
    /\ row' = [row EXCEPT ![j].expired = FALSE]
    /\ UNCHANGED <<processVars, worldVars>>

DiskFills ==
    /\ ~diskLow /\ Fault
    /\ diskLow' = TRUE
    /\ UNCHANGED <<row, processVars, lastExit>>

DiskFreed ==
    /\ diskLow
    /\ diskLow' = FALSE
    /\ UNCHANGED <<row, processVars, lastExit, faults>>

BackupStarts ==
    /\ BackupsOn /\ ~backup
    /\ backup' = TRUE
    /\ UNCHANGED <<row, loopVars, stopVars, recovering, worldVars>>

BackupEnds ==
    /\ backup
    /\ backup' = FALSE
    /\ UNCHANGED <<row, loopVars, stopVars, recovering, worldVars>>

(* Killed, out of memory, or an error that leaves start(): exit code 1. *)
Crash ==
    /\ Up /\ Fault
    /\ Exit("crash")
    /\ UNCHANGED <<row, diskLow>>

-----------------------------------------------------------------------------
(* Mutant: a requeue forgives the failures so far. *)
MutRequeuedForgives(r) ==
    [r EXCEPT !.status = "queued", !.expired = FALSE, !.retryCount = 0]

(* requeueStale(), one of its rows, called by the recovery or the sweeper. *)
Requeued(r) == [r EXCEPT !.status = "queued", !.expired = FALSE]

(* start(): running is set, the recovery lists the stale rows. *)
Boot ==
    /\ ~Up
    /\ loop' = "recover" /\ running' = TRUE
    /\ recovering' = {j \in Job : Stale(j)}
    /\ UNCHANGED <<row, mine, currentJobId, shuttingDown, stopping, polls, waitFor,
                   backup, worldVars>>

RecoverJob(j) ==
    /\ j \in recovering
    /\ recovering' = recovering \ {j}
    /\ row' = [row EXCEPT ![j] = IF Stale(j) THEN Requeued(@) ELSE @]
    /\ UNCHANGED <<loopVars, stopVars, backup, worldVars>>

EnterLoop ==
    /\ loop = "recover" /\ recovering = {}
    /\ loop' = LoopHead
    /\ UNCHANGED <<row, stopVars, mine, currentJobId, recovering, backup, worldVars>>

(* The sweeper requeues one stale row: it may be the one in hand. *)
SweepJob(j) ==
    /\ SweeperOn /\ Stale(j)
    /\ row' = [row EXCEPT ![j] = Requeued(@)]
    /\ UNCHANGED <<processVars, worldVars>>

-----------------------------------------------------------------------------
(* The main loop. *)

PauseEnds ==
    /\ loop \in {"pause", "sleep"}
    /\ loop' = LoopHead
    /\ UNCHANGED <<row, stopVars, mine, currentJobId, recovering, backup, worldVars>>

ClaimNone ==
    /\ loop = "claim"
    /\ \A j \in Job : row[j].status \notin Claimable
    /\ loop' = "sleep"
    /\ UNCHANGED <<row, stopVars, mine, currentJobId, recovering, backup, worldVars>>

(* The database commits the claim; the answer is on its way. *)
ClaimCommit(j) ==
    /\ loop = "claim"
    /\ row[j].status \in Claimable
    /\ row' = [row EXCEPT ![j].status = "processing", ![j].attempt = @ + 1,
                          ![j].expired = FALSE]
    /\ loop' = "claimed"
    /\ mine' = [job |-> j, attempt |-> row[j].attempt + 1]
    /\ UNCHANGED <<stopVars, currentJobId, recovering, backup, worldVars>>

(* The await of claim() returns: currentJobId and the heartbeat are set. *)
ClaimReturns ==
    /\ loop = "claimed"
    /\ currentJobId' = mine.job
    /\ loop' = "process"
    /\ UNCHANGED <<row, stopVars, mine, recovering, backup, worldVars>>

ProcessEnds ==
    /\ loop = "process"
    /\ loop' \in {"complete", "fail"}
    /\ UNCHANGED <<row, stopVars, mine, currentJobId, recovering, backup, worldVars>>

(* complete() applies or is fenced off; or it throws, before or after its  *)
(* commit, and the catch block takes over.                                 *)
Complete ==
    LET j == mine.job
        completed == [row EXCEPT ![j].status = "completed", ![j].expired = FALSE]
    IN  /\ loop = "complete"
        /\ \/ /\ Finally
              /\ row' = IF Holds(j) THEN completed ELSE row
           \/ /\ loop' = "fail"
              /\ row' \in {row, IF Holds(j) THEN completed ELSE row}
              /\ UNCHANGED <<mine, currentJobId>>
        /\ UNCHANGED <<stopVars, recovering, backup, worldVars>>

(* Mutant: one retry too many. *)
MutRetryOnceMore(r) ==
    [r EXCEPT !.retryCount = @ + 1, !.expired = FALSE,
              !.status = IF r.retryCount + 1 > MaxRetries THEN "dead_letter" ELSE "failed"]

FailedRow(r) ==
    [r EXCEPT !.retryCount = @ + 1, !.expired = FALSE,
              !.status = IF r.retryCount + 1 >= MaxRetries THEN "dead_letter" ELSE "failed"]

(* fail(); when it throws the process exits (Crash). *)
Fail ==
    LET j == mine.job
    IN  /\ loop = "fail"
        /\ Finally
        /\ row' = [row EXCEPT ![j] = IF Holds(j) THEN FailedRow(@) ELSE @]
        /\ UNCHANGED <<stopVars, recovering, backup, worldVars>>

-----------------------------------------------------------------------------
(* stop(), called by every signal; the handler exits when it returns.      *)

Signalled == Up /\ Fault

(* No current job: only a running backup is waited for. *)
StopIdle ==
    /\ Signalled /\ ~shuttingDown /\ currentJobId = Null
    /\ \/ ~backup /\ Exit("idle")
       \/ /\ backup
          /\ shuttingDown' = TRUE /\ running' = FALSE
          /\ stopping' = "idleBackup"
          /\ UNCHANGED <<loopVars, polls, waitFor, recovering, backup, lastExit>>
    /\ UNCHANGED <<row, diskLow>>

(* A current job: it is waited for, with running still set. *)
StopWait ==
    /\ Signalled /\ ~shuttingDown /\ currentJobId # Null
    /\ shuttingDown' = TRUE
    /\ stopping' = "waiting"
    /\ waitFor' = mine
    /\ UNCHANGED <<row, loopVars, running, polls, recovering, backup, diskLow, lastExit>>

(* A second signal: stop() returns at once and the handler exits. *)
StopAgain ==
    /\ Signalled /\ shuttingDown
    /\ Exit("forced")
    /\ UNCHANGED <<row, diskLow>>

StopPoll ==
    /\ stopping = "waiting" /\ currentJobId # Null /\ polls < MaxPolls
    /\ polls' = polls + 1
    /\ UNCHANGED <<row, loopVars, running, shuttingDown, stopping, waitFor,
                   recovering, backup, worldVars>>

WaitedExit == Exit(IF currentJobId = Null THEN "finished" ELSE "timeout")

(* Mutant: the wait has no deadline. *)
MutNoDeadline == FALSE

DeadlinePassed == polls = MaxPolls

(* The wait is over, by a poll that saw no job or by the deadline. *)
StopWaited ==
    /\ stopping = "waiting" /\ (currentJobId = Null \/ DeadlinePassed)
    /\ \/ ~backup /\ WaitedExit
       \/ /\ backup
          /\ running' = FALSE
          /\ stopping' = "waitedBackup"
          /\ UNCHANGED <<loopVars, shuttingDown, polls, waitFor, recovering, backup, lastExit>>
    /\ UNCHANGED <<row, diskLow, faults>>

(* The backup has ended, or its own 30 s have passed. *)
StopBackupWaited ==
    /\ \/ stopping = "idleBackup" /\ Exit("idle")
       \/ stopping = "waitedBackup" /\ WaitedExit
    /\ UNCHANGED <<row, diskLow, faults>>

-----------------------------------------------------------------------------
LoopStep ==
    \/ EnterLoop \/ PauseEnds
    \/ ClaimNone \/ (\E j \in Job : ClaimCommit(j)) \/ ClaimReturns
    \/ ProcessEnds \/ Complete \/ Fail

StopStep == StopPoll \/ StopWaited \/ StopBackupWaited

Next ==
    \/ \E j \in Job : \/ Enqueue(j) \/ OrphanExpires(j) \/ LeaseLapses(j)
                      \/ LeaseExtended(j) \/ RecoverJob(j) \/ SweepJob(j)
    \/ DiskFills \/ DiskFreed \/ BackupStarts \/ BackupEnds \/ Crash
    \/ Boot \/ LoopStep
    \/ StopIdle \/ StopWait \/ StopAgain \/ StopStep

(* The event loop resumes every await whose operation has ended, statements *)
(* and ffmpeg runs end, leases run out, timers fire, the runtime restarts   *)
(* the container and somebody frees the disk. Crashes, signals, lapses and  *)
(* a full disk are never owed.                                              *)
Fairness ==
    /\ WF_vars(Boot) /\ WF_vars(LoopStep) /\ WF_vars(StopStep) /\ WF_vars(DiskFreed)
    /\ \A j \in Job : WF_vars(OrphanExpires(j)) /\ WF_vars(RecoverJob(j))
                      /\ WF_vars(SweepJob(j))

Spec == Init /\ [][Next]_vars
-----------------------------------------------------------------------------
(* The local job exists during an iteration only, and currentJobId names   *)
(* it from the return of claim() to the finally block.                     *)
LoopInv ==
    /\ mine # Null <=> loop \in InHand
    /\ currentJobId = IF loop \in InHand \ {"claimed"} THEN mine.job ELSE Null
    /\ recovering # {} => loop = "recover"

(* stop() is in one of its waits while shuttingDown is set; running is set *)
(* from start() until stop() has no current job to wait for any more.      *)
StopInv ==
    /\ shuttingDown <=> stopping # "no"
    /\ running <=> Up /\ stopping \in {"no", "waiting"}
    /\ ~Up => stopping = "no"

(* A row is dead with its MaxRetries-th failure and not before, however    *)
(* its attempts were lost, swept away, restarted or repeated in between.   *)
RetryInv ==
    \A j \in Job : row[j].retryCount = MaxRetries <=> row[j].status = "dead_letter"

(* What the process and the rows may look like together, after any number  *)
(* of signals, crashes, exits and restarts (runner.ts: start, stop).       *)
WorkerInv == TypeOK /\ LoopInv /\ StopInv /\ RetryInv

(* No job is forgotten: through crashes, shutdowns, lost answers, expired  *)
(* leases and a full disk, every queued job is completed or dead-lettered. *)
JobsSettle == Fairness =>
    \A j \in Job : row[j].status = "queued" ~> row[j].status \in Terminal

(* A requested shutdown ends the process even if the job, the database and *)
(* the backup hang: both waits of stop() are bounded, and its own timers   *)
(* are all that has to go on.                                              *)
ShutdownEnds == WF_vars(StopStep) => (shuttingDown ~> ~Up)

(* Once stop() has given up waiting (running is FALSE), the loop takes no  *)
(* new job: at most the claim already under way still comes back.          *)
NoClaimOnceStopped ==
    [][~running /\ loop # "claim" => loop' # "claim"]_vars

(* The process goes down now, and stop() says so with this message. *)
Exits(kind) == Up /\ loop' = "down" /\ lastExit' = kind

(* "Active job finished. Exiting cleanly." (runner.ts) is said over no     *)
(* attempt that runs: the only job such an exit can abandon is one whose   *)
(* claim has not come back yet.                                            *)
FinishedMeansFinished ==
    [][Exits("finished") => \A j \in Job : Holds(j) => loop = "claimed"]_vars

(* What a stop may rely on: both of these.                                 *)
StopIsOrderly == NoClaimOnceStopped /\ FinishedMeansFinished

Leased == INSTANCE LeasedJobs WITH
              Worker <- {Runner},
              status <- [j \in Job |-> row[j].status],
              tries <- [j \in Job |-> row[j].retryCount],
              holder <- [j \in Job |-> IF Holds(j) THEN Runner ELSE Null]

(* The main loop with its crashes, exits and restarts implements the       *)
(* abstract queue: an exit costs a job no retry and a job restarted or     *)
(* swept away under a live attempt is not ended by that attempt.           *)
ImplementsLeasedJobs == Leased!Spec

-----------------------------------------------------------------------------
(* "Wait for current job to finish", "Timeout waiting for job"             *)
(* (runner.ts:138,151): when the deadline passes, the job in hand is the   *)
(* one stop() was waiting for.                                             *)
TimeoutIsOfAwaitedJob ==
    [][Exits("timeout") => mine = waitFor]_vars
=============================================================================

--------------------------- MODULE TranscodeQueue ---------------------------
(***************************************************************************)
(* The transcode job queue of redprint-worker: the media_transcode_jobs    *)
(* and asset_media rows, the query functions of                            *)
(* src/lib/transcode/queue-queries.ts, and the worker processes            *)
(* (worker/runner.ts, sweeper.ts, recovery.ts) that call them.             *)
(*                                                                         *)
(* One action is one atomic database step or one local step of a worker.   *)
(* A function that awaits between reading and writing (claim, fail,        *)
(* requeueStale) is several actions, and everything else may happen in     *)
(* between: other workers, lease expiry, crashes, late heartbeats.         *)
(*                                                                         *)
(* There is one job per media (one job type exists, video_mp4), so a Job   *)
(* names the media row as well.                                            *)
(***************************************************************************)
EXTENDS Integers, FiniteSets

CONSTANTS
    Job,                \* media, each with at most one job row
    Worker,             \* worker processes sharing the database
    Null,               \* SQL NULL, and "no job" in a worker
    Lease,              \* LEASE_DURATION_MS
    HeartbeatInterval,  \* HEARTBEAT_INTERVAL_MS
    MaxRetries,         \* max_retries of every row (DEFAULT_MAX_RETRIES)
    MaxClaimDelay,      \* longest time from claim()'s new Date() to its commit
    MaxBeats,           \* bound: heartbeat statements in flight at once
    MaxClock            \* bound: the last instant of the model

ASSUME JobAssumption == IsFiniteSet(Job)
ASSUME NullAssumption == Null \notin Job /\ Null \notin Nat
ASSUME WorkerAssumption == Null \notin Worker
ASSUME RetryAssumption == MaxRetries \in Nat \ {0}
ASSUME BoundAssumption == MaxBeats \in Nat /\ MaxClock \in Nat

(* The order of magnitudes constants.ts fixes: a claim transaction commits *)
(* well within the heartbeat interval (60 s), which is below the lease     *)
(* (900 s).                                                                *)
ASSUME TimingAssumption ==
    /\ Lease \in Nat /\ HeartbeatInterval \in Nat /\ MaxClaimDelay \in Nat
    /\ MaxClaimDelay < HeartbeatInterval
    /\ HeartbeatInterval < Lease

VARIABLES
    clock,      \* Date.now() of the workers' host
    job,        \* media_transcode_jobs: one row per job
    media,      \* asset_media.transcodeStatus
    variant,    \* media_variants: does the job's row exist
    worker,     \* the local state of every worker process
    sweep,      \* the requeueStale() call each worker is in
    beats,      \* heartbeat() statements sent and not yet executed
    attempts,   \* history: claims committed per job
    failures    \* history: fail() calls applied per job

dbVars == <<job, media, variant, attempts, failures>>
vars == <<clock, job, media, variant, worker, sweep, beats, attempts, failures>>

-----------------------------------------------------------------------------
Claimable == {"queued", "failed"}
Terminal == {"completed", "dead_letter"}
Status == {"absent", "queued", "processing", "failed"} \cup Terminal

Time == Nat \cup {Null}

JobRow == [status: Status, retryCount: 0..MaxRetries, startedAt: Time,
           leaseExpiresAt: Time, createdAt: Nat, completedAt: BOOLEAN]

NoRow == [status |-> "absent", retryCount |-> 0, startedAt |-> Null,
          leaseExpiresAt |-> Null, createdAt |-> 0, completedAt |-> FALSE]

(* pc "down": not running; "recovering": in recoverStaleJobs(); "idle":    *)
(* between iterations; "claiming": claim() took its timestamp; "selected": *)
(* claim() holds a row lock; "working": in processJob() or complete();     *)
(* "failing" and "failUpdate": before and after the SELECT of fail().      *)
(* startedAt is claimStartedAt, the fence of this attempt; retryCount is   *)
(* what fail() read; attempt is history.                                   *)
WorkerState == [pc: {"down", "recovering", "idle", "claiming", "selected",
                     "working", "failing", "failUpdate"},
                job: Job \cup {Null}, now: Nat, startedAt: Nat,
                attempt: Nat, retryCount: 0..MaxRetries]

Down == [pc |-> "down", job |-> Null, now |-> 0, startedAt |-> 0,
         attempt |-> 0, retryCount |-> 0]
Idle == [Down EXCEPT !.pc = "idle"]
Working(j, startedAt, attempt) ==
    [pc |-> "working", job |-> j, now |-> 0, startedAt |-> startedAt,
     attempt |-> attempt, retryCount |-> 0]

NoSweep == [now |-> 0, todo |-> {}]
Sweep == [now: Nat, todo: SUBSET Job]
Beat == [job: Job, startedAt: Nat, attempt: Nat, at: Nat]

-----------------------------------------------------------------------------
(* toTranscodeStatus(): the documented mapping of a job's status to its    *)
(* media's transcodeStatus.                                                *)
toTranscodeStatus(s) ==
    CASE s = "processing" -> "processing"
      [] s = "completed" -> "completed"
      [] s \in {"failed", "dead_letter"} -> "failed"
      [] OTHER -> "pending"

(* Mutant: the fence does not compare startedAt. *)
MutFenceNoStamp(j, startedAt) == job[j].status = "processing"
(* The (jobId + processing + startedAt) fence of heartbeat(), complete()   *)
(* and fail().                                                             *)
Fenced(j, startedAt) ==
    /\ job[j].status = "processing"
    /\ job[j].startedAt = startedAt

(* Mutant: the lease is not looked at. *)
MutStaleAnyLease(j, now) == job[j].status = "processing"

(* The WHERE clause of both statements of requeueStale(). *)
Stale(j, now) ==
    /\ job[j].status = "processing"
    /\ job[j].leaseExpiresAt < now

(* Mutant: the SELECT takes no row lock. *)
MutLockedNever(j) == FALSE

(* Rows another claim() transaction holds FOR UPDATE. *)
Locked(j) == \E w \in Worker : worker[w].pc = "selected" /\ worker[w].job = j

(* The row SELECT ... ORDER BY created_at LIMIT 1 FOR UPDATE SKIP LOCKED   *)
(* can return.                                                             *)
Selectable(j) ==
    LET open == {k \in Job : job[k].status \in Claimable /\ ~Locked(k)}
    IN  j \in open /\ \A k \in open : job[j].createdAt <= job[k].createdAt

(* The rows requeueStale() lists when it runs now. *)
StaleSweep ==
    LET stale == {j \in Job : Stale(j, clock)}
    IN  IF stale = {} THEN NoSweep ELSE [now |-> clock, todo |-> stale]

(* The rest of a sweep once row j is handled. *)
SweepWithout(s, j) ==
    IF s.todo = {j} THEN NoSweep ELSE [s EXCEPT !.todo = s.todo \ {j}]

-----------------------------------------------------------------------------
(* What each UPDATE of media_transcode_jobs writes, as a function of the   *)
(* row it finds.                                                           *)

NewRow(createdAt) ==
    [status |-> "queued", retryCount |-> 0, startedAt |-> Null,
     leaseExpiresAt |-> Null, createdAt |-> createdAt, completedAt |-> FALSE]

ClaimedRow(row, now) ==
    [row EXCEPT !.status = "processing", !.startedAt = now,
                !.leaseExpiresAt = now + Lease, !.completedAt = FALSE]

CompletedRow(row) == [row EXCEPT !.status = "completed", !.completedAt = TRUE]

(* Mutant: a requeue forgives the failures so far. *)
MutRequeueResetsRetries(row) ==
    [row EXCEPT !.status = "queued", !.startedAt = Null, !.leaseExpiresAt = Null,
                !.retryCount = 0]

RequeuedRow(row) ==
    [row EXCEPT !.status = "queued", !.startedAt = Null, !.leaseExpiresAt = Null]

(* fail(): no retry is left. *)
Exhausted(newRetryCount) == newRetryCount >= MaxRetries

FailedRow(row, newRetryCount) ==
    [row EXCEPT !.status = IF Exhausted(newRetryCount) THEN "dead_letter" ELSE "failed",
                !.retryCount = newRetryCount,
                !.startedAt = Null, !.leaseExpiresAt = Null,
                !.completedAt = Exhausted(newRetryCount)]

(* The transcodeStatus fail() writes. *)
FailedMedia(newRetryCount) == IF Exhausted(newRetryCount) THEN "failed" ELSE "pending"

(* A worker is in an attempt from the return of claim() to the finally     *)
(* block of the main loop; its heartbeat timer runs exactly then.          *)
InAttempt(w) == worker[w].pc \in {"working", "failing", "failUpdate"}
OwnsRow(w) == InAttempt(w) /\ Fenced(worker[w].job, worker[w].startedAt)

Init ==
    /\ clock = 0
    /\ job = [j \in Job |-> NoRow]
    /\ media = [j \in Job |-> Null]
    /\ variant = [j \in Job |-> FALSE]
    /\ worker = [w \in Worker |-> Down]
    /\ sweep = [w \in Worker |-> NoSweep]
    /\ beats = {}
    /\ attempts = [j \in Job |-> 0]
    /\ failures = [j \in Job |-> 0]

-----------------------------------------------------------------------------
(* Time passes, but not beyond the delay allowed to a claim in progress. *)
Tick ==
    /\ clock < MaxClock
    /\ \A w \in Worker : worker[w].pc \in {"claiming", "selected"} =>
                             clock < worker[w].now + MaxClaimDelay
    /\ clock' = clock + 1
    /\ UNCHANGED <<dbVars, worker, sweep, beats>>

(* enqueue(): the unique idempotency key makes a second call a no-op.      *)
(* createdAt is abstracted to the order of the inserts.                    *)
Enqueue(j) ==
    /\ job[j].status = "absent"
    /\ job' = [job EXCEPT ![j] =
                 NewRow(Cardinality({k \in Job : job[k].status # "absent"}) + 1)]
    /\ media' = [media EXCEPT ![j] = "pending"]
    /\ UNCHANGED <<clock, variant, worker, sweep, beats, attempts, failures>>

-----------------------------------------------------------------------------
(* start(): recoverStaleJobs() runs before the main loop. *)
Start(w) ==
    /\ worker[w].pc = "down"
    /\ worker' = [worker EXCEPT ![w].pc = "recovering"]
    /\ sweep' = [sweep EXCEPT ![w] = StaleSweep]
    /\ UNCHANGED <<clock, dbVars, beats>>

Recovered(w) ==
    /\ worker[w].pc = "recovering"
    /\ sweep[w] = NoSweep
    /\ worker' = [worker EXCEPT ![w] = Idle]
    /\ UNCHANGED <<clock, dbVars, sweep, beats>>

(* The sweeper's timer fires: requeueStale() lists the stale rows. *)
SweepSelect(w) ==
    /\ worker[w].pc \notin {"down", "recovering"}
    /\ sweep[w] = NoSweep
    /\ sweep' = [sweep EXCEPT ![w] = StaleSweep]
    /\ UNCHANGED <<clock, dbVars, worker, beats>>

(* requeueStale() handles one of the rows it listed: the UPDATE repeats    *)
(* the condition, with the timestamp of the SELECT.                        *)
RequeueStale(w, j) ==
    /\ j \in sweep[w].todo
    /\ sweep' = [sweep EXCEPT ![w] = SweepWithout(sweep[w], j)]
    /\ \/ /\ Stale(j, sweep[w].now)
          /\ job' = [job EXCEPT ![j] = RequeuedRow(job[j])]
          /\ media' = [media EXCEPT ![j] = "pending"]
       \/ /\ ~Stale(j, sweep[w].now)
          /\ UNCHANGED <<job, media>>
    /\ UNCHANGED <<clock, variant, worker, beats, attempts, failures>>

(* A statement of requeueStale() throws and the periodic sweep ends early. *)
SweepError(w) ==
    /\ worker[w].pc # "recovering"
    /\ sweep[w] # NoSweep
    /\ sweep' = [sweep EXCEPT ![w] = NoSweep]
    /\ UNCHANGED <<clock, dbVars, worker, beats>>

-----------------------------------------------------------------------------
(* claim(): the timestamp is taken before the transaction begins. *)
ClaimBegin(w) ==
    /\ worker[w].pc = "idle"
    /\ worker' = [worker EXCEPT ![w].pc = "claiming", ![w].now = clock]
    /\ UNCHANGED <<clock, dbVars, sweep, beats>>

(* The locking SELECT of claim() returns a row ... *)
ClaimSelect(w, j) ==
    /\ worker[w].pc = "claiming"
    /\ Selectable(j)
    /\ worker' = [worker EXCEPT ![w].pc = "selected", ![w].job = j]
    /\ UNCHANGED <<clock, dbVars, sweep, beats>>

(* ... or none, and the loop backs off. *)
ClaimEmpty(w) ==
    /\ worker[w].pc = "claiming"
    /\ \A j \in Job : ~Selectable(j)
    /\ worker' = [worker EXCEPT ![w] = Idle]
    /\ UNCHANGED <<clock, dbVars, sweep, beats>>

(* The UPDATE of claim(), by id only, and the commit. *)
ClaimCommit(w) ==
    LET j == worker[w].job
        now == worker[w].now
    IN  /\ worker[w].pc = "selected"
        /\ job' = [job EXCEPT ![j] = ClaimedRow(job[j], now)]
        /\ media' = [media EXCEPT ![j] = "processing"]
        /\ attempts' = [attempts EXCEPT ![j] = @ + 1]
        /\ worker' = [worker EXCEPT ![w] = Working(j, now, attempts[j] + 1)]
        /\ UNCHANGED <<clock, variant, sweep, beats, failures>>

-----------------------------------------------------------------------------
(* The heartbeat timer fires: a statement leaves with the timestamp taken  *)
(* now. The timer does not wait for the previous statement.                *)
HeartbeatSend(w) ==
    /\ InAttempt(w)
    /\ clock >= worker[w].startedAt + HeartbeatInterval
    /\ Cardinality(beats) < MaxBeats
    /\ beats' = beats \cup {[job |-> worker[w].job, startedAt |-> worker[w].startedAt,
                             attempt |-> worker[w].attempt, at |-> clock]}
    /\ UNCHANGED <<clock, dbVars, worker, sweep>>

(* heartbeat()'s UPDATE executes; outside the fence it changes no row. *)
Heartbeat(b) ==
    /\ b \in beats
    /\ beats' = beats \ {b}
    /\ \/ /\ Fenced(b.job, b.startedAt)
          /\ job' = [job EXCEPT ![b.job].leaseExpiresAt = b.at + Lease]
       \/ /\ ~Fenced(b.job, b.startedAt)
          /\ UNCHANGED job
    /\ UNCHANGED <<clock, media, variant, worker, sweep, attempts, failures>>

(* A heartbeat never reaches the database; the error is only logged. *)
HeartbeatLost(b) ==
    /\ b \in beats
    /\ beats' = beats \ {b}
    /\ UNCHANGED <<clock, dbVars, worker, sweep>>

-----------------------------------------------------------------------------
(* complete(): one transaction. When the row is fenced off it changes      *)
(* nothing ({applied: false}). When the commit's answer is lost the call   *)
(* throws although the transaction took effect, and the loop goes on to    *)
(* fail().                                                                 *)
Complete(w) ==
    LET j == worker[w].job
    IN  /\ worker[w].pc = "working"
        /\ \/ /\ Fenced(j, worker[w].startedAt)
              /\ job' = [job EXCEPT ![j] = CompletedRow(job[j])]
              /\ variant' = [variant EXCEPT ![j] = TRUE]
              /\ media' = [media EXCEPT ![j] = "completed"]
              /\ \/ worker' = [worker EXCEPT ![w] = Idle]
                 \/ worker' = [worker EXCEPT ![w].pc = "failing"]
           \/ /\ ~Fenced(j, worker[w].startedAt)
              /\ worker' = [worker EXCEPT ![w] = Idle]
              /\ UNCHANGED <<job, media, variant>>
        /\ UNCHANGED <<clock, sweep, beats, attempts, failures>>

(* processJob() throws, or complete() throws without having committed. *)
ProcessError(w) ==
    /\ worker[w].pc = "working"
    /\ worker' = [worker EXCEPT ![w].pc = "failing"]
    /\ UNCHANGED <<clock, dbVars, sweep, beats>>

(* fail(): the SELECT takes no lock and does not look at startedAt. *)
FailRead(w) ==
    LET j == worker[w].job
    IN  /\ worker[w].pc = "failing"
        /\ \/ /\ job[j].status = "processing"
              /\ worker' = [worker EXCEPT ![w].pc = "failUpdate",
                                          ![w].retryCount = job[j].retryCount]
           \/ /\ job[j].status # "processing"
              /\ worker' = [worker EXCEPT ![w] = Idle]
        /\ UNCHANGED <<clock, dbVars, sweep, beats>>

(* fail(): the fenced UPDATE writes the count computed from what was read. *)
FailUpdate(w) ==
    LET j == worker[w].job
        newRetryCount == worker[w].retryCount + 1
    IN  /\ worker[w].pc = "failUpdate"
        /\ \/ /\ Fenced(j, worker[w].startedAt)
              /\ job' = [job EXCEPT ![j] = FailedRow(job[j], newRetryCount)]
              /\ media' = [media EXCEPT ![j] = FailedMedia(newRetryCount)]
              /\ failures' = [failures EXCEPT ![j] = @ + 1]
           \/ /\ ~Fenced(j, worker[w].startedAt)
              /\ UNCHANGED <<job, media, failures>>
        /\ worker' = [worker EXCEPT ![w] = Idle]
        /\ UNCHANGED <<clock, variant, sweep, beats, attempts>>

-----------------------------------------------------------------------------
(* The process dies: killed by a signal, or a claim(), fail() or recovery  *)
(* error that leaves start() and ends in process.exit(1). Its transaction  *)
(* is rolled back and its row locks go; statements already sent still run. *)
Crash(w) ==
    /\ worker[w].pc # "down"
    /\ worker' = [worker EXCEPT ![w] = Down]
    /\ sweep' = [sweep EXCEPT ![w] = NoSweep]
    /\ UNCHANGED <<clock, dbVars, beats>>

Next ==
    \/ Tick
    \/ \E j \in Job : Enqueue(j)
    \/ \E w \in Worker :
         \/ Start(w) \/ Recovered(w) \/ Crash(w)
         \/ SweepSelect(w) \/ SweepError(w)
         \/ ClaimBegin(w) \/ ClaimEmpty(w) \/ ClaimCommit(w)
         \/ HeartbeatSend(w)
         \/ Complete(w) \/ ProcessError(w) \/ FailRead(w) \/ FailUpdate(w)
    \/ \E w \in Worker, j \in Job : RequeueStale(w, j) \/ ClaimSelect(w, j)
    \/ \E b \in beats : Heartbeat(b) \/ HeartbeatLost(b)

Spec == Init /\ [][Next]_vars
-----------------------------------------------------------------------------
TypeOK ==
    /\ clock \in Nat
    /\ job \in [Job -> JobRow]
    /\ media \in [Job -> {Null, "pending", "processing", "completed", "failed"}]
    /\ variant \in [Job -> BOOLEAN]
    /\ worker \in [Worker -> WorkerState]
    /\ sweep \in [Worker -> Sweep]
    /\ beats \subseteq Beat
    /\ attempts \in [Job -> Nat]
    /\ failures \in [Job -> Nat]

(* No two worker processes own the same job at once: claim() hands a row   *)
(* to one worker although its UPDATE is by id only, and a worker whose job *)
(* was requeued and reclaimed has lost it.                                 *)
AtMostOneOwner ==
    \A v, w \in Worker :
        OwnsRow(v) /\ OwnsRow(w) /\ worker[v].job = worker[w].job => v = w

(* "Uses (jobId + startedAt + processing) fence so stale workers can't     *)
(* overwrite newer attempts" (queue-queries.ts): whatever still holds the  *)
(* timestamp of an attempt - a worker before complete() or fail(), a       *)
(* heartbeat on its way - passes the fence only while that attempt is the  *)
(* latest one. The timestamp is taken before the claim's transaction, so   *)
(* this is a matter of timing and not of construction.                     *)
FenceIdentifiesAttempt ==
    /\ \A w \in Worker : OwnsRow(w) => worker[w].attempt = attempts[worker[w].job]
    /\ \A b \in beats : Fenced(b.job, b.startedAt) => b.attempt = attempts[b.job]

(* retry_count counts exactly the fail() calls that took effect: none is   *)
(* lost between fail()'s unlocked SELECT and its UPDATE, none is counted   *)
(* twice, requeues keep it, and a job is dead exactly when it is used up.  *)
RetryAccounting ==
    \A j \in Job :
        /\ job[j].retryCount = failures[j]
        /\ failures[j] <= attempts[j]
        /\ job[j].status = "dead_letter" <=> failures[j] = MaxRetries

(* The columns of a row agree with its status in every state a reader can  *)
(* see: only attempts have a start and a lease, the lease is never shorter *)
(* than the one the claim took, and completed_at marks the final states.   *)
RowWellFormed ==
    \A j \in Job :
        /\ job[j].status \in {"processing", "completed"} =>
              /\ job[j].startedAt \in Nat
              /\ job[j].leaseExpiresAt \in Nat
              /\ job[j].leaseExpiresAt >= job[j].startedAt + Lease
        /\ job[j].status \notin {"processing", "completed"} =>
              job[j].startedAt = Null /\ job[j].leaseExpiresAt = Null
        /\ job[j].completedAt <=> job[j].status \in Terminal

(* asset_media and media_variants follow the job through every path,       *)
(* retries and requeues included: a variant exists exactly for completed   *)
(* jobs and media is "failed" only when no retry is left.                  *)
MediaInSync ==
    \A j \in Job :
        /\ variant[j] <=> job[j].status = "completed"
        /\ media[j] = CASE job[j].status = "absent" -> Null
                        [] job[j].status = "failed" -> "pending"
                        [] OTHER -> toTranscodeStatus(job[j].status)

(* A job leaves "processing" through complete() or fail() only by the hand *)
(* of the worker running its latest attempt.                               *)
OnlyOwnerEndsAttempt ==
    [][\A j \in Job :
         /\ job[j].status = "processing"
         /\ job'[j].status \in {"completed", "failed", "dead_letter"}
         => \E w \in Worker : /\ InAttempt(w)
                              /\ worker[w].job = j
                              /\ worker[w].attempt = attempts[j]
                              /\ worker'[w] # worker[w]]_vars

(* requeueStale() takes no job whose lease has not expired at the moment   *)
(* of the UPDATE, however old its list is: a heartbeat or a new claim in   *)
(* between saves the job.                                                  *)
RequeueOnlyExpired ==
    [][\A j \in Job :
         job[j].status = "processing" /\ job'[j].status = "queued"
         => job[j].leaseExpiresAt < clock]_vars

(* Completed and dead-lettered rows are never written again: not by a late *)
(* heartbeat, not by fail() after a complete() whose answer was lost, not  *)
(* by another claim.                                                       *)
TerminalIsFinal ==
    [][\A j \in Job : job[j].status \in Terminal =>
         /\ job'[j] = job[j] /\ media'[j] = media[j] /\ variant'[j] = variant[j]]_vars

-----------------------------------------------------------------------------
(* The inductive invariant that carries the safety properties above.       *)

(* Counts and claims: a running attempt has not been counted yet. *)
CountInv ==
    \A j \in Job :
        /\ job[j].status = "absent" => attempts[j] = 0
        /\ job[j].status = "processing" => failures[j] < attempts[j]

(* A claim in progress is young, and its row is its own. *)
ClaimInv ==
    /\ \A w \in Worker :
         /\ worker[w].pc \in {"claiming", "selected"} =>
               worker[w].now <= clock /\ clock <= worker[w].now + MaxClaimDelay
         /\ worker[w].pc = "selected" =>
               worker[w].job \in Job /\ job[worker[w].job].status \in Claimable
    /\ \A v, w \in Worker :
         /\ worker[v].pc = "selected" /\ worker[w].pc = "selected"
         /\ worker[v].job = worker[w].job
         => v = w

(* An attempt either is the latest one, with the timestamp in the row, or  *)
(* it was taken away because its lease ran out.                            *)
AttemptOK(w) ==
    LET me == worker[w]
        row == job[worker[w].job]
    IN  /\ me.job \in Job
        /\ 1 <= me.attempt /\ me.attempt <= attempts[me.job]
        /\ me.startedAt <= clock
        /\ me.attempt < attempts[me.job] \/ row.status \in Claimable
              => me.startedAt + Lease < clock
        /\ row.status = "processing" =>
              IF me.attempt = attempts[me.job]
              THEN /\ me.startedAt = row.startedAt
                   /\ me.pc = "failUpdate" => me.retryCount = row.retryCount
              ELSE me.startedAt < row.startedAt

AttemptInv ==
    /\ \A w \in Worker : InAttempt(w) => AttemptOK(w)
    /\ \A v, w \in Worker :
         /\ InAttempt(v) /\ InAttempt(w)
         /\ worker[v].job = worker[w].job /\ worker[v].attempt = worker[w].attempt
         => v = w

(* A heartbeat was sent at least one interval after its attempt began. *)
BeatInv ==
    \A b \in beats :
        /\ b.startedAt + HeartbeatInterval <= b.at /\ b.at <= clock
        /\ b.attempt <= attempts[b.job]
        /\ job[b.job].status = "processing" =>
              IF b.attempt = attempts[b.job] THEN b.startedAt = job[b.job].startedAt
                                             ELSE b.startedAt < job[b.job].startedAt

SweepInv == \A w \in Worker : sweep[w].now <= clock

IInv ==
    /\ TypeOK
    /\ RetryAccounting /\ RowWellFormed /\ MediaInSync
    /\ CountInv /\ ClaimInv /\ AttemptInv /\ BeatInv /\ SweepInv

-----------------------------------------------------------------------------
(* The queue implements LeasedJobs. A job is held by the worker that can   *)
(* still pass its fence; a worker that died or was fenced off holds        *)
(* nothing, whatever the row says.                                         *)

Owner(j) ==
    LET owners == {w \in Worker : OwnsRow(w) /\ worker[w].job = j}
    IN  IF owners = {} THEN Null ELSE CHOOSE w \in owners : TRUE

Leased == INSTANCE LeasedJobs WITH
              status <- [j \in Job |-> job[j].status],
              tries <- [j \in Job |-> job[j].retryCount],
              holder <- [j \in Job |-> Owner(j)]

(* Every step of the rows, the workers and the heartbeats is a step of the *)
(* abstract queue or leaves it alone: only the holder finishes or fails a  *)
(* job, and no timing hands a job to two holders.                          *)
ImplementsLeasedJobs == Leased!Spec

=============================================================================

------------------------ MODULE TranscodeQueueProofs ------------------------
(***************************************************************************)
(* Proofs about TranscodeQueue for every set of jobs and workers, every    *)
(* lease, heartbeat interval and claim delay the timing assumption admits, *)
(* and every bound.                                                        *)
(***************************************************************************)
EXTENDS TranscodeQueue, FiniteSetTheorems, TLAPS

USE NullAssumption, RetryAssumption, BoundAssumption, TimingAssumption

-----------------------------------------------------------------------------
(* The rows the updates write are rows. *)

LEMMA ClaimedRowType ==
    ASSUME NEW row \in JobRow, NEW now \in Nat
    PROVE  ClaimedRow(row, now) \in JobRow
<1>1. now \in Time /\ now + Lease \in Time
  BY DEF Time
<1>2. "processing" \in Status /\ FALSE \in BOOLEAN
  BY DEF Status
<1> QED
  BY <1>1, <1>2 DEF ClaimedRow, JobRow

LEMMA CompletedRowType ==
    ASSUME NEW row \in JobRow
    PROVE  CompletedRow(row) \in JobRow
  BY DEF CompletedRow, JobRow, Status, Terminal

LEMMA RequeuedRowType ==
    ASSUME NEW row \in JobRow
    PROVE  RequeuedRow(row) \in JobRow
  BY DEF RequeuedRow, JobRow, Status, Terminal, Time

LEMMA FailedRowType ==
    ASSUME NEW row \in JobRow, NEW n \in 1..MaxRetries
    PROVE  FailedRow(row, n) \in JobRow
<1>1. Exhausted(n) \in BOOLEAN /\ n \in 0..MaxRetries /\ Null \in Time
  BY DEF Exhausted, Time
<1>2. (IF Exhausted(n) THEN "dead_letter" ELSE "failed") \in Status
  BY DEF Status, Terminal
<1> QED
  BY <1>1, <1>2 DEF FailedRow, JobRow

LEMMA WorkerConstants == Down \in WorkerState /\ Idle \in WorkerState /\ NoSweep \in Sweep
  BY DEF Down, Idle, NoSweep, WorkerState, Sweep

LEMMA ClaimingState ==
    ASSUME NEW me \in WorkerState, NEW now \in Nat
    PROVE  LET s == [me EXCEPT !.pc = "claiming", !.now = now]
           IN  s \in WorkerState /\ s.pc = "claiming" /\ s.now = now
  BY DEF WorkerState

LEMMA StaleSweepType == ASSUME clock \in Nat PROVE StaleSweep \in Sweep /\ StaleSweep.now <= clock
  BY DEF StaleSweep, NoSweep, Sweep

LEMMA InitIInv == Init => IInv
<1> SUFFICES ASSUME Init PROVE IInv
  OBVIOUS
<1> USE DEF Init
<1>1. TypeOK
  BY WorkerConstants DEF TypeOK, NoRow, JobRow, Status, Terminal, Time, NoSweep, Sweep
<1>2. RetryAccounting
  BY DEF RetryAccounting, NoRow
<1>3. RowWellFormed
  BY DEF RowWellFormed, NoRow, Terminal
<1>4. MediaInSync
  BY DEF MediaInSync, NoRow
<1>5. CountInv /\ BeatInv
  BY DEF CountInv, BeatInv, NoRow
<1>6. ClaimInv /\ AttemptInv
  BY DEF ClaimInv, AttemptInv, AttemptOK, InAttempt, Down
<1>7. SweepInv
  BY DEF SweepInv, NoSweep
<1> QED
  BY <1>1, <1>2, <1>3, <1>4, <1>5, <1>6, <1>7 DEF IInv

-----------------------------------------------------------------------------
(* Steps that touch neither the rows nor the statements in flight. *)

LEMMA LocalStep ==
    ASSUME IInv, UNCHANGED <<clock, dbVars, beats>>
    PROVE  RetryAccounting' /\ RowWellFormed' /\ MediaInSync' /\ CountInv' /\ BeatInv'
  BY DEF IInv, dbVars, RetryAccounting, RowWellFormed, MediaInSync, CountInv, BeatInv

LEMMA SweepUpdate ==
    ASSUME sweep \in [Worker -> Sweep], SweepInv, clock \in Nat, clock' = clock, NEW w \in Worker,
           sweep' = sweep \/ sweep' = [sweep EXCEPT ![w] = StaleSweep]
                          \/ sweep' = [sweep EXCEPT ![w] = NoSweep]
    PROVE  sweep' \in [Worker -> Sweep] /\ SweepInv'
<1>1. NoSweep \in Sweep /\ NoSweep.now <= clock
  BY WorkerConstants DEF NoSweep
<1>2. StaleSweep \in Sweep /\ StaleSweep.now <= clock
  BY StaleSweepType
<1> QED
  BY <1>1, <1>2 DEF SweepInv

LEMMA SweepStep ==
    ASSUME IInv, UNCHANGED <<clock, dbVars, worker, beats>>, NEW w \in Worker,
           sweep' = [sweep EXCEPT ![w] = StaleSweep] \/ sweep' = [sweep EXCEPT ![w] = NoSweep]
    PROVE  IInv'
<1>1. TypeOK' /\ SweepInv'
  BY SweepUpdate DEF IInv, TypeOK, dbVars
<1>2. ClaimInv'
  BY DEF IInv, ClaimInv, dbVars
<1>3. AttemptInv'
  BY DEF IInv, AttemptInv, AttemptOK, InAttempt, dbVars
<1> QED
  BY <1>1, <1>2, <1>3, LocalStep DEF IInv

(* A worker leaves its attempt, or moves outside one without taking a row. *)
LEMMA LeaveStep ==
    ASSUME IInv, UNCHANGED <<clock, dbVars, beats>>, NEW w \in Worker, NEW s \in WorkerState,
           s.pc \in {"down", "recovering", "idle"} \/ (s.pc = "claiming" /\ s.now = clock),
           worker' = [worker EXCEPT ![w] = s],
           sweep' = sweep \/ sweep' = [sweep EXCEPT ![w] = StaleSweep]
                          \/ sweep' = [sweep EXCEPT ![w] = NoSweep]
    PROVE  IInv'
<1>1. TypeOK' /\ SweepInv'
  BY SweepUpdate DEF IInv, TypeOK, dbVars
<1>2. \A v \in Worker : v # w => worker'[v] = worker[v]
  BY DEF IInv, TypeOK
<1>3. worker'[w] = s /\ s.now \in Nat
  BY DEF IInv, TypeOK, WorkerState
<1>4. ClaimInv'
  BY <1>2, <1>3 DEF IInv, TypeOK, ClaimInv, dbVars
<1>5. AttemptInv'
  BY <1>2, <1>3 DEF IInv, AttemptInv, AttemptOK, InAttempt, dbVars
<1> QED
  BY <1>1, <1>4, <1>5, LocalStep DEF IInv

-----------------------------------------------------------------------------
(* One lemma per action that LeaveStep and SweepStep do not cover. *)

LEMMA TickStep == IInv /\ Tick => IInv'
<1> SUFFICES ASSUME IInv, Tick PROVE IInv'
  OBVIOUS
<1> USE DEF Tick, dbVars
<1>1. TypeOK' /\ SweepInv'
  BY DEF IInv, TypeOK, SweepInv, Sweep
<1>2. RetryAccounting' /\ RowWellFormed' /\ MediaInSync' /\ CountInv'
  BY DEF IInv, RetryAccounting, RowWellFormed, MediaInSync, CountInv
<1>3. ClaimInv'
  BY DEF IInv, TypeOK, ClaimInv, WorkerState
<1>4. AttemptInv'
  BY DEF IInv, TypeOK, AttemptInv, AttemptOK, InAttempt, WorkerState
<1>5. BeatInv'
  BY DEF IInv, TypeOK, BeatInv, Beat
<1> QED
  BY <1>1, <1>2, <1>3, <1>4, <1>5 DEF IInv

LEMMA ClaimSelectStep ==
    ASSUME IInv, NEW w \in Worker, NEW j \in Job, ClaimSelect(w, j)
    PROVE  IInv'
<1> USE DEF ClaimSelect, dbVars
<1>1. TypeOK' /\ SweepInv'
  <2>1. worker[w] \in WorkerState
    BY DEF IInv, TypeOK
  <2>2. [worker[w] EXCEPT !.pc = "selected", !.job = j] \in WorkerState
    BY <2>1 DEF WorkerState
  <2>3. worker' = [worker EXCEPT ![w] = [worker[w] EXCEPT !.pc = "selected", !.job = j]]
    BY DEF IInv, TypeOK
  <2>4. worker' \in [Worker -> WorkerState]
    BY <2>2, <2>3 DEF IInv, TypeOK
  <2> QED
    BY <2>4 DEF IInv, TypeOK, SweepInv
<1>2. \A v \in Worker : v # w => worker'[v] = worker[v]
  BY DEF IInv, TypeOK
<1>3. /\ worker'[w].pc = "selected" /\ worker'[w].job = j
      /\ worker'[w].now = worker[w].now
  BY DEF IInv, TypeOK, WorkerState
<1>4. job[j].status \in Claimable /\ ~Locked(j)
  BY DEF Selectable
<1>5. ClaimInv'
  BY <1>2, <1>3, <1>4 DEF IInv, TypeOK, ClaimInv, Locked
<1>6. \A v \in Worker : InAttempt(v)' => v # w /\ InAttempt(v) /\ worker'[v] = worker[v]
  BY <1>2, <1>3 DEF InAttempt
<1>7. AttemptInv'
  <2> HIDE DEF ClaimSelect
  <2>1. UNCHANGED <<clock, job, attempts>>
    BY DEF ClaimSelect
  <2> QED
    BY <1>6, <2>1 DEF IInv, AttemptInv, AttemptOK
<1> QED
  BY <1>1, <1>5, <1>7, LocalStep DEF IInv

(* ProcessError and FailRead: the worker stays in its attempt. *)
LEMMA AttemptMoves ==
    ASSUME IInv, UNCHANGED <<clock, dbVars, sweep, beats>>, NEW w \in Worker,
           ProcessError(w) \/ FailRead(w)
    PROVE  IInv'
<1> USE DEF dbVars
<1>1. CASE FailRead(w) /\ job[worker[w].job].status # "processing"
  <2>1. Idle \in WorkerState /\ Idle.pc = "idle"
    BY WorkerConstants DEF Idle, Down
  <2>2. worker' = [worker EXCEPT ![w] = Idle] /\ sweep' = sweep
    BY <1>1 DEF FailRead
  <2> QED
    BY <2>1, <2>2, LeaveStep
<1>2. CASE ProcessError(w)
           \/ (FailRead(w) /\ job[worker[w].job].status = "processing")
  <2> DEFINE me == worker[w]
  <2>1. worker[w] \in WorkerState /\ InAttempt(w) /\ me.job \in Job
    BY <1>2 DEF IInv, TypeOK, AttemptInv, AttemptOK, InAttempt, ProcessError, FailRead
  <2>2. job[me.job].retryCount \in 0..MaxRetries
    BY <2>1 DEF IInv, TypeOK, JobRow
  <2>3. TypeOK' /\ SweepInv'
    BY <1>2, <2>1, <2>2 DEF IInv, TypeOK, SweepInv, WorkerState, ProcessError, FailRead
  <2>4. \A v \in Worker : v # w => worker'[v] = worker[v]
    BY <1>2 DEF IInv, TypeOK, ProcessError, FailRead
  <2>5. /\ worker'[w].job = me.job /\ worker'[w].startedAt = me.startedAt
        /\ worker'[w].attempt = me.attempt
        /\ \/ worker'[w].pc = "failing"
           \/ worker'[w].pc = "failUpdate" /\ worker'[w].retryCount = job[me.job].retryCount
    BY <1>2, <2>1 DEF IInv, TypeOK, WorkerState, ProcessError, FailRead
  <2>6. ClaimInv'
    BY <2>4, <2>5 DEF IInv, ClaimInv
  <2>7. AttemptInv'
    BY <2>1, <2>4, <2>5 DEF IInv, AttemptInv, AttemptOK, InAttempt
  <2> QED
    BY <2>3, <2>6, <2>7, LocalStep DEF IInv
<1> QED
  BY <1>1, <1>2 DEF FailRead

LEMMA HeartbeatSendStep ==
    ASSUME IInv, NEW w \in Worker, HeartbeatSend(w)
    PROVE  IInv'
<1> USE DEF HeartbeatSend, dbVars
<1> DEFINE me == worker[w]
           new == [job |-> me.job, startedAt |-> me.startedAt,
                   attempt |-> me.attempt, at |-> clock]
<1>1. me \in WorkerState /\ me.job \in Job
  BY DEF IInv, TypeOK, AttemptInv, AttemptOK, WorkerState
<1>2. new \in Beat
  BY <1>1 DEF IInv, TypeOK, Beat, WorkerState
<1>3. TypeOK' /\ SweepInv'
  BY <1>2 DEF IInv, TypeOK, SweepInv
<1>4. RetryAccounting' /\ RowWellFormed' /\ MediaInSync' /\ CountInv' /\ ClaimInv'
  BY DEF IInv, RetryAccounting, RowWellFormed, MediaInSync, CountInv, ClaimInv
<1>5. AttemptInv'
  BY DEF IInv, AttemptInv, AttemptOK, InAttempt
<1>6. /\ new.startedAt + HeartbeatInterval <= new.at /\ new.at <= clock
      /\ new.attempt <= attempts[new.job]
      /\ job[new.job].status = "processing" =>
            IF new.attempt = attempts[new.job] THEN new.startedAt = job[new.job].startedAt
                                               ELSE new.startedAt < job[new.job].startedAt
  BY <1>1 DEF IInv, TypeOK, AttemptInv, AttemptOK, WorkerState
<1>7. beats' = beats \cup {new} /\ UNCHANGED <<clock, attempts, job>>
  OBVIOUS
<1>8. BeatInv'
  <2> HIDE DEF new, HeartbeatSend
  <2> QED
    BY <1>6, <1>7 DEF IInv, BeatInv
<1> QED
  BY <1>3, <1>4, <1>5, <1>8 DEF IInv

LEMMA HeartbeatLostStep ==
    ASSUME IInv, NEW b \in beats, HeartbeatLost(b)
    PROVE  IInv'
<1> USE DEF HeartbeatLost, dbVars
<1>1. TypeOK' /\ SweepInv' /\ BeatInv'
  BY DEF IInv, TypeOK, SweepInv, BeatInv
<1>2. RetryAccounting' /\ RowWellFormed' /\ MediaInSync' /\ CountInv' /\ ClaimInv'
  BY DEF IInv, RetryAccounting, RowWellFormed, MediaInSync, CountInv, ClaimInv
<1>3. AttemptInv'
  BY DEF IInv, AttemptInv, AttemptOK, InAttempt
<1> QED
  BY <1>1, <1>2, <1>3 DEF IInv

-----------------------------------------------------------------------------
(* Steps that write a row. *)

LEMMA EnqueueStep ==
    ASSUME IInv, NEW j \in Job, Enqueue(j)
    PROVE  IInv'
<1> DEFINE n == Cardinality({k \in Job : job[k].status # "absent"}) + 1
           new == NewRow(n)
<1>1. n \in Nat
  <2>1. IsFiniteSet({k \in Job : job[k].status # "absent"})
    BY JobAssumption, FS_Subset
  <2> QED
    BY <2>1, FS_CardinalityType
<1> HIDE DEF n
<1>2. /\ new \in JobRow /\ new.status = "queued" /\ new.retryCount = 0
      /\ new.startedAt = Null /\ new.leaseExpiresAt = Null /\ new.completedAt = FALSE
  <2>1. "queued" \in Status /\ 0 \in 0..MaxRetries /\ Null \in Time
    BY DEF Status, Time
  <2> QED
    BY <1>1, <2>1 DEF NewRow, JobRow
<1>3. /\ job[j].status = "absent" /\ attempts[j] = 0 /\ job' = [job EXCEPT ![j] = new]
      /\ media' = [media EXCEPT ![j] = "pending"]
      /\ UNCHANGED <<clock, variant, worker, sweep, beats, attempts, failures>>
  BY DEF Enqueue, IInv, CountInv, n
<1> HIDE DEF new
<1>4. \A k \in Job : k # j => job'[k] = job[k] /\ media'[k] = media[k]
  BY <1>3 DEF IInv, TypeOK
<1>5. job'[j] = new /\ media'[j] = "pending"
  BY <1>3 DEF IInv, TypeOK
<1>6. TypeOK' /\ SweepInv'
  BY <1>2, <1>3 DEF IInv, TypeOK, SweepInv
<1>7. RetryAccounting' /\ CountInv'
  BY <1>2, <1>3, <1>4, <1>5 DEF IInv, TypeOK, RetryAccounting, CountInv, JobRow
<1>8. RowWellFormed'
  BY <1>2, <1>3, <1>4, <1>5 DEF IInv, TypeOK, RowWellFormed, Terminal
<1>9. MediaInSync'
  BY <1>2, <1>3, <1>4, <1>5 DEF IInv, TypeOK, MediaInSync, toTranscodeStatus
<1>10. ClaimInv'
  BY <1>2, <1>3, <1>4, <1>5 DEF IInv, ClaimInv, Claimable
<1>11. \A w \in Worker : InAttempt(w)' => InAttempt(w) /\ worker[w].job # j
  BY <1>3 DEF IInv, TypeOK, WorkerState, AttemptInv, AttemptOK, InAttempt
<1>12. AttemptInv'
  BY <1>3, <1>4, <1>11 DEF IInv, AttemptInv, AttemptOK
<1>13. BeatInv'
  BY <1>2, <1>3, <1>4, <1>5 DEF IInv, TypeOK, BeatInv, Beat
<1> QED
  BY <1>6, <1>7, <1>8, <1>9, <1>10, <1>12, <1>13 DEF IInv

LEMMA RequeueStaleStep ==
    ASSUME IInv, NEW w \in Worker, NEW j \in Job, RequeueStale(w, j)
    PROVE  IInv'
<1> DEFINE rest == SweepWithout(sweep[w], j)
<1>1. rest \in Sweep /\ rest.now <= clock
  BY WorkerConstants DEF SweepWithout, IInv, TypeOK, SweepInv, Sweep, NoSweep
<1>2. /\ sweep' = [sweep EXCEPT ![w] = rest]
      /\ UNCHANGED <<clock, variant, worker, beats, attempts, failures>>
  BY DEF RequeueStale
<1> HIDE DEF rest
<1>3. sweep' \in [Worker -> Sweep] /\ SweepInv'
  BY <1>1, <1>2 DEF IInv, TypeOK, SweepInv
<1>4. CASE ~Stale(j, sweep[w].now)
  <2>1. UNCHANGED <<clock, dbVars, worker, beats>>
    BY <1>2, <1>4 DEF RequeueStale, dbVars
  <2>2. TypeOK' /\ ClaimInv'
    BY <2>1, <1>3 DEF IInv, TypeOK, ClaimInv, dbVars
  <2>3. AttemptInv'
    BY <2>1 DEF IInv, AttemptInv, AttemptOK, InAttempt, dbVars
  <2> QED
    BY <1>3, <2>1, <2>2, <2>3, LocalStep DEF IInv
<1>5. CASE Stale(j, sweep[w].now)
  <2> DEFINE new == RequeuedRow(job[j])
  <2>1. job' = [job EXCEPT ![j] = new] /\ media' = [media EXCEPT ![j] = "pending"]
    BY <1>5 DEF RequeueStale
  <2>2. job[j] \in JobRow /\ new \in JobRow
    BY RequeuedRowType DEF IInv, TypeOK
  <2>3. /\ new.status = "queued" /\ new.retryCount = job[j].retryCount
        /\ new.startedAt = Null /\ new.leaseExpiresAt = Null
        /\ new.completedAt = job[j].completedAt
    BY <2>2 DEF RequeuedRow, JobRow
  <2> HIDE DEF new
  <2>4. /\ job[j].status = "processing" /\ job[j].startedAt \in Nat
        /\ job[j].startedAt + Lease < clock /\ ~job[j].completedAt
    BY <1>5 DEF Stale, IInv, TypeOK, Sweep, SweepInv, RowWellFormed, Terminal
  <2>5. \A k \in Job : k # j => job'[k] = job[k] /\ media'[k] = media[k]
    BY <2>1 DEF IInv, TypeOK
  <2>6. job'[j] = new /\ media'[j] = "pending"
    BY <2>1 DEF IInv, TypeOK
  <2>7. TypeOK'
    BY <1>2, <1>3, <2>1, <2>2 DEF IInv, TypeOK
  <2>8. RetryAccounting' /\ CountInv'
    BY <1>2, <2>3, <2>4, <2>5, <2>6 DEF IInv, RetryAccounting, CountInv
  <2>9. RowWellFormed'
    BY <1>2, <2>3, <2>4, <2>5, <2>6 DEF IInv, RowWellFormed, Terminal
  <2>10. MediaInSync'
    BY <1>2, <2>3, <2>4, <2>5, <2>6 DEF IInv, MediaInSync, toTranscodeStatus
  <2>11. ClaimInv'
    BY <1>2, <2>3, <2>5, <2>6 DEF IInv, ClaimInv, Claimable
  <2>12. AttemptInv'
    <3>1. \A v \in Worker : InAttempt(v)' => InAttempt(v)
      BY <1>2 DEF InAttempt
    <3>2. \A v \in Worker : InAttempt(v) /\ worker[v].job = j
                             => worker[v].startedAt + Lease < clock
      BY <2>4 DEF IInv, TypeOK, WorkerState, AttemptInv, AttemptOK
    <3> QED
      BY <1>2, <2>3, <2>5, <2>6, <3>1, <3>2 DEF IInv, AttemptInv, AttemptOK
  <2>13. BeatInv'
    BY <1>2, <2>3, <2>5, <2>6 DEF IInv, TypeOK, Beat, BeatInv
  <2> QED
    BY <1>3, <2>7, <2>8, <2>9, <2>10, <2>11, <2>12, <2>13 DEF IInv
<1> QED
  BY <1>4, <1>5

LEMMA ClaimCommitStep ==
    ASSUME IInv, NEW w \in Worker, ClaimCommit(w)
    PROVE  IInv'
<1> DEFINE j == worker[w].job
           now == worker[w].now
           new == ClaimedRow(job[j], now)
           me == Working(j, now, attempts[j] + 1)
<1>1. /\ worker[w].pc = "selected" /\ worker[w] \in WorkerState
      /\ j \in Job /\ now \in Nat /\ job[j] \in JobRow /\ attempts[j] \in Nat
      /\ now <= clock /\ clock <= now + MaxClaimDelay
      /\ job[j].status \in Claimable
  BY DEF ClaimCommit, IInv, TypeOK, WorkerState, ClaimInv
<1>2. /\ job' = [job EXCEPT ![j] = new] /\ media' = [media EXCEPT ![j] = "processing"]
      /\ attempts' = [attempts EXCEPT ![j] = attempts[j] + 1]
      /\ worker' = [worker EXCEPT ![w] = me]
      /\ UNCHANGED <<clock, variant, sweep, beats, failures>>
  BY DEF ClaimCommit
<1>3. /\ new \in JobRow
      /\ new.status = "processing" /\ new.retryCount = job[j].retryCount
      /\ new.startedAt = now /\ new.leaseExpiresAt = now + Lease /\ new.completedAt = FALSE
  BY <1>1, ClaimedRowType DEF ClaimedRow, JobRow
<1>4. /\ me \in WorkerState
      /\ me.pc = "working" /\ me.job = j /\ me.startedAt = now /\ me.attempt = attempts[j] + 1
  BY <1>1 DEF WorkerState, Working
<1> HIDE DEF new, me, j, now
<1>5. \A k \in Job : k # j => /\ job'[k] = job[k] /\ media'[k] = media[k]
                             /\ attempts'[k] = attempts[k]
  BY <1>2 DEF IInv, TypeOK
<1>6. job'[j] = new /\ media'[j] = "processing" /\ attempts'[j] = attempts[j] + 1
  BY <1>1, <1>2 DEF IInv, TypeOK
<1>7. worker'[w] = me /\ \A v \in Worker : v # w => worker'[v] = worker[v]
  BY <1>2 DEF IInv, TypeOK
<1>8. TypeOK' /\ SweepInv'
  BY <1>1, <1>2, <1>3, <1>4 DEF IInv, TypeOK, SweepInv
<1>9. RetryAccounting' /\ CountInv'
  <2>1. job[j].status # "dead_letter" /\ job[j].retryCount \in Nat
    BY <1>1 DEF Claimable, JobRow
  <2> QED
    BY <1>1, <1>2, <1>3, <1>5, <1>6, <2>1 DEF IInv, TypeOK, RetryAccounting, CountInv
<1>10. RowWellFormed'
  BY <1>1, <1>2, <1>3, <1>5, <1>6 DEF IInv, RowWellFormed, Terminal
<1>11. MediaInSync'
  BY <1>1, <1>2, <1>3, <1>5, <1>6 DEF IInv, MediaInSync, toTranscodeStatus, Claimable
<1>12. ClaimInv'
  <2>1. \A v \in Worker : worker'[v].pc \in {"claiming", "selected"} =>
           v # w /\ worker'[v] = worker[v]
    BY <1>4, <1>7
  <2>2. \A v \in Worker : worker'[v].pc = "selected" => worker[v].job # j
    BY <1>1, <2>1 DEF IInv, ClaimInv, j
  <2> QED
    BY <1>2, <1>5, <2>1, <2>2 DEF IInv, ClaimInv
<1>13. AttemptInv'
  <2>1. \A v \in Worker : InAttempt(v) /\ worker[v].job = j =>
           /\ worker[v].startedAt \in Nat /\ worker[v].attempt \in Nat
           /\ worker[v].startedAt + Lease < clock
           /\ worker[v].startedAt < now
           /\ worker[v].attempt < attempts[j] + 1
    BY <1>1 DEF IInv, TypeOK, WorkerState, AttemptInv, AttemptOK, j
  <2>2. \A v \in Worker : InAttempt(v)' => v = w \/ (InAttempt(v) /\ worker'[v] = worker[v])
    BY <1>7 DEF InAttempt
  <2>3. ASSUME NEW v \in Worker, InAttempt(v)'
        PROVE  AttemptOK(v)'
    <3>1. CASE v = w
      BY <1>1, <1>2, <1>3, <1>4, <1>6, <1>7, <3>1 DEF Claimable, AttemptOK
    <3>2. CASE v # w /\ worker[v].job = j
      BY <1>1, <1>2, <1>3, <1>6, <2>1, <2>2, <2>3, <3>2 DEF IInv, AttemptInv, AttemptOK
    <3>3. CASE v # w /\ worker[v].job # j
      BY <1>2, <1>5, <2>2, <2>3, <3>3 DEF IInv, AttemptInv, AttemptOK
    <3> QED
      BY <3>1, <3>2, <3>3
  <2>4. ASSUME NEW u \in Worker, NEW v \in Worker, InAttempt(u)', InAttempt(v)',
               worker'[u].job = worker'[v].job, worker'[u].attempt = worker'[v].attempt
        PROVE  u = v
    BY <1>1, <1>4, <1>7, <2>1, <2>2, <2>4 DEF IInv, AttemptInv, AttemptOK
  <2> QED
    BY <2>3, <2>4 DEF AttemptInv
<1>14. BeatInv'
  <2>1. \A b \in beats : b.job = j => b.startedAt < now /\ b.attempt < attempts[j] + 1
    BY <1>1 DEF IInv, TypeOK, Beat, BeatInv
  <2> QED
    BY <1>1, <1>2, <1>3, <1>5, <1>6, <2>1 DEF IInv, TypeOK, Beat, BeatInv
<1> QED
  BY <1>8, <1>9, <1>10, <1>11, <1>12, <1>13, <1>14 DEF IInv

LEMMA HeartbeatStep ==
    ASSUME IInv, NEW b \in beats, Heartbeat(b)
    PROVE  IInv'
<1> USE DEF dbVars
<1>1. CASE ~Fenced(b.job, b.startedAt)
  <2>1. UNCHANGED <<clock, dbVars, worker, sweep>> /\ beats' \subseteq beats
    BY <1>1 DEF Heartbeat
  <2>2. TypeOK' /\ SweepInv' /\ BeatInv' /\ ClaimInv'
    BY <2>1 DEF IInv, TypeOK, SweepInv, BeatInv, ClaimInv
  <2>3. RetryAccounting' /\ RowWellFormed' /\ MediaInSync' /\ CountInv'
    BY <2>1 DEF IInv, RetryAccounting, RowWellFormed, MediaInSync, CountInv
  <2>4. AttemptInv'
    BY <2>1 DEF IInv, AttemptInv, AttemptOK, InAttempt
  <2> QED
    BY <2>2, <2>3, <2>4 DEF IInv
<1>2. CASE Fenced(b.job, b.startedAt)
  <2> DEFINE j == b.job
  <2>1. /\ j \in Job /\ job[j] \in JobRow /\ b.at + Lease \in Time /\ b.at + Lease \in Nat
        /\ job[j].status = "processing" /\ job[j].startedAt = b.startedAt
        /\ b.at + Lease >= b.startedAt + Lease
    BY <1>2 DEF IInv, TypeOK, Beat, BeatInv, Fenced, Time
  <2>2. /\ job' = [job EXCEPT ![j] = [job[j] EXCEPT !.leaseExpiresAt = b.at + Lease]]
        /\ UNCHANGED <<clock, media, variant, worker, sweep, attempts, failures>>
        /\ beats' \subseteq beats
    BY <1>2 DEF Heartbeat
  <2>3. /\ job'[j] \in JobRow
        /\ job'[j].status = "processing" /\ job'[j].startedAt = job[j].startedAt
        /\ job'[j].retryCount = job[j].retryCount /\ job'[j].completedAt = job[j].completedAt
        /\ job'[j].leaseExpiresAt = b.at + Lease
    BY <2>1, <2>2 DEF IInv, TypeOK, JobRow
  <2>4. \A k \in Job : k # j => job'[k] = job[k]
    BY <2>2 DEF IInv, TypeOK
  <2>5. job' \in [Job -> JobRow]
    BY <2>1, <2>2, <2>3 DEF IInv, TypeOK
  <2> HIDE DEF j
  <2>6. TypeOK' /\ SweepInv'
    BY <2>2, <2>5 DEF IInv, TypeOK, SweepInv
  <2>7. RetryAccounting' /\ CountInv'
    BY <2>1, <2>2, <2>3, <2>4 DEF IInv, RetryAccounting, CountInv
  <2>8. RowWellFormed'
    BY <2>1, <2>2, <2>3, <2>4 DEF IInv, RowWellFormed, Terminal, j
  <2>9. MediaInSync'
    BY <2>1, <2>2, <2>3, <2>4 DEF IInv, MediaInSync
  <2>10. ClaimInv'
    BY <2>1, <2>2, <2>3, <2>4 DEF IInv, ClaimInv
  <2>11. AttemptInv'
    BY <2>1, <2>2, <2>3, <2>4 DEF IInv, AttemptInv, AttemptOK, InAttempt
  <2>12. BeatInv'
    BY <2>1, <2>2, <2>3, <2>4 DEF IInv, TypeOK, Beat, BeatInv
  <2> QED
    BY <2>6, <2>7, <2>8, <2>9, <2>10, <2>11, <2>12 DEF IInv
<1> QED
  BY <1>1, <1>2

LEMMA AttemptsDistinct ==
    ASSUME AttemptInv, NEW v \in Worker, NEW w \in Worker, InAttempt(v), InAttempt(w),
           worker[v].job = worker[w].job, worker[v].attempt = worker[w].attempt
    PROVE  v = w
  BY Zenon DEF AttemptInv

(* Whoever passes the fence runs the latest attempt. *)
LEMMA FencedIsLatest ==
    ASSUME IInv, NEW w \in Worker, InAttempt(w), Fenced(worker[w].job, worker[w].startedAt)
    PROVE  /\ worker[w].job \in Job
           /\ worker[w].attempt = attempts[worker[w].job]
           /\ worker[w].pc = "failUpdate" => worker[w].retryCount = job[worker[w].job].retryCount
<1>1. worker[w].job \in Job /\ worker[w].startedAt \in Nat
  BY DEF IInv, TypeOK, WorkerState, AttemptInv, AttemptOK
<1> QED
  BY <1>1 DEF IInv, AttemptInv, AttemptOK, Fenced

LEMMA CompleteStep ==
    ASSUME IInv, NEW w \in Worker, Complete(w)
    PROVE  IInv'
<1> DEFINE j == worker[w].job
<1>0. InAttempt(w) /\ Idle \in WorkerState /\ Idle.pc = "idle"
  BY WorkerConstants DEF Complete, InAttempt, Idle, Down
<1>1. CASE ~Fenced(j, worker[w].startedAt)
  <2>1. UNCHANGED <<clock, dbVars, sweep, beats>> /\ worker' = [worker EXCEPT ![w] = Idle]
    BY <1>1 DEF Complete, dbVars
  <2> QED
    BY <1>0, <2>1, LeaveStep
<1>2. CASE Fenced(j, worker[w].startedAt)
  <2> DEFINE new == CompletedRow(job[j])
             me == worker'[w]
  <2>1. /\ j \in Job /\ worker[w].attempt = attempts[j] /\ job[j] \in JobRow
        /\ job[j].status = "processing" /\ worker[w] \in WorkerState
    BY <1>0, <1>2, FencedIsLatest DEF IInv, TypeOK, Fenced
  <2>2. /\ job' = [job EXCEPT ![j] = new] /\ variant' = [variant EXCEPT ![j] = TRUE]
        /\ media' = [media EXCEPT ![j] = "completed"]
        /\ \/ worker' = [worker EXCEPT ![w] = Idle]
           \/ worker' = [worker EXCEPT ![w].pc = "failing"]
        /\ UNCHANGED <<clock, sweep, beats, attempts, failures>>
    BY <1>2 DEF Complete
  <2>3. /\ new \in JobRow /\ new.status = "completed" /\ new.completedAt = TRUE
        /\ new.retryCount = job[j].retryCount
        /\ new.startedAt = job[j].startedAt /\ new.leaseExpiresAt = job[j].leaseExpiresAt
    BY <2>1, CompletedRowType DEF CompletedRow, JobRow
  <2>4. worker' \in [Worker -> WorkerState]
    BY <1>0, <2>1, <2>2 DEF IInv, TypeOK, WorkerState
  <2>5. /\ me.pc \in {"idle", "failing"}
        /\ me.pc = "failing" => /\ me.job = j /\ me.attempt = worker[w].attempt
                                /\ me.startedAt = worker[w].startedAt
    BY <1>0, <2>1, <2>2 DEF IInv, TypeOK, WorkerState
  <2>6. \A v \in Worker : v # w => worker'[v] = worker[v]
    BY <2>2 DEF IInv, TypeOK
  <2> HIDE DEF new, me, j
  <2>7. \A k \in Job : k # j => /\ job'[k] = job[k] /\ media'[k] = media[k]
                               /\ variant'[k] = variant[k]
    BY <2>2 DEF IInv, TypeOK
  <2>8. job'[j] = new /\ media'[j] = "completed" /\ variant'[j] = TRUE
    BY <2>1, <2>2 DEF IInv, TypeOK
  <2>9. TypeOK' /\ SweepInv'
    BY <2>1, <2>2, <2>3, <2>4 DEF IInv, TypeOK, SweepInv
  <2>10. RetryAccounting' /\ CountInv'
    BY <2>1, <2>2, <2>3, <2>7, <2>8 DEF IInv, RetryAccounting, CountInv
  <2>11. RowWellFormed'
    BY <2>1, <2>2, <2>3, <2>7, <2>8 DEF IInv, RowWellFormed, Terminal
  <2>12. MediaInSync'
    BY <2>1, <2>2, <2>3, <2>7, <2>8 DEF IInv, MediaInSync, toTranscodeStatus
  <2>13. ClaimInv'
    <3>1. \A v \in Worker : worker'[v].pc \in {"claiming", "selected"} =>
             v # w /\ worker'[v] = worker[v]
      BY <2>5, <2>6 DEF me
    <3>2. \A v \in Worker : worker'[v].pc = "selected" => worker[v].job # j
      BY <2>1, <3>1 DEF IInv, ClaimInv, Claimable
    <3> QED
      BY <2>2, <2>7, <3>1, <3>2 DEF IInv, ClaimInv
  <2>14. AttemptInv'
    <3>1. \A v \in Worker : InAttempt(v)' =>
             /\ InAttempt(v)
             /\ worker'[v].job = worker[v].job /\ worker'[v].attempt = worker[v].attempt
             /\ worker'[v].startedAt = worker[v].startedAt
             /\ worker'[v].pc = "failUpdate" => worker'[v] = worker[v]
      BY <1>0, <2>5, <2>6 DEF InAttempt, me, j
    <3>2. job'[j].status \notin Claimable \cup {"processing"}
      BY <2>3, <2>8 DEF Claimable
    <3> QED
      BY <2>1, <2>2, <2>7, <3>1, <3>2 DEF IInv, AttemptInv, AttemptOK
  <2>15. BeatInv'
    BY <2>1, <2>2, <2>3, <2>7, <2>8 DEF IInv, TypeOK, Beat, BeatInv
  <2> QED
    BY <2>9, <2>10, <2>11, <2>12, <2>13, <2>14, <2>15 DEF IInv
<1> QED
  BY <1>1, <1>2

LEMMA FailUpdateStep ==
    ASSUME IInv, NEW w \in Worker, FailUpdate(w)
    PROVE  IInv'
<1> DEFINE j == worker[w].job
           n == worker[w].retryCount + 1
<1>0. /\ worker[w].pc = "failUpdate" /\ InAttempt(w)
      /\ Idle \in WorkerState /\ Idle.pc = "idle"
      /\ worker' = [worker EXCEPT ![w] = Idle]
      /\ UNCHANGED <<clock, variant, sweep, beats, attempts>>
  BY WorkerConstants DEF FailUpdate, InAttempt, Idle, Down
<1>1. CASE ~Fenced(j, worker[w].startedAt)
  <2>1. UNCHANGED <<clock, dbVars, sweep, beats>>
    BY <1>1 DEF FailUpdate, dbVars
  <2> QED
    BY <1>0, <2>1, LeaveStep
<1>2. CASE Fenced(j, worker[w].startedAt)
  <2> DEFINE new == FailedRow(job[j], n)
  <2>1. /\ j \in Job /\ worker[w].attempt = attempts[j] /\ job[j] \in JobRow
        /\ job[j].status = "processing" /\ worker[w].retryCount = job[j].retryCount
        /\ attempts[j] \in Nat /\ failures[j] \in Nat
    BY <1>0, <1>2, FencedIsLatest DEF IInv, TypeOK, Fenced
  <2>2. n \in 1..MaxRetries /\ n = failures[j] + 1 /\ n <= attempts[j]
    <3>1. job[j].retryCount \in 0..MaxRetries
      BY <2>1 DEF JobRow
    <3>2. failures[j] = job[j].retryCount /\ failures[j] # MaxRetries /\ failures[j] < attempts[j]
      BY <2>1 DEF IInv, RetryAccounting, CountInv
    <3> QED
      BY <2>1, <3>1, <3>2
  <2>3. /\ job' = [job EXCEPT ![j] = new]
        /\ media' = [media EXCEPT ![j] = FailedMedia(n)]
        /\ failures' = [failures EXCEPT ![j] = failures[j] + 1]
    BY <1>2 DEF FailUpdate
  <2>4. new \in JobRow
    BY <2>1, <2>2, FailedRowType
  <2>5. /\ new.status = IF n = MaxRetries THEN "dead_letter" ELSE "failed"
        /\ new.retryCount = n /\ new.startedAt = Null /\ new.leaseExpiresAt = Null
        /\ new.completedAt <=> n = MaxRetries
        /\ FailedMedia(n) = IF n = MaxRetries THEN "failed" ELSE "pending"
    <3>1. Exhausted(n) <=> n = MaxRetries
      BY <2>2 DEF Exhausted
    <3>2. Exhausted(n) \in BOOLEAN
      BY DEF Exhausted
    <3>3. /\ new.retryCount = n /\ new.startedAt = Null /\ new.leaseExpiresAt = Null
          /\ new.status = IF Exhausted(n) THEN "dead_letter" ELSE "failed"
          /\ new.completedAt = Exhausted(n)
      BY <2>1, <3>2 DEF FailedRow, JobRow
    <3> QED
      BY <3>1, <3>3 DEF FailedMedia
  <2> HIDE DEF new, n, j
  <2>6. \A k \in Job : k # j => /\ job'[k] = job[k] /\ media'[k] = media[k]
                               /\ failures'[k] = failures[k]
    BY <2>3 DEF IInv, TypeOK
  <2>7. job'[j] = new /\ media'[j] = FailedMedia(n) /\ failures'[j] = n
    BY <2>1, <2>2, <2>3 DEF IInv, TypeOK
  <2>8. worker'[w].pc = "idle" /\ \A v \in Worker : v # w => worker'[v] = worker[v]
    BY <1>0 DEF IInv, TypeOK
  <2>9. TypeOK' /\ SweepInv'
    BY <1>0, <2>1, <2>2, <2>3, <2>4, <2>5 DEF IInv, TypeOK, SweepInv
  <2>10. RetryAccounting' /\ CountInv'
    BY <1>0, <2>1, <2>2, <2>5, <2>6, <2>7 DEF IInv, RetryAccounting, CountInv
  <2>11. RowWellFormed'
    BY <1>0, <2>1, <2>5, <2>6, <2>7 DEF IInv, RowWellFormed, Terminal
  <2>12. MediaInSync'
    BY <1>0, <2>1, <2>5, <2>6, <2>7 DEF IInv, MediaInSync, toTranscodeStatus
  <2>13. ClaimInv'
    <3>1. \A v \in Worker : worker'[v].pc \in {"claiming", "selected"} =>
             v # w /\ worker'[v] = worker[v]
      BY <2>8
    <3>2. \A v \in Worker : worker'[v].pc = "selected" => worker[v].job # j
      BY <2>1, <3>1 DEF IInv, ClaimInv, Claimable
    <3> QED
      BY <1>0, <2>6, <3>1, <3>2 DEF IInv, ClaimInv
  <2>14. AttemptInv'
    <3>1. \A v \in Worker : InAttempt(v)' => v # w /\ InAttempt(v) /\ worker'[v] = worker[v]
      BY <2>8 DEF InAttempt
    <3>2. \A v \in Worker : InAttempt(v)' /\ worker[v].job = j =>
             worker[v].attempt # attempts[j]
      <4> SUFFICES ASSUME NEW v \in Worker, InAttempt(v)', worker[v].job = j,
                          worker[v].attempt = attempts[j]
                   PROVE  FALSE
        OBVIOUS
      <4>1. v # w /\ InAttempt(v)
        BY <3>1
      <4>2. worker[v].job = worker[w].job /\ worker[v].attempt = worker[w].attempt
        BY <2>1 DEF j
      <4> QED
        <5>1. AttemptInv
          BY DEF IInv
        <5>2. v = w
          BY <1>0, <4>1, <4>2, <5>1, AttemptsDistinct
        <5> QED
          BY <4>1, <5>2
    <3>3. \A v \in Worker : InAttempt(v)' /\ worker[v].job = j =>
             worker[v].attempt < attempts[j] /\ worker[v].startedAt + Lease < clock
      <4> SUFFICES ASSUME NEW v \in Worker, InAttempt(v)', worker[v].job = j
                   PROVE  worker[v].attempt < attempts[j] /\ worker[v].startedAt + Lease < clock
        OBVIOUS
      <4>1. AttemptOK(v) /\ worker[v].attempt \in Nat
        BY <3>1 DEF IInv, TypeOK, WorkerState, AttemptInv
      <4>2. worker[v].attempt # attempts[j]
        BY <3>2
      <4> QED
        BY <2>1, <4>1, <4>2 DEF AttemptOK
    <3>4. job'[j].status # "processing"
      BY <2>5, <2>7
    <3> QED
      <4>1. ASSUME NEW v \in Worker, InAttempt(v)'
            PROVE  AttemptOK(v)'
        <5>1. CASE worker[v].job = j
          BY <1>0, <2>1, <3>1, <3>3, <3>4, <4>1, <5>1 DEF IInv, AttemptInv, AttemptOK
        <5>2. CASE worker[v].job # j
          BY <1>0, <2>6, <3>1, <4>1, <5>2 DEF IInv, AttemptInv, AttemptOK
        <5> QED
          BY <5>1, <5>2
      <4>2. ASSUME NEW u \in Worker, NEW v \in Worker, InAttempt(u)', InAttempt(v)',
                   worker'[u].job = worker'[v].job, worker'[u].attempt = worker'[v].attempt
            PROVE  u = v
        BY <3>1, <4>2 DEF IInv, AttemptInv
      <4> QED
        BY <4>1, <4>2 DEF AttemptInv
  <2>15. BeatInv'
    BY <1>0, <2>1, <2>5, <2>6, <2>7 DEF IInv, TypeOK, Beat, BeatInv
  <2> QED
    BY <2>9, <2>10, <2>11, <2>12, <2>13, <2>14, <2>15 DEF IInv
<1> QED
  BY <1>1, <1>2

-----------------------------------------------------------------------------
LEMMA NextIInv == IInv /\ [Next]_vars => IInv'
<1> SUFFICES ASSUME IInv, [Next]_vars PROVE IInv'
  OBVIOUS
<1>0. /\ Down \in WorkerState /\ Idle \in WorkerState
      /\ Down.pc = "down" /\ Idle.pc = "idle"
  BY WorkerConstants DEF Down, Idle
<1>1. CASE Tick
  BY <1>1, TickStep
<1>2. ASSUME NEW j \in Job, Enqueue(j) PROVE IInv'
  BY <1>2, EnqueueStep
<1>3. ASSUME NEW w \in Worker, Start(w) PROVE IInv'
  <2> DEFINE s == [worker[w] EXCEPT !.pc = "recovering"]
  <2>1. s \in WorkerState /\ s.pc = "recovering"
    BY DEF IInv, TypeOK, WorkerState
  <2>2. /\ worker' = [worker EXCEPT ![w] = s] /\ sweep' = [sweep EXCEPT ![w] = StaleSweep]
        /\ UNCHANGED <<clock, dbVars, beats>>
    BY <1>3 DEF Start
  <2> HIDE DEF s
  <2> QED
    BY <2>1, <2>2, LeaveStep
<1>4. ASSUME NEW w \in Worker, Recovered(w) \/ ClaimEmpty(w) PROVE IInv'
  BY <1>0, <1>4, LeaveStep DEF Recovered, ClaimEmpty
<1>5. ASSUME NEW w \in Worker, Crash(w) PROVE IInv'
  BY <1>0, <1>5, LeaveStep DEF Crash
<1>6. ASSUME NEW w \in Worker, SweepSelect(w) \/ SweepError(w) PROVE IInv'
  BY <1>6, SweepStep DEF SweepSelect, SweepError
<1>7. ASSUME NEW w \in Worker, ClaimBegin(w) PROVE IInv'
  <2> DEFINE s == [worker[w] EXCEPT !.pc = "claiming", !.now = clock]
  <2>0. worker[w] \in WorkerState /\ clock \in Nat
    BY DEF IInv, TypeOK
  <2>1. s \in WorkerState /\ s.pc = "claiming" /\ s.now = clock
    BY <2>0, ClaimingState
  <2>2. /\ worker' = [worker EXCEPT ![w] = s] /\ sweep' = sweep
        /\ UNCHANGED <<clock, dbVars, beats>>
    BY <1>7 DEF ClaimBegin
  <2> HIDE DEF s
  <2> QED
    BY <2>1, <2>2, LeaveStep
<1>8. ASSUME NEW w \in Worker, ClaimCommit(w) PROVE IInv'
  BY <1>8, ClaimCommitStep
<1>9. ASSUME NEW w \in Worker, HeartbeatSend(w) PROVE IInv'
  BY <1>9, HeartbeatSendStep
<1>10. ASSUME NEW w \in Worker, Complete(w) PROVE IInv'
  BY <1>10, CompleteStep
<1>11. ASSUME NEW w \in Worker, ProcessError(w) \/ FailRead(w) PROVE IInv'
  BY <1>11, AttemptMoves DEF ProcessError, FailRead
<1>12. ASSUME NEW w \in Worker, FailUpdate(w) PROVE IInv'
  BY <1>12, FailUpdateStep
<1>13. ASSUME NEW w \in Worker, NEW j \in Job, RequeueStale(w, j) PROVE IInv'
  BY <1>13, RequeueStaleStep
<1>14. ASSUME NEW w \in Worker, NEW j \in Job, ClaimSelect(w, j) PROVE IInv'
  BY <1>14, ClaimSelectStep
<1>15. ASSUME NEW b \in beats, Heartbeat(b) PROVE IInv'
  BY <1>15, HeartbeatStep
<1>16. ASSUME NEW b \in beats, HeartbeatLost(b) PROVE IInv'
  BY <1>16, HeartbeatLostStep
<1>17. CASE UNCHANGED vars
  <2>1. UNCHANGED <<clock, dbVars, worker, sweep, beats>>
    BY <1>17 DEF vars, dbVars
  <2>2. TypeOK' /\ ClaimInv' /\ SweepInv'
    BY <2>1 DEF IInv, TypeOK, ClaimInv, SweepInv, dbVars
  <2>3. AttemptInv'
    BY <2>1 DEF IInv, AttemptInv, AttemptOK, InAttempt, dbVars
  <2> QED
    BY <2>1, <2>2, <2>3, LocalStep DEF IInv
<1> QED
  BY <1>1, <1>2, <1>3, <1>4, <1>5, <1>6, <1>7, <1>8, <1>9, <1>10, <1>11, <1>12,
     <1>13, <1>14, <1>15, <1>16, <1>17 DEF Next

(* The inductive invariant holds in every reachable state. *)
THEOREM Invariance == Spec => []IInv
  BY InitIInv, NextIInv, PTL DEF Spec

(* The variables keep their types; in particular retry_count never passes  *)
(* max_retries (fail(), queue-queries.ts).                                 *)
THEOREM TypeCorrect == Spec => []TypeOK
  BY Invariance, PTL DEF IInv

(* retry_count counts exactly the fail() calls that took effect, and a job *)
(* is in dead_letter exactly when they are used up.                        *)
THEOREM RetriesCounted == Spec => []RetryAccounting
<1>1. IInv => RetryAccounting
  BY DEF IInv
<1> QED
  BY <1>1, Invariance, PTL

(* Every job row a reader sees has the columns its status calls for. *)
THEOREM RowsWellFormed == Spec => []RowWellFormed
<1>1. IInv => RowWellFormed
  BY DEF IInv
<1> QED
  BY <1>1, Invariance, PTL

(* Media and variant rows agree with the job in every state. *)
THEOREM MediaFollows == Spec => []MediaInSync
<1>1. IInv => MediaInSync
  BY DEF IInv
<1> QED
  BY <1>1, Invariance, PTL

(* A worker or a heartbeat that passes the (id, processing, startedAt)     *)
(* fence of queue-queries.ts belongs to the job's latest attempt.          *)
THEOREM FenceSound == Spec => []FenceIdentifiesAttempt
<1>1. IInv => FenceIdentifiesAttempt
  <2> SUFFICES ASSUME IInv PROVE FenceIdentifiesAttempt
    OBVIOUS
  <2>1. \A w \in Worker : OwnsRow(w) => worker[w].attempt = attempts[worker[w].job]
    BY FencedIsLatest DEF OwnsRow
  <2>2. \A b \in beats : Fenced(b.job, b.startedAt) => b.attempt = attempts[b.job]
    BY DEF IInv, TypeOK, Beat, BeatInv, Fenced
  <2> QED
    BY <2>1, <2>2 DEF FenceIdentifiesAttempt
<1> QED
  BY <1>1, Invariance, PTL

(* No two workers own one job at the same time. *)
THEOREM MutualExclusion == Spec => []AtMostOneOwner
<1>1. IInv => AtMostOneOwner
  <2> SUFFICES ASSUME IInv, NEW v \in Worker, NEW w \in Worker, OwnsRow(v), OwnsRow(w),
                      worker[v].job = worker[w].job
               PROVE  v = w
    BY DEF AtMostOneOwner
  <2>1. InAttempt(v) /\ InAttempt(w) /\ AttemptInv
    BY DEF OwnsRow, IInv
  <2>2. worker[v].attempt = worker[w].attempt
    BY <2>1, FencedIsLatest DEF OwnsRow
  <2> QED
    BY <2>1, <2>2, AttemptsDistinct
<1> QED
  BY <1>1, Invariance, PTL

-----------------------------------------------------------------------------
(* What one step may do to a row: the facts the action properties need. *)
LEMMA RowChanges ==
    ASSUME IInv, [Next]_vars, NEW j \in Job
    PROVE  \/ job'[j] = job[j] /\ media'[j] = media[j] /\ variant'[j] = variant[j]
           \/ job[j].status = "absent" /\ job'[j].status = "queued"
           \/ \E w \in Worker : RequeueStale(w, j) /\ Stale(j, sweep[w].now)
           \/ job[j].status \in Claimable /\ job'[j].status = "processing"
           \/ job[j].status = "processing" /\ job'[j].status = "processing"
           \/ \E w \in Worker : /\ Complete(w) \/ FailUpdate(w)
                                /\ InAttempt(w) /\ worker[w].job = j
                                /\ Fenced(j, worker[w].startedAt)
<1> DEFINE Same == job'[j] = job[j] /\ media'[j] = media[j] /\ variant'[j] = variant[j]
<1> USE DEF dbVars
<1>1. CASE Tick \/ UNCHANGED vars
  BY <1>1 DEF Tick, vars
<1>2. ASSUME NEW k \in Job, Enqueue(k) PROVE Same \/ (job[j].status = "absent" /\ job'[j].status = "queued")
  BY <1>2 DEF Enqueue, NewRow, IInv, TypeOK
<1>3. ASSUME NEW w \in Worker,
             Start(w) \/ Recovered(w) \/ Crash(w) \/ SweepSelect(w) \/ SweepError(w)
             \/ ClaimBegin(w) \/ ClaimEmpty(w) \/ HeartbeatSend(w)
             \/ ProcessError(w) \/ FailRead(w)
      PROVE  Same
  BY <1>3 DEF Start, Recovered, Crash, SweepSelect, SweepError, ClaimBegin, ClaimEmpty,
              HeartbeatSend, ProcessError, FailRead
<1>4. ASSUME NEW w \in Worker, NEW k \in Job, RequeueStale(w, k)
      PROVE  Same \/ (k = j /\ Stale(j, sweep[w].now))
  BY <1>4 DEF RequeueStale, IInv, TypeOK
<1>5. ASSUME NEW w \in Worker, NEW k \in Job, ClaimSelect(w, k) PROVE Same
  BY <1>5 DEF ClaimSelect
<1>6. ASSUME NEW w \in Worker, ClaimCommit(w)
      PROVE  Same \/ (job[j].status \in Claimable /\ job'[j].status = "processing")
  <2>1. worker[w].job \in Job /\ job[worker[w].job].status \in Claimable
    BY <1>6 DEF ClaimCommit, IInv, ClaimInv
  <2>2. ClaimedRow(job[j], worker[w].now).status = "processing"
    BY DEF IInv, TypeOK, ClaimedRow, JobRow
  <2> QED
    BY <1>6, <2>1, <2>2 DEF ClaimCommit, IInv, TypeOK
<1>7. ASSUME NEW b \in beats, Heartbeat(b)
      PROVE  Same \/ (job[j].status = "processing" /\ job'[j].status = "processing")
  BY <1>7 DEF Heartbeat, Fenced, IInv, TypeOK, Beat, JobRow
<1>8. ASSUME NEW b \in beats, HeartbeatLost(b) PROVE Same
  BY <1>8 DEF HeartbeatLost
<1>9. ASSUME NEW w \in Worker, Complete(w) \/ FailUpdate(w)
      PROVE  Same \/ (InAttempt(w) /\ worker[w].job = j /\ Fenced(j, worker[w].startedAt))
  <2>1. InAttempt(w)
    BY <1>9 DEF Complete, FailUpdate, InAttempt
  <2>2. CASE ~Fenced(worker[w].job, worker[w].startedAt)
    BY <1>9, <2>2 DEF Complete, FailUpdate
  <2>3. CASE Fenced(worker[w].job, worker[w].startedAt) /\ worker[w].job # j
    BY <1>9, <2>3 DEF Complete, FailUpdate, IInv, TypeOK
  <2> QED
    BY <2>1, <2>2, <2>3
<1> QED
  BY <1>1, <1>2, <1>3, <1>4, <1>5, <1>6, <1>7, <1>8, <1>9 DEF Next

LEMMA EndedStatus ==
    ASSUME IInv, NEW w \in Worker, Complete(w) \/ FailUpdate(w),
           InAttempt(w), Fenced(worker[w].job, worker[w].startedAt)
    PROVE  job'[worker[w].job].status \in {"completed", "failed", "dead_letter"}
<1> DEFINE j == worker[w].job
<1>1. j \in Job /\ job[j] \in JobRow /\ job \in [Job -> JobRow]
  BY FencedIsLatest DEF IInv, TypeOK
<1>2. CASE Complete(w)
  <2>1. job' = [job EXCEPT ![j] = CompletedRow(job[j])]
    BY <1>2 DEF Complete
  <2> QED
    BY <1>1, <2>1 DEF CompletedRow, JobRow
<1>3. CASE FailUpdate(w)
  <2>1. job' = [job EXCEPT ![j] = FailedRow(job[j], worker[w].retryCount + 1)]
    BY <1>3 DEF FailUpdate
  <2>2. FailedRow(job[j], worker[w].retryCount + 1).status \in {"failed", "dead_letter"}
    BY <1>1 DEF FailedRow, JobRow
  <2> QED
    BY <1>1, <2>1, <2>2
<1> QED
  BY <1>2, <1>3

LEMMA RequeuedStatus ==
    ASSUME IInv, NEW w \in Worker, NEW j \in Job, RequeueStale(w, j), Stale(j, sweep[w].now)
    PROVE  job'[j].status = "queued"
<1>1. job[j] \in JobRow /\ job \in [Job -> JobRow]
  BY DEF IInv, TypeOK
<1>2. job' = [job EXCEPT ![j] = RequeuedRow(job[j])]
  BY DEF RequeueStale
<1> QED
  BY <1>1, <1>2 DEF RequeuedRow, JobRow

(* requeueStale() never takes a job whose lease has not run out when its   *)
(* UPDATE executes.                                                        *)
THEOREM RequeueSafe == Spec => RequeueOnlyExpired
<1>1. ASSUME IInv, [Next]_vars, NEW j \in Job,
             job[j].status = "processing", job'[j].status = "queued"
      PROVE  job[j].leaseExpiresAt < clock
  <2>1. CASE \E w \in Worker : RequeueStale(w, j) /\ Stale(j, sweep[w].now)
    <3>1. PICK w \in Worker : Stale(j, sweep[w].now)
      BY <2>1
    <3>2. sweep[w].now <= clock /\ sweep[w].now \in Nat /\ clock \in Nat
      BY <1>1 DEF IInv, TypeOK, SweepInv, Sweep
    <3>3. job[j].leaseExpiresAt \in Nat
      BY <1>1 DEF IInv, RowWellFormed
    <3> QED
      BY <3>1, <3>2, <3>3 DEF Stale
  <2>2. CASE \E w \in Worker : /\ Complete(w) \/ FailUpdate(w)
                               /\ InAttempt(w) /\ worker[w].job = j
                               /\ Fenced(j, worker[w].startedAt)
    BY <1>1, <2>2, EndedStatus
  <2> QED
    BY <1>1, <2>1, <2>2, RowChanges DEF Claimable
<1>2. IInv /\ [Next]_vars =>
        [\A j \in Job : job[j].status = "processing" /\ job'[j].status = "queued"
             => job[j].leaseExpiresAt < clock]_vars
  BY <1>1
<1> QED
  BY <1>2, Invariance, PTL DEF Spec, RequeueOnlyExpired

(* A completed or dead-lettered job, its media status and its variant are  *)
(* final.                                                                  *)
THEOREM TerminalStable == Spec => TerminalIsFinal
<1>1. ASSUME IInv, [Next]_vars, NEW j \in Job, job[j].status \in Terminal
      PROVE  job'[j] = job[j] /\ media'[j] = media[j] /\ variant'[j] = variant[j]
  BY <1>1, RowChanges DEF Terminal, Claimable, Stale, Fenced
<1>2. IInv /\ [Next]_vars =>
        [\A j \in Job : job[j].status \in Terminal =>
            /\ job'[j] = job[j] /\ media'[j] = media[j] /\ variant'[j] = variant[j]]_vars
  BY <1>1
<1> QED
  BY <1>2, Invariance, PTL DEF Spec, TerminalIsFinal

(* Only the worker of the latest attempt takes a job out of processing     *)
(* through complete() or fail().                                           *)
THEOREM OwnerEnds == Spec => OnlyOwnerEndsAttempt
<1>1. ASSUME IInv, [Next]_vars, NEW j \in Job, job[j].status = "processing",
             job'[j].status \in {"completed", "failed", "dead_letter"}
      PROVE  \E w \in Worker : /\ InAttempt(w) /\ worker[w].job = j
                               /\ worker[w].attempt = attempts[j]
                               /\ worker'[w] # worker[w]
  <2>1. CASE \E w \in Worker : RequeueStale(w, j) /\ Stale(j, sweep[w].now)
    BY <1>1, <2>1, RequeuedStatus
  <2>2. CASE \E w \in Worker : /\ Complete(w) \/ FailUpdate(w)
                               /\ InAttempt(w) /\ worker[w].job = j
                               /\ Fenced(j, worker[w].startedAt)
    <3>1. PICK w \in Worker : /\ Complete(w) \/ FailUpdate(w)
                              /\ InAttempt(w) /\ worker[w].job = j
                              /\ Fenced(j, worker[w].startedAt)
      BY <2>2
    <3>2. worker[w].attempt = attempts[j]
      BY <1>1, <3>1, FencedIsLatest
    <3>3. worker'[w].pc # worker[w].pc
      BY <1>1, <3>1 DEF Complete, FailUpdate, IInv, TypeOK, WorkerState, Idle, Down
    <3> QED
      BY <3>1, <3>2, <3>3
  <2> QED
    BY <1>1, <2>1, <2>2, RowChanges DEF Claimable
<1>2. IInv /\ [Next]_vars =>
        [\A j \in Job :
            /\ job[j].status = "processing"
            /\ job'[j].status \in {"completed", "failed", "dead_letter"}
            => \E w \in Worker : /\ InAttempt(w)
                                 /\ worker[w].job = j
                                 /\ worker[w].attempt = attempts[j]
                                 /\ worker'[w] # worker[w]]_vars
  BY <1>1
<1> QED
  BY <1>2, Invariance, PTL DEF Spec, OnlyOwnerEndsAttempt


-----------------------------------------------------------------------------
(* TranscodeQueue implements LeasedJobs: every step of the rows, the      *)
(* workers and the heartbeats is a step of the abstract queue, or leaves   *)
(* the abstract queue as it is.                                            *)

(* Worker w can pass the fence of job j. *)
Owns(w, j) == OwnsRow(w) /\ worker[w].job = j

(* The state of the abstract queue. *)
Queue == <<[j \in Job |-> job[j].status], [j \in Job |-> job[j].retryCount],
           [j \in Job |-> Owner(j)]>>

-----------------------------------------------------------------------------
(* Who owns a job, before and after a step. *)

LEMMA SoleOwner == IInv => \A j \in Job, v, w \in Worker : Owns(v, j) /\ Owns(w, j) => v = w
<1> SUFFICES ASSUME IInv, NEW j \in Job, NEW v \in Worker, NEW w \in Worker,
                    Owns(v, j), Owns(w, j)
             PROVE  v = w
  OBVIOUS
<1>1. InAttempt(v) /\ InAttempt(w) /\ AttemptInv
  BY DEF Owns, OwnsRow, IInv
<1>2. worker[v].attempt = worker[w].attempt /\ worker[v].job = worker[w].job
  BY <1>1, FencedIsLatest DEF Owns, OwnsRow
<1> QED
  BY <1>1, <1>2, AttemptsDistinct

LEMMA OwnerIs == IInv => \A j \in Job, w \in Worker : Owns(w, j) => Owner(j) = w
<1> SUFFICES ASSUME IInv, NEW j \in Job, NEW w \in Worker, Owns(w, j) PROVE Owner(j) = w
  OBVIOUS
<1> DEFINE owners == {v \in Worker : OwnsRow(v) /\ worker[v].job = j}
<1>1. owners = {w}
  BY SoleOwner DEF Owns
<1>2. Owner(j) = CHOOSE v \in owners : TRUE
  BY <1>1 DEF Owner
<1> QED
  BY <1>1, <1>2

LEMMA SoleOwnerNext ==
    IInv' => \A j \in Job, v, w \in Worker : Owns(v, j)' /\ Owns(w, j)' => v = w
<1> SUFFICES ASSUME IInv', NEW j \in Job, NEW v \in Worker, NEW w \in Worker,
                    Owns(v, j)', Owns(w, j)'
             PROVE  v = w
  OBVIOUS
<1>1. /\ InAttempt(v)' /\ InAttempt(w)' /\ AttemptInv'
      /\ worker'[v].job = j /\ worker'[w].job = j
      /\ job'[j].status = "processing"
      /\ job'[j].startedAt = worker'[v].startedAt
      /\ job'[j].startedAt = worker'[w].startedAt
  BY DEF Owns, OwnsRow, IInv, Fenced
<1>2. /\ worker'[v].startedAt \in Nat /\ worker'[w].startedAt \in Nat
  BY DEF IInv, TypeOK, WorkerState
<1>3. AttemptOK(v)' /\ AttemptOK(w)'
  BY <1>1 DEF AttemptInv
<1>4. worker'[v].attempt = attempts'[j] /\ worker'[w].attempt = attempts'[j]
  BY <1>1, <1>2, <1>3 DEF AttemptOK
<1> QED
  BY <1>1, <1>4, Zenon DEF AttemptInv

LEMMA OwnerIsNext == IInv' => \A j \in Job, w \in Worker : Owns(w, j)' => Owner(j)' = w
<1> SUFFICES ASSUME IInv', NEW j \in Job, NEW w \in Worker, Owns(w, j)' PROVE Owner(j)' = w
  OBVIOUS
<1> DEFINE owners == {v \in Worker : OwnsRow(v)' /\ worker'[v].job = j}
<1>1. owners = {w}
  BY SoleOwnerNext DEF Owns
<1>2. Owner(j)' = CHOOSE v \in owners : TRUE
  BY <1>1 DEF Owner
<1> QED
  BY <1>1, <1>2

LEMMA NoOwner ==
    ASSUME NEW j, \A w \in Worker : ~Owns(w, j)
    PROVE  Owner(j) = Null
<1>1. {v \in Worker : OwnsRow(v) /\ worker[v].job = j} = {}
  BY DEF Owns
<1> QED
  BY <1>1 DEF Owner

LEMMA NoOwnerNext ==
    ASSUME NEW j, \A w \in Worker : ~Owns(w, j)'
    PROVE  Owner(j)' = Null
<1>1. {v \in Worker : OwnsRow(v)' /\ worker'[v].job = j} = {}
  BY DEF Owns
<1> QED
  BY <1>1 DEF Owner

LEMMA OwnerKept ==
    ASSUME NEW j, \A w \in Worker : Owns(w, j)' <=> Owns(w, j)
    PROVE  Owner(j)' = Owner(j)
<1> DEFINE before == {v \in Worker : OwnsRow(v) /\ worker[v].job = j}
           after == {v \in Worker : OwnsRow(v)' /\ worker'[v].job = j}
           owner(S) == IF S = {} THEN Null ELSE CHOOSE v \in S : TRUE
<1>1. before = after
  BY DEF Owns
<1>2. Owner(j) = owner(before) /\ Owner(j)' = owner(after)
  BY Zenon DEF Owner
<1> HIDE DEF before, after, owner
<1> QED
  BY <1>1, <1>2, Zenon

(* A step that changes neither the statuses, the counts nor the owners.    *)
LEMMA Stutter ==
    ASSUME \A j \in Job : /\ job'[j].status = job[j].status
                          /\ job'[j].retryCount = job[j].retryCount
                          /\ \A w \in Worker : Owns(w, j)' <=> Owns(w, j)
    PROVE  UNCHANGED Queue
<1>1. \A j \in Job : Owner(j)' = Owner(j)
  BY OwnerKept
<1> QED
  BY <1>1 DEF Queue

LEMMA OwnsKept ==
    ASSUME NEW w, NEW j, worker'[w] = worker[w],
           job'[j].status = job[j].status, job'[j].startedAt = job[j].startedAt
    PROVE  Owns(w, j)' <=> Owns(w, j)
  BY DEF Owns, OwnsRow, InAttempt, Fenced

-----------------------------------------------------------------------------
(* The steps. *)

LEMMA SubmitStep ==
    ASSUME IInv, IInv', NEW j \in Job, Enqueue(j)
    PROVE  Leased!Submit(j)
<1>1. /\ job \in [Job -> JobRow] /\ job[j].status = "absent" /\ job[j].retryCount = 0
      /\ job' = [job EXCEPT ![j] = job'[j]]
      /\ job'[j].status = "queued" /\ job'[j].retryCount = 0
      /\ worker' = worker
  BY DEF Enqueue, NewRow, IInv, TypeOK, RetryAccounting, CountInv
<1>2. \A k \in Job, w \in Worker : Owns(w, k)' <=> Owns(w, k)
  <2> SUFFICES ASSUME NEW k \in Job, NEW w \in Worker PROVE Owns(w, k)' <=> Owns(w, k)
    OBVIOUS
  <2>1. CASE k # j
    BY <1>1, <2>1, OwnsKept
  <2>2. CASE k = j
    BY <1>1, <2>2 DEF Owns, OwnsRow, Fenced
  <2> QED
    BY <2>1, <2>2
<1>3. \A k \in Job : Owner(k)' = Owner(k)
  BY <1>2, OwnerKept
<1> QED
  BY <1>1, <1>3 DEF Leased!Submit

LEMMA TakeStep ==
    ASSUME IInv, IInv', NEW w \in Worker, NEW j \in Job, NEW now \in Nat,
           ClaimCommit(w), worker[w].job = j, worker[w].now = now
    PROVE  Leased!Take(w, j)
<1>1. /\ job[j].status \in Claimable
      /\ job \in [Job -> JobRow] /\ worker \in [Worker -> WorkerState]
  BY DEF ClaimCommit, IInv, TypeOK, ClaimInv
<1>2. /\ job' = [job EXCEPT ![j] = ClaimedRow(job[j], now)]
      /\ worker' = [worker EXCEPT ![w] = Working(j, now, attempts[j] + 1)]
  BY DEF ClaimCommit
<1>3. /\ job'[j].status = "processing" /\ job'[j].startedAt = now
      /\ job'[j].retryCount = job[j].retryCount
      /\ \A k \in Job \ {j} : job'[k] = job[k]
      /\ \A v \in Worker \ {w} : worker'[v] = worker[v]
      /\ worker'[w] = Working(j, now, attempts[j] + 1)
  BY <1>1, <1>2 DEF ClaimedRow, JobRow
<1>4. Owns(w, j)'
  BY <1>3 DEF Owns, OwnsRow, InAttempt, Fenced, Working
<1>5. Owner(j)' = w
  BY <1>1, <1>4, OwnerIsNext
<1>6. ASSUME NEW k \in Job \ {j} PROVE Owner(k)' = Owner(k)
  <2>1. ASSUME NEW v \in Worker PROVE Owns(v, k)' <=> Owns(v, k)
    <3>1. CASE v = w
      <4>1. worker'[w].job = j /\ worker[w].job = j
        BY <1>3 DEF Working
      <4> QED
        BY <3>1, <4>1 DEF Owns
    <3>2. CASE v # w
      BY <1>3, <3>2, OwnsKept
    <3> QED
      BY <3>1, <3>2
  <2> QED
    BY <2>1, OwnerKept
<1> QED
  BY <1>1, <1>3, <1>5, <1>6 DEF Leased!Take, Claimable

(* A fenced complete() or fail() by the owner of j. *)
LEMMA EndStep ==
    ASSUME IInv, IInv', NEW w \in Worker, NEW j \in Job, worker[w].job = j,
           Complete(w) \/ FailUpdate(w), Fenced(j, worker[w].startedAt)
    PROVE  /\ Owner(j) = w /\ Owner(j)' = Null
           /\ \A k \in Job \ {j} : job'[k] = job[k] /\ Owner(k)' = Owner(k)
<1>1. InAttempt(w)
  BY DEF Complete, FailUpdate, InAttempt
<1>2. job \in [Job -> JobRow] /\ worker \in [Worker -> WorkerState]
  BY <1>1, FencedIsLatest DEF IInv, TypeOK
<1>3. Owner(j) = w
  BY <1>1, <1>2, OwnerIs DEF Owns, OwnsRow
<1>4. job'[j].status \in {"completed", "failed", "dead_letter"}
  BY <1>1, EndedStatus
<1>5. Owner(j)' = Null
  BY <1>4, NoOwnerNext DEF Owns, OwnsRow, Fenced
<1>6. /\ \A k \in Job \ {j} : job'[k] = job[k]
      /\ \A v \in Worker \ {w} : worker'[v] = worker[v]
      /\ worker'[w].job = j \/ ~InAttempt(w)'
  BY <1>2 DEF Complete, FailUpdate, InAttempt, Idle, Down, WorkerState
<1>7. ASSUME NEW k \in Job \ {j} PROVE Owner(k)' = Owner(k)
  <2>1. ASSUME NEW v \in Worker PROVE Owns(v, k)' <=> Owns(v, k)
    <3>1. CASE v = w
      BY <1>6, <3>1 DEF Owns, OwnsRow
    <3>2. CASE v # w
      BY <1>6, <3>2, OwnsKept
    <3> QED
      BY <3>1, <3>2
  <2> QED
    BY <2>1, OwnerKept
<1> QED
  BY <1>2, <1>3, <1>5, <1>6, <1>7

LEMMA FinishStep ==
    ASSUME IInv, IInv', NEW w \in Worker, NEW j \in Job, worker[w].job = j,
           Complete(w), Fenced(j, worker[w].startedAt)
    PROVE  Leased!Finish(w, j)
<1>1. /\ Owner(j) = w /\ Owner(j)' = Null
      /\ \A k \in Job \ {j} : job'[k] = job[k] /\ Owner(k)' = Owner(k)
  BY EndStep
<1>2. job' = [job EXCEPT ![j] = CompletedRow(job[j])] /\ job \in [Job -> JobRow]
  BY DEF Complete, IInv, TypeOK
<1>3. job'[j].status = "completed" /\ job'[j].retryCount = job[j].retryCount
  BY <1>1, <1>2 DEF CompletedRow, JobRow
<1> QED
  BY <1>1, <1>3 DEF Leased!Finish

LEMMA FailStep ==
    ASSUME IInv, IInv', NEW w \in Worker, NEW j \in Job, worker[w].job = j,
           FailUpdate(w), Fenced(j, worker[w].startedAt)
    PROVE  Leased!Fail(w, j)
<1> DEFINE n == worker[w].retryCount + 1
<1>1. /\ Owner(j) = w /\ Owner(j)' = Null
      /\ \A k \in Job \ {j} : job'[k] = job[k] /\ Owner(k)' = Owner(k)
  BY EndStep
<1>2. job' = [job EXCEPT ![j] = FailedRow(job[j], n)] /\ job \in [Job -> JobRow]
  BY DEF FailUpdate, IInv, TypeOK
<1>3. n = job[j].retryCount + 1 /\ job[j].retryCount \in Nat
  <2>1. worker[w].pc = "failUpdate" /\ InAttempt(w)
    BY DEF FailUpdate, InAttempt
  <2>2. worker[w].retryCount = job[j].retryCount
    BY <2>1, FencedIsLatest
  <2> QED
    BY <1>1, <1>2, <2>2 DEF JobRow
<1>4. /\ job'[j].retryCount = n
      /\ job'[j].status = IF n >= MaxRetries THEN "dead_letter" ELSE "failed"
  BY <1>1, <1>2 DEF FailedRow, JobRow, Exhausted
<1>5. job'[j].status = IF job[j].retryCount + 1 < MaxRetries THEN "failed" ELSE "dead_letter"
  BY <1>3, <1>4
<1> QED
  BY <1>1, <1>3, <1>4, <1>5 DEF Leased!Fail

LEMMA RevokeStep ==
    ASSUME IInv, IInv', NEW w \in Worker, NEW j \in Job, RequeueStale(w, j),
           Stale(j, sweep[w].now)
    PROVE  Leased!Revoke(j)
<1>1. /\ job' = [job EXCEPT ![j] = RequeuedRow(job[j])] /\ job \in [Job -> JobRow]
      /\ worker' = worker
  BY DEF RequeueStale, IInv, TypeOK
<1>2. /\ job'[j].status = "queued" /\ job'[j].retryCount = job[j].retryCount
      /\ job[j].status = "processing"
      /\ \A k \in Job \ {j} : job'[k] = job[k]
  BY <1>1 DEF RequeuedRow, JobRow, Stale
<1>3. Owner(j)' = Null
  BY <1>2, NoOwnerNext DEF Owns, OwnsRow, Fenced
<1>4. \A k \in Job \ {j} : Owner(k)' = Owner(k)
  BY <1>1, <1>2, OwnsKept, OwnerKept
<1> QED
  BY <1>2, <1>3, <1>4 DEF Leased!Revoke

(* A step of one worker that touches no row.                               *)
LEMMA LocalMove ==
    ASSUME job' = job, NEW w \in Worker,
           \A v \in Worker \ {w} : worker'[v] = worker[v],
           \A j \in Job : Owns(w, j)' <=> Owns(w, j)
    PROVE  UNCHANGED Queue
<1>1. ASSUME NEW j \in Job, NEW v \in Worker PROVE Owns(v, j)' <=> Owns(v, j)
  <2>1. CASE v # w
    BY <2>1, OwnsKept
  <2> QED
    BY <2>1
<1> QED
  BY <1>1, Stutter

LEMMA CrashStep ==
    ASSUME IInv, NEW w \in Worker, Crash(w)
    PROVE  UNCHANGED Queue \/ \E j \in Job : Leased!Abandon(j)
<1>1. /\ worker \in [Worker -> WorkerState] /\ job' = job
      /\ worker' = [worker EXCEPT ![w] = Down] /\ Down.pc = "down"
  BY DEF Crash, dbVars, IInv, TypeOK, Down
<1>2. ~InAttempt(w)' /\ \A v \in Worker \ {w} : worker'[v] = worker[v]
  BY <1>1 DEF InAttempt
<1>3. CASE ~OwnsRow(w)
  BY <1>1, <1>2, <1>3, LocalMove DEF Owns, OwnsRow
<1>4. CASE OwnsRow(w)
  <2>1. PICK j \in Job : j = worker[w].job
    BY <1>4, FencedIsLatest DEF OwnsRow
  <2>2. Owns(w, j)
    BY <1>4, <2>1 DEF Owns
  <2>3. Owner(j) = w /\ w # Null
    BY <2>2, OwnerIs, WorkerAssumption
  <2>4. \A v \in Worker : ~Owns(v, j)'
    <3> SUFFICES ASSUME NEW v \in Worker, Owns(v, j)' PROVE FALSE
      OBVIOUS
    <3>1. v # w
      BY <1>2 DEF Owns, OwnsRow
    <3>2. Owns(v, j)
      BY <1>1, <1>2, <3>1, OwnsKept
    <3> QED
      BY <2>2, <3>1, <3>2, SoleOwner
  <2>5. Owner(j)' = Null
    BY <2>4, NoOwnerNext
  <2>6. ASSUME NEW k \in Job \ {j} PROVE Owner(k)' = Owner(k)
    <3>1. ASSUME NEW v \in Worker PROVE Owns(v, k)' <=> Owns(v, k)
      <4>1. CASE v = w
        BY <1>2, <2>1, <4>1 DEF Owns, OwnsRow
      <4>2. CASE v # w
        BY <1>1, <1>2, <4>2, OwnsKept
      <4> QED
        BY <4>1, <4>2
    <3> QED
      BY <3>1, OwnerKept
  <2> QED
    BY <1>1, <2>3, <2>5, <2>6 DEF Leased!Abandon
<1> QED
  BY <1>3, <1>4

(* Steps between attempts: before claim() commits there is nothing to own. *)
LEMMA IdleStep ==
    ASSUME IInv, NEW w \in Worker,
           \/ Start(w) \/ Recovered(w) \/ ClaimBegin(w) \/ ClaimEmpty(w)
           \/ \E j \in Job : ClaimSelect(w, j)
    PROVE  UNCHANGED Queue
<1>1. worker \in [Worker -> WorkerState] /\ job' = job
  BY DEF IInv, TypeOK, Start, Recovered, ClaimBegin, ClaimEmpty, ClaimSelect, dbVars
<1>2. \A v \in Worker \ {w} : worker'[v] = worker[v]
  BY <1>1 DEF Start, Recovered, ClaimBegin, ClaimEmpty, ClaimSelect
<1>3. ~InAttempt(w) /\ ~InAttempt(w)'
  BY <1>1 DEF InAttempt, Start, Recovered, ClaimBegin, ClaimEmpty, ClaimSelect,
              WorkerState, Idle, Down
<1> QED
  BY <1>1, <1>2, <1>3, LocalMove DEF Owns, OwnsRow

(* Steps of an attempt that change no row. *)
LEMMA AttemptStep ==
    ASSUME IInv, NEW w \in Worker,
           \/ ProcessError(w) \/ FailRead(w)
           \/ /\ Complete(w) \/ FailUpdate(w)
              /\ ~Fenced(worker[w].job, worker[w].startedAt)
    PROVE  UNCHANGED Queue
<1>1. worker \in [Worker -> WorkerState] /\ job' = job
  BY DEF IInv, TypeOK, ProcessError, FailRead, Complete, FailUpdate, dbVars
<1>2. \A v \in Worker \ {w} : worker'[v] = worker[v]
  BY <1>1 DEF ProcessError, FailRead, Complete, FailUpdate
<1>3. ASSUME NEW j \in Job PROVE Owns(w, j)' <=> Owns(w, j)
  <2>1. CASE /\ InAttempt(w) /\ InAttempt(w)'
             /\ worker'[w].job = worker[w].job
             /\ worker'[w].startedAt = worker[w].startedAt
    BY <1>1, <2>1 DEF Owns, OwnsRow, Fenced
  <2>2. CASE ~InAttempt(w)' /\ ~Fenced(worker[w].job, worker[w].startedAt)
    BY <2>2 DEF Owns, OwnsRow
  <2> QED
    BY <1>1, <2>1, <2>2 DEF ProcessError, FailRead, Complete, FailUpdate, InAttempt,
                            WorkerState, Idle, Down, Fenced
<1> QED
  BY <1>1, <1>2, <1>3, LocalMove

LEMMA LeaseStep ==
    ASSUME IInv, NEW b \in beats, Heartbeat(b)
    PROVE  UNCHANGED Queue
<1>1. job \in [Job -> JobRow] /\ worker' = worker
  BY DEF Heartbeat, IInv, TypeOK
<1>2. \A j \in Job : /\ job'[j].status = job[j].status
                     /\ job'[j].retryCount = job[j].retryCount
                     /\ job'[j].startedAt = job[j].startedAt
  BY <1>1 DEF Heartbeat, JobRow
<1> QED
  BY <1>1, <1>2, OwnsKept, Stutter

-----------------------------------------------------------------------------
(* The whole. *)

LEMMA InitQueue == Init => Leased!Init
<1> SUFFICES ASSUME Init PROVE Leased!Init
  OBVIOUS
<1>1. \A j \in Job : job[j].status = "absent" /\ job[j].retryCount = 0
  BY DEF Init, NoRow
<1>2. \A j \in Job : Owner(j) = Null
  BY <1>1, NoOwner DEF Owns, OwnsRow, Fenced
<1> QED
  BY <1>1, <1>2 DEF Leased!Init

LEMMA NextQueue ==
    ASSUME IInv, IInv', [Next]_vars
    PROVE  Leased!Next \/ UNCHANGED Queue
<1>1. ASSUME NEW j \in Job, Enqueue(j) PROVE Leased!Next
  BY <1>1, SubmitStep DEF Leased!Next
<1>2. ASSUME NEW w \in Worker, ClaimCommit(w) PROVE Leased!Next
  <2>1. worker[w].job \in Job /\ worker[w].now \in Nat
    BY <1>2 DEF ClaimCommit, IInv, TypeOK, ClaimInv, WorkerState
  <2> QED
    BY <1>2, <2>1, TakeStep DEF Leased!Next
<1>3. ASSUME NEW w \in Worker, Complete(w) \/ FailUpdate(w),
             Fenced(worker[w].job, worker[w].startedAt)
      PROVE  Leased!Next
  <2>1. worker[w].job \in Job
    BY <1>3, FencedIsLatest DEF Complete, FailUpdate, InAttempt
  <2> QED
    BY <1>3, <2>1, FinishStep, FailStep DEF Leased!Next
<1>4. ASSUME NEW w \in Worker, Crash(w) PROVE Leased!Next \/ UNCHANGED Queue
  BY <1>4, CrashStep DEF Leased!Next
<1>5. ASSUME NEW w \in Worker, NEW j \in Job, RequeueStale(w, j)
      PROVE  Leased!Next \/ UNCHANGED Queue
  <2>1. CASE Stale(j, sweep[w].now)
    BY <1>5, <2>1, RevokeStep DEF Leased!Next
  <2>2. CASE ~Stale(j, sweep[w].now)
    <3>1. job' = job /\ worker' = worker
      BY <1>5, <2>2 DEF RequeueStale
    <3> QED
      BY <3>1, OwnsKept, Stutter
  <2> QED
    BY <2>1, <2>2
<1>6. CASE \/ Tick \/ UNCHANGED vars
           \/ \E w \in Worker : SweepSelect(w) \/ SweepError(w) \/ HeartbeatSend(w)
           \/ \E b \in beats : HeartbeatLost(b)
  <2>1. job' = job /\ worker' = worker
    BY <1>6 DEF Tick, vars, SweepSelect, SweepError, HeartbeatSend, HeartbeatLost, dbVars
  <2> QED
    BY <2>1, OwnsKept, Stutter
<1>7. ASSUME NEW w \in Worker,
             \/ Start(w) \/ Recovered(w) \/ ClaimBegin(w) \/ ClaimEmpty(w)
             \/ \E j \in Job : ClaimSelect(w, j)
      PROVE  UNCHANGED Queue
  BY <1>7, IdleStep
<1>8. ASSUME NEW w \in Worker,
             \/ ProcessError(w) \/ FailRead(w)
             \/ /\ Complete(w) \/ FailUpdate(w)
                /\ ~Fenced(worker[w].job, worker[w].startedAt)
      PROVE  UNCHANGED Queue
  BY <1>8, AttemptStep
<1>9. ASSUME NEW b \in beats, Heartbeat(b) PROVE UNCHANGED Queue
  BY <1>9, LeaseStep
<1> QED
  BY <1>1, <1>2, <1>3, <1>4, <1>5, <1>6, <1>7, <1>8, <1>9 DEF Next

(* The queue of queue-queries.ts, used by any number of workers that       *)
(* crash, stall, repeat themselves and answer late, keeps the promises of  *)
(* the abstract queue: one holder per job, ended only by its holder, dead  *)
(* with the MaxRetries-th failure.                                         *)
THEOREM Refinement == Spec => ImplementsLeasedJobs
<1>1. Init => Leased!Init
  BY InitQueue
<1>2. IInv /\ IInv' /\ [Next]_vars => [Leased!Next]_(Leased!jobVars)
  BY NextQueue DEF Queue, Leased!jobVars
<1> QED
  BY <1>1, <1>2, Invariance, PTL DEF Spec, ImplementsLeasedJobs, Leased!Spec
=============================================================================

----------------------- MODULE TranscodePipelineProofs -----------------------
(***************************************************************************)
(* Proofs about TranscodePipeline for every set of jobs and processes,     *)
(* every retry limit, every disk and every number of faults.               *)
(***************************************************************************)
EXTENDS TranscodePipeline, TLAPS

USE ConstantsAssumption, NullAssumption

(* What the proofs go by: the invariants of the runs, together.            *)
IInv == ProcessInv /\ PublishedIsThere /\ DescribedUnlessRevoked

WorkerOK(w) == InAttempt(w) => AttemptOK(w) /\ FileOK(w) /\ UploadOK(w)

Described(j) ==
    variant[j] # Null =>
        /\ row[j].status = "completed" /\ variant[j].by = row[j].attempt
        /\ video[j] = variant[j] \/ video[j].by \in revoked[j]

Published(j) ==
    /\ row[j].status = "completed" => video[j] # Null /\ video[j].kind = "h264"
    /\ thumbnailUrl[j] => thumbnail[j] # Null

LEMMA Parts ==
    IInv <=> /\ TypeOK /\ DirectoriesAccounted
             /\ \A w \in Worker : WorkerOK(w)
             /\ \A j \in Job : JobOK(j) /\ Published(j) /\ Described(j)
  BY Zenon DEF IInv, ProcessInv, PublishedIsThere, DescribedUnlessRevoked, WorkerOK,
               Described, Published

LEMMA PartsNext ==
    /\ TypeOK' /\ DirectoriesAccounted'
    /\ \A w \in Worker : WorkerOK(w)'
    /\ \A j \in Job : JobOK(j)' /\ Published(j)' /\ Described(j)'
    => IInv'
  BY Zenon DEF IInv, ProcessInv, PublishedIsThere, DescribedUnlessRevoked, WorkerOK,
               Described, Published

-----------------------------------------------------------------------------
(* The states of a process. *)

LEMMA WorkerConstants ==
    /\ Down \in WorkerState /\ Idle \in WorkerState
    /\ Down.pc = "down" /\ Idle.pc = "idle"
    /\ EmptyDir \in Dir /\ EmptyDir # Null
<1>1. Down \in WorkerState /\ Down.pc = "down"
  BY DEF Down, WorkerState
<1>2. Idle \in WorkerState /\ Idle.pc = "idle"
  BY <1>1 DEF Idle, WorkerState
<1>3. EmptyDir \in Dir
  BY DEF EmptyDir, Dir
<1> QED
  BY <1>1, <1>2, <1>3

PC == {"down", "idle", "fetch", "download", "encode", "validate", "upload", "frame",
       "thumbnail", "complete", "fail"}

LEMMA GoToState ==
    ASSUME TypeOK, NEW w \in Worker, NEW pc \in PC, GoTo(w, pc)
    PROVE  /\ worker' \in [Worker -> WorkerState]
           /\ \A v \in Worker \ {w} : worker'[v] = worker[v]
           /\ worker'[w].pc = pc
           /\ worker'[w].job = worker[w].job /\ worker'[w].attempt = worker[w].attempt
           /\ worker'[w].uploaded = worker[w].uploaded /\ worker'[w].thumb = worker[w].thumb
<1> DEFINE s == [worker[w] EXCEPT !.pc = pc]
<1>1. worker \in [Worker -> WorkerState] /\ worker[w] \in WorkerState
  BY DEF TypeOK
<1>2. /\ s \in WorkerState /\ s.pc = pc
      /\ s.job = worker[w].job /\ s.attempt = worker[w].attempt
      /\ s.uploaded = worker[w].uploaded /\ s.thumb = worker[w].thumb
  BY <1>1 DEF WorkerState, PC
<1>3. worker' = [worker EXCEPT ![w] = s]
  BY DEF GoTo
<1> HIDE DEF s
<1> QED
  BY <1>1, <1>2, <1>3

LEMMA SetState ==
    ASSUME TypeOK, NEW w \in Worker, NEW s \in WorkerState, worker' = [worker EXCEPT ![w] = s]
    PROVE  /\ worker' \in [Worker -> WorkerState] /\ worker'[w] = s
           /\ \A v \in Worker \ {w} : worker'[v] = worker[v]
  BY DEF TypeOK

LEMMA SetDir ==
    ASSUME TypeOK, NEW w \in Worker, NEW j \in Job, NEW d \in Dir \cup {Null},
           dir' = [dir EXCEPT ![w][j] = d]
    PROVE  /\ dir' \in [Worker -> [Job -> Dir \cup {Null}]] /\ dir'[w][j] = d
           /\ \A k \in Job \ {j} : dir'[w][k] = dir[w][k]
           /\ \A v \in Worker \ {w} : dir'[v] = dir[v]
<1>1. dir[w] \in [Job -> Dir \cup {Null}]
  BY DEF TypeOK
<1> DEFINE f == [dir[w] EXCEPT ![j] = d]
<1>2. f \in [Job -> Dir \cup {Null}] /\ f[j] = d /\ \A k \in Job \ {j} : f[k] = dir[w][k]
  BY <1>1
<1>3. dir' = [dir EXCEPT ![w] = f]
  OBVIOUS
<1> HIDE DEF f
<1> QED
  BY <1>2, <1>3 DEF TypeOK

-----------------------------------------------------------------------------
(* What a step leaves of the invariant where it changes nothing of it.     *)

(* A process that neither moves nor has its directory touched, while rows, *)
(* objects and the other processes change.                                 *)
LEMMA Bystander ==
    ASSUME IInv, NEW v \in Worker, worker'[v] = worker[v], dir'[v] = dir[v],
           InAttempt(v) =>
             LET j == worker[v].job
                 n == worker[v].attempt
             IN  /\ row'[j].status = "deleted" \/ n <= row'[j].attempt
                 /\ \/ worker[v].pc = "fail" \/ Fenced(v)'
                    \/ n \in revoked'[j] \/ row'[j].status = "deleted"
                 /\ \A w \in Worker \ {v} :
                       InAttempt(w)' /\ worker'[w].job = j => worker'[w].attempt # n
                 /\ video[j] # Null => video'[j] # Null
                 /\ thumbnail[j] # Null => thumbnail'[j] # Null
                 /\ Fenced(v)' => /\ Fenced(v)
                                  /\ \/ video'[j] = video[j] /\ revoked[j] \subseteq revoked'[j]
                                     \/ video'[j].by \in revoked'[j]
    PROVE  WorkerOK(v)'
<1> SUFFICES ASSUME InAttempt(v)' PROVE (AttemptOK(v) /\ FileOK(v) /\ UploadOK(v))'
  BY DEF WorkerOK
<1>1. InAttempt(v) /\ AttemptOK(v) /\ FileOK(v) /\ UploadOK(v)
  BY Parts DEF WorkerOK, InAttempt
<1>2. AttemptOK(v)'
  BY <1>1 DEF AttemptOK
<1>3. FileOK(v)'
  BY <1>1 DEF FileOK
<1>4. UploadOK(v)'
  BY <1>1 DEF UploadOK
<1> QED
  BY <1>2, <1>3, <1>4

(* The steps of an attempt that change no row and no object. *)
LEMMA OthersOK ==
    ASSUME IInv, NEW w \in Worker, UNCHANGED <<row, objectVars, revoked>>,
           \A v \in Worker \ {w} : worker'[v] = worker[v] /\ dir'[v] = dir[v],
           \/ ~InAttempt(w)'
           \/ /\ InAttempt(w) /\ worker'[w].job = worker[w].job
              /\ worker'[w].attempt = worker[w].attempt
    PROVE  \A v \in Worker \ {w} : WorkerOK(v)'
<1> SUFFICES ASSUME NEW v \in Worker \ {w} PROVE WorkerOK(v)'
  OBVIOUS
<1>1. worker'[v] = worker[v] /\ dir'[v] = dir[v]
  OBVIOUS
<1>2. CASE ~InAttempt(v)
  BY <1>1, <1>2 DEF WorkerOK, InAttempt
<1>3. CASE InAttempt(v)
  <2>1. AttemptOK(v)
    BY <1>3, Parts DEF WorkerOK
  <2>2. \A u \in Worker \ {v} :
           InAttempt(u)' /\ worker'[u].job = worker[v].job => worker'[u].attempt # worker[v].attempt
    BY <2>1 DEF AttemptOK, InAttempt
  <2>3. Fenced(v)' <=> Fenced(v)
    BY <1>1 DEF Fenced
  <2> QED
    BY <1>1, <2>1, <2>2, <2>3, Bystander DEF AttemptOK, objectVars
<1> QED
  BY <1>2, <1>3

LEMMA SameJobs ==
    ASSUME IInv, UNCHANGED <<dbVars, objectVars, revoked>>
    PROVE  \A j \in Job : JobOK(j)' /\ Published(j)' /\ Described(j)'
  BY Parts DEF JobOK, Published, Described, dbVars, objectVars

(* The directories of a process that is where it was, or was nowhere. *)
LEMMA DirsAccounted ==
    ASSUME IInv, NEW w \in Worker,
           \A v \in Worker \ {w} :
              /\ worker'[v] = worker[v] /\ dir'[v] = dir[v]
              /\ \A k \in Job : <<v, k>> \in orphaned => <<v, k>> \in orphaned',
           \A j \in Job : dir'[w][j] # Null =>
              \/ InAttempt(w)' /\ worker'[w].job = j
              \/ <<w, j>> \in orphaned'
    PROVE  DirectoriesAccounted'
<1> SUFFICES ASSUME NEW v \in Worker, NEW j \in Job, dir'[v][j] # Null
             PROVE  (InAttempt(v)' /\ worker'[v].job = j) \/ <<v, j>> \in orphaned'
  BY DEF DirectoriesAccounted
<1>1. CASE v # w
  <2>1. worker'[v] = worker[v] /\ dir'[v] = dir[v]
    BY <1>1
  <2>2. (InAttempt(v) /\ worker[v].job = j) \/ <<v, j>> \in orphaned
    BY <2>1, Parts DEF DirectoriesAccounted
  <2> QED
    BY <2>1, <2>2 DEF InAttempt
<1> QED
  BY <1>1

(* What an attempt finds in its directory. *)
LEMMA InAttemptIs ==
    ASSUME IInv, NEW w \in Worker, InAttempt(w)
    PROVE  /\ worker[w] \in WorkerState /\ worker[w].job \in Job
           /\ worker[w].attempt \in Nat
           /\ dir[w][worker[w].job] \in Dir
           /\ AttemptOK(w) /\ FileOK(w) /\ UploadOK(w)
<1>1. AttemptOK(w) /\ FileOK(w) /\ UploadOK(w) /\ worker[w] \in WorkerState
  BY Parts DEF WorkerOK, TypeOK
<1> QED
  BY <1>1, Parts DEF AttemptOK, TypeOK, WorkerState

-----------------------------------------------------------------------------
(* The steps that change no row and no object. *)

LEMMA InitInv == Init => IInv
<1> SUFFICES ASSUME Init PROVE IInv
  OBVIOUS
<1>1. TypeOK
  <2>1. [status |-> "queued", retryCount |-> 0, attempt |-> 0] \in Row
    BY DEF Row
  <2> QED
    BY <2>1, WorkerConstants DEF Init, TypeOK
<1>2. DirectoriesAccounted
  BY DEF Init, DirectoriesAccounted
<1>3. \A w \in Worker : WorkerOK(w)
  BY WorkerConstants DEF Init, WorkerOK, InAttempt
<1>4. \A j \in Job : JobOK(j) /\ Published(j) /\ Described(j)
  BY DEF Init, JobOK, Published, Described
<1> QED
  BY <1>1, <1>2, <1>3, <1>4, Parts

(* An attempt moves on within its directory, or its process starts or dies. *)
LEMMA LocalMove ==
    ASSUME IInv, NEW w \in Worker, UNCHANGED <<dbVars, objectVars, revoked>>,
           faults' \in 0..MaxFaults,
           orphaned \subseteq orphaned', orphaned' \subseteq (Worker \X Job),
           worker' \in [Worker -> WorkerState], dir' \in [Worker -> [Job -> Dir \cup {Null}]],
           \A v \in Worker \ {w} : worker'[v] = worker[v] /\ dir'[v] = dir[v],
           \A j \in Job : dir'[w][j] # Null =>
              \/ InAttempt(w)' /\ worker'[w].job = j
              \/ <<w, j>> \in orphaned',
           \/ ~InAttempt(w)'
           \/ /\ InAttempt(w) /\ worker'[w].job = worker[w].job
              /\ worker'[w].attempt = worker[w].attempt
              /\ dir'[w][worker[w].job] # Null
              /\ worker[w].pc = "fail" => worker'[w].pc = "fail"
              /\ FileOK(w)' /\ UploadOK(w)'
    PROVE  IInv'
<1>1. TypeOK'
  BY Parts DEF TypeOK, dbVars, objectVars
<1>2. DirectoriesAccounted'
  BY DirsAccounted
<1>3. \A v \in Worker \ {w} : WorkerOK(v)'
  BY OthersOK DEF dbVars
<1>4. WorkerOK(w)'
  <2> SUFFICES ASSUME InAttempt(w)' PROVE (AttemptOK(w) /\ FileOK(w) /\ UploadOK(w))'
    BY DEF WorkerOK
  <2>1. /\ InAttempt(w) /\ worker'[w].job = worker[w].job
        /\ worker'[w].attempt = worker[w].attempt
        /\ dir'[w][worker[w].job] # Null
        /\ worker[w].pc = "fail" => worker'[w].pc = "fail"
        /\ AttemptOK(w)
    BY InAttemptIs
  <2>2. Fenced(w)' <=> Fenced(w)
    BY <2>1 DEF Fenced, dbVars
  <2>3. AttemptOK(w)'
    BY <2>1, <2>2 DEF AttemptOK, InAttempt, dbVars
  <2> QED
    BY <2>3
<1>5. \A j \in Job : JobOK(j)' /\ Published(j)' /\ Described(j)'
  BY SameJobs
<1> QED
  BY <1>1, <1>2, <1>3, <1>4, <1>5, PartsNext

LEMMA StartStep == ASSUME IInv, NEW w \in Worker, Start(w) PROVE IInv'
<1>1. /\ worker' = [worker EXCEPT ![w] = Idle] /\ ~InAttempt(w)
      /\ UNCHANGED <<dbVars, objectVars, dir, historyVars>>
  BY DEF Start, InAttempt
<1>2. /\ worker' \in [Worker -> WorkerState] /\ worker'[w] = Idle
      /\ \A v \in Worker \ {w} : worker'[v] = worker[v]
  BY <1>1, WorkerConstants, SetState, Parts
<1>3. \A j \in Job : dir[w][j] # Null => <<w, j>> \in orphaned
  BY <1>1, Parts DEF DirectoriesAccounted
<1> QED
  BY <1>1, <1>2, <1>3, WorkerConstants, LocalMove, Parts DEF TypeOK, historyVars, InAttempt

LEMMA CrashStep == ASSUME IInv, NEW w \in Worker, Crash(w) PROVE IInv'
<1> DEFINE left == {<<w, j>> : j \in {k \in Job : dir[w][k] # Null}}
<1>1. /\ worker' = [worker EXCEPT ![w] = Down]
      /\ orphaned' = orphaned \cup left
      /\ faults < MaxFaults /\ faults' = faults + 1
      /\ UNCHANGED <<dbVars, objectVars, dir, revoked>>
  BY DEF Crash, Fault
<1>2. /\ worker' \in [Worker -> WorkerState] /\ worker'[w] = Down
      /\ \A v \in Worker \ {w} : worker'[v] = worker[v]
  BY <1>1, WorkerConstants, SetState, Parts
<1>3. /\ orphaned \subseteq orphaned' /\ orphaned' \subseteq (Worker \X Job)
      /\ \A j \in Job : dir[w][j] # Null => <<w, j>> \in orphaned'
  BY <1>1, Parts DEF TypeOK
<1>4. faults' \in 0..MaxFaults
  BY <1>1, Parts DEF TypeOK
<1> QED
  BY <1>1, <1>2, <1>3, <1>4, WorkerConstants, LocalMove, Parts DEF TypeOK, InAttempt

(* An await of processVideoMp4() that ends well or in the catch block.     *)
LEMMA AwaitEnds ==
    ASSUME IInv, NEW w \in Worker, InAttempt(w), worker[w].pc # "fail",
           NEW pc \in PC \ {"down", "idle"}, GoTo(w, pc),
           UNCHANGED <<dbVars, objectVars, historyVars>>,
           NEW d \in Dir, dir' = [dir EXCEPT ![w][worker[w].job] = d],
           pc \in {"validate", "upload"} =>
              /\ d.output # Null /\ d.output.by = worker[w].attempt
              /\ pc = "upload" => d.output.kind = "h264",
           pc \in {"frame", "thumbnail", "complete"} => worker[w].pc \in {"frame", "thumbnail"}
    PROVE  IInv'
<1> DEFINE j == worker[w].job
<1>1. TypeOK /\ j \in Job /\ UploadOK(w) /\ DirectoriesAccounted
  BY InAttemptIs, Parts
<1>2. /\ worker' \in [Worker -> WorkerState]
      /\ \A v \in Worker \ {w} : worker'[v] = worker[v]
      /\ worker'[w].pc = pc
      /\ worker'[w].job = j /\ worker'[w].attempt = worker[w].attempt
      /\ worker'[w].uploaded = worker[w].uploaded /\ worker'[w].thumb = worker[w].thumb
  BY <1>1, GoToState
<1>3. d # Null
  OBVIOUS
<1>4. /\ dir' \in [Worker -> [Job -> Dir \cup {Null}]] /\ dir'[w][j] = d
      /\ \A k \in Job \ {j} : dir'[w][k] = dir[w][k]
      /\ \A v \in Worker \ {w} : dir'[v] = dir[v]
  BY <1>1, SetDir
<1>5. InAttempt(w)'
  BY <1>2 DEF InAttempt
<1>6. FileOK(w)'
  BY <1>2, <1>4 DEF FileOK
<1>7. UploadOK(w)'
  <2>1. Fenced(w)' <=> Fenced(w)
    BY <1>2 DEF Fenced, dbVars
  <2> QED
    BY <1>1, <1>2, <2>1 DEF UploadOK, objectVars, historyVars
<1>8. \A k \in Job : dir'[w][k] # Null =>
         (InAttempt(w)' /\ worker'[w].job = k) \/ <<w, k>> \in orphaned'
  BY <1>1, <1>2, <1>4, <1>5 DEF DirectoriesAccounted, historyVars
<1>9. /\ faults' \in 0..MaxFaults /\ orphaned' = orphaned /\ orphaned \subseteq (Worker \X Job)
      /\ revoked' = revoked
  BY <1>1 DEF TypeOK, historyVars
<1> QED
  BY <1>2, <1>3, <1>4, <1>5, <1>6, <1>7, <1>8, <1>9, LocalMove

LEMMA DirAsIs ==
    ASSUME TypeOK, NEW w \in Worker, NEW j \in Job, dir' = dir
    PROVE  dir' = [dir EXCEPT ![w][j] = dir[w][j]]
<1>1. dir \in [Worker -> [Job -> Dir \cup {Null}]]
  BY DEF TypeOK
<1>2. [dir[w] EXCEPT ![j] = dir[w][j]] = dir[w]
  BY <1>1
<1> QED
  BY <1>1, <1>2

LEMMA FetchStep == ASSUME IInv, NEW w \in Worker, fetchSourceInfo(w) PROVE IInv'
<1>1. InAttempt(w) /\ worker[w].pc = "fetch"
  BY DEF fetchSourceInfo, InAttempt
<1>2. dir' = [dir EXCEPT ![w][worker[w].job] = dir[w][worker[w].job]]
  BY <1>1, InAttemptIs, DirAsIs, Parts DEF fetchSourceInfo
<1>3. PICK pc \in {"download", "fail"} : GoTo(w, pc)
  BY DEF fetchSourceInfo
<1>4. dir[w][worker[w].job] \in Dir
  BY <1>1, InAttemptIs
<1> QED
  BY <1>1, <1>2, <1>3, <1>4, AwaitEnds DEF fetchSourceInfo, PC

LEMMA DownloadStep == ASSUME IInv, NEW w \in Worker, downloadSource(w) PROVE IInv'
<1>1. InAttempt(w) /\ worker[w].pc = "download"
  BY DEF downloadSource, InAttempt
<1>2. PICK pc \in {"encode", "fail"}, some \in {TRUE, dir[w][worker[w].job].source} :
         /\ GoTo(w, pc) /\ dir' = [dir EXCEPT ![w][worker[w].job].source = some]
  BY DEF downloadSource
<1> DEFINE d == [dir[w][worker[w].job] EXCEPT !.source = some]
<1>3. d \in Dir
  BY <1>1, InAttemptIs DEF Dir
<1>4. dir' = [dir EXCEPT ![w][worker[w].job] = d]
  BY <1>2
<1> HIDE DEF d
<1> QED
  BY <1>1, <1>2, <1>3, <1>4, AwaitEnds DEF downloadSource, PC

LEMMA EncodeStep == ASSUME IInv, NEW w \in Worker, runFfmpeg(w) PROVE IInv'
<1> DEFINE j == worker[w].job
<1>1. /\ InAttempt(w) /\ worker[w].pc = "encode" /\ dir[w][j] \in Dir
      /\ worker[w].attempt \in Nat
  BY InAttemptIs DEF runFfmpeg, InAttempt
<1>2. \A kind \in {"h264", "other"} : Output(w, kind) \in File
  BY <1>1 DEF Output, File
<1>3. PICK pc \in {"validate", "fail"}, file \in File \cup {Null} :
         /\ GoTo(w, pc) /\ dir' = [dir EXCEPT ![w][j].output = file]
         /\ pc = "validate" => file \in {Output(w, "h264"), Output(w, "other")}
  BY <1>1, <1>2 DEF runFfmpeg, Dir
<1> DEFINE d == [dir[w][j] EXCEPT !.output = file]
<1>4. d \in Dir /\ d.output = file
  BY <1>1 DEF Dir
<1>5. dir' = [dir EXCEPT ![w][j] = d]
  BY <1>3
<1>6. pc = "validate" => d.output # Null /\ d.output.by = worker[w].attempt
  BY <1>2, <1>3, <1>4 DEF Output
<1> HIDE DEF d
<1> QED
  BY <1>1, <1>3, <1>4, <1>5, <1>6, AwaitEnds DEF runFfmpeg, PC

LEMMA ValidateStep == ASSUME IInv, NEW w \in Worker, validateOutput(w) PROVE IInv'
<1>1. InAttempt(w) /\ worker[w].pc = "validate"
  BY DEF validateOutput, InAttempt
<1>2. dir' = [dir EXCEPT ![w][worker[w].job] = dir[w][worker[w].job]]
  BY <1>1, InAttemptIs, DirAsIs, Parts DEF validateOutput
<1>3. FileOK(w)
  BY <1>1, InAttemptIs
<1>4. dir[w][worker[w].job] \in Dir
  BY <1>1, InAttemptIs
<1>5. PICK pc \in {"upload", "fail"} :
         GoTo(w, pc) /\ (pc = "upload" => dir[w][worker[w].job].output.kind = "h264")
  BY DEF validateOutput, ValidFile
<1>6. pc = "upload" => /\ dir[w][worker[w].job].output # Null
                       /\ dir[w][worker[w].job].output.by = worker[w].attempt
  BY <1>1, <1>3 DEF FileOK
<1>7. /\ pc \in PC \ {"down", "idle"} /\ pc \notin {"validate", "frame", "thumbnail", "complete"}
      /\ worker[w].pc # "fail"
  BY <1>1, <1>5 DEF PC
<1>8. UNCHANGED <<dbVars, objectVars, historyVars>> /\ GoTo(w, pc)
  BY <1>5 DEF validateOutput
<1> QED
  BY <1>1, <1>2, <1>4, <1>5, <1>6, <1>7, <1>8, AwaitEnds

LEMMA FrameStep == ASSUME IInv, NEW w \in Worker, extractFirstFrame(w) PROVE IInv'
<1> DEFINE j == worker[w].job
<1>1. InAttempt(w) /\ worker[w].pc = "frame" /\ dir[w][j] \in Dir /\ j \in Job
  BY InAttemptIs DEF extractFirstFrame, InAttempt
<1>2. PICK pc \in {"thumbnail", "complete"}, d \in Dir :
         GoTo(w, pc) /\ dir' = [dir EXCEPT ![w][j] = d]
  <2>1. CASE GoTo(w, "complete") /\ UNCHANGED dir
    <3>1. dir' = [dir EXCEPT ![w][j] = dir[w][j]]
      BY <1>1, <2>1, DirAsIs, Parts
    <3> QED
      BY <1>1, <2>1, <3>1
  <2>2. CASE GoTo(w, "thumbnail") /\ dir' = [dir EXCEPT ![w][j].frame = TRUE]
    <3>1. [dir[w][j] EXCEPT !.frame = TRUE] \in Dir
      BY <1>1 DEF Dir
    <3>2. dir' = [dir EXCEPT ![w][j] = [dir[w][j] EXCEPT !.frame = TRUE]]
      BY <2>2
    <3> QED
      BY <2>2, <3>1, <3>2
  <2> QED
    BY <2>1, <2>2 DEF extractFirstFrame
<1>3. UNCHANGED <<dbVars, objectVars, historyVars>>
  BY DEF extractFirstFrame
<1>4. pc \in PC \ {"down", "idle"} /\ pc \notin {"validate", "upload"}
  BY DEF PC
<1> QED
  BY <1>1, <1>2, <1>3, <1>4, AwaitEnds

-----------------------------------------------------------------------------
(* The uploads: they reach the objects of other attempts at the job.       *)

LEMMA ObjectMove ==
    ASSUME IInv, NEW w \in Worker, InAttempt(w), worker[w].pc # "fail",
           UNCHANGED <<dbVars, dir, historyVars>>,
           NEW s \in WorkerState, worker' = [worker EXCEPT ![w] = s],
           s.pc \in {"frame", "complete", "fail"},
           s.job = worker[w].job, s.attempt = worker[w].attempt,
           video' \in [Job -> File \cup {Null}], thumbnail' \in [Job -> Nat \cup {Null}],
           \A k \in Job :
              /\ \/ video'[k] = video[k]
                 \/ /\ k = worker[w].job /\ video'[k] # Null
                    /\ video'[k].by = worker[w].attempt /\ video'[k].kind = "h264"
              /\ thumbnail[k] # Null => thumbnail'[k] # Null,
           UploadOK(w)'
    PROVE  IInv'
<1> DEFINE j == worker[w].job
           n == worker[w].attempt
<1>1. /\ TypeOK /\ j \in Job /\ n \in Nat /\ AttemptOK(w) /\ DirectoriesAccounted
  BY InAttemptIs, Parts
<1>2. /\ worker' \in [Worker -> WorkerState] /\ worker'[w] = s
      /\ \A v \in Worker \ {w} : worker'[v] = worker[v]
  BY <1>1, SetState
<1>3. TypeOK'
  BY <1>1, <1>2 DEF TypeOK, dbVars, historyVars
<1>4. InAttempt(w)'
  BY <1>2 DEF InAttempt
<1>5. DirectoriesAccounted'
  <2>1. \A k \in Job : dir'[w][k] # Null =>
           (InAttempt(w)' /\ worker'[w].job = k) \/ <<w, k>> \in orphaned'
    BY <1>1, <1>2, <1>4 DEF DirectoriesAccounted, historyVars
  <2> QED
    BY <1>2, <2>1, DirsAccounted DEF historyVars
<1>6. \/ Fenced(w) \/ n \in revoked[j] \/ row[j].status = "deleted"
  BY <1>1 DEF AttemptOK
<1>7. ASSUME NEW v \in Worker \ {w} PROVE WorkerOK(v)'
  <2>1. CASE ~InAttempt(v)
    BY <1>2, <2>1 DEF WorkerOK, InAttempt
  <2>2. CASE InAttempt(v)
    <3>1. AttemptOK(v) /\ worker'[v] = worker[v] /\ dir'[v] = dir[v]
      BY <1>2, <2>2, InAttemptIs
    <3>2. \A u \in Worker \ {v} : InAttempt(u)' /\ worker'[u].job = worker[v].job
                                     => worker'[u].attempt # worker[v].attempt
      BY <1>2, <3>1 DEF AttemptOK, InAttempt
    <3>3. (Fenced(v)' <=> Fenced(v)) /\ revoked' = revoked
      BY <3>1 DEF Fenced, dbVars, historyVars
    <3>4. /\ worker[v].job \in Job
          /\ video[worker[v].job] # Null => video'[worker[v].job] # Null
          /\ thumbnail[worker[v].job] # Null => thumbnail'[worker[v].job] # Null
      BY <3>1 DEF AttemptOK
    <3>5. Fenced(v) => \/ video'[worker[v].job] = video[worker[v].job]
                       \/ video'[worker[v].job].by \in revoked[worker[v].job]
      <4>1. CASE Fenced(v) /\ worker[v].job = j
        <5>1. row[j].status = "processing" /\ row[j].attempt = worker[v].attempt
          BY <4>1 DEF Fenced
        <5>2. worker[v].attempt # n
          BY <1>1, <2>2, <4>1 DEF AttemptOK
        <5>3. n \in revoked[j]
          BY <1>6, <5>1, <5>2 DEF Fenced
        <5> QED
          BY <1>1, <4>1, <5>3
      <4>2. CASE worker[v].job # j
        BY <3>4, <4>2
      <4> QED
        BY <4>1, <4>2
    <3>6. /\ row'[worker[v].job].status = "deleted" \/ worker[v].attempt <= row'[worker[v].job].attempt
          /\ \/ worker[v].pc = "fail" \/ Fenced(v)' \/ worker[v].attempt \in revoked'[worker[v].job]
             \/ row'[worker[v].job].status = "deleted"
      BY <3>1, <3>3 DEF AttemptOK, dbVars
    <3> QED
      BY <3>1, <3>2, <3>3, <3>4, <3>5, <3>6, Bystander
  <2> QED
    BY <2>1, <2>2
<1>8. WorkerOK(w)'
  <2>1. Fenced(w)' <=> Fenced(w)
    BY <1>2 DEF Fenced, dbVars
  <2>2. AttemptOK(w)'
    BY <1>1, <1>2, <2>1 DEF AttemptOK, InAttempt, dbVars, historyVars
  <2>3. FileOK(w)'
    BY <1>2 DEF FileOK
  <2> QED
    BY <2>2, <2>3 DEF WorkerOK
<1>9. ASSUME NEW k \in Job PROVE JobOK(k)' /\ Published(k)' /\ Described(k)'
  <2>1. /\ JobOK(k) /\ Published(k) /\ Described(k)
        /\ UNCHANGED <<row, variant, thumbnailUrl, revoked>>
    BY Parts DEF dbVars, historyVars
  <2>0. /\ \/ video'[k] = video[k]
           \/ /\ k = j /\ video'[k] # Null /\ video'[k].by = n /\ video'[k].kind = "h264"
        /\ thumbnail[k] # Null => thumbnail'[k] # Null
    OBVIOUS
  <2>2. JobOK(k)' /\ Published(k)'
    BY <2>0, <2>1 DEF JobOK, Published
  <2>3. CASE variant[k] # Null
    <3>1. row[k].status = "completed"
      BY <2>1, <2>3 DEF Described
    <3>2. k = j => n \in revoked[k]
      BY <1>6, <3>1 DEF Fenced
    <3> QED
      BY <2>0, <2>1, <2>2, <2>3, <3>2 DEF Described
  <2>4. CASE variant[k] = Null
    BY <2>1, <2>2, <2>4 DEF Described
  <2> QED
    BY <2>3, <2>4
<1> QED
  BY <1>3, <1>5, <1>7, <1>8, <1>9, PartsNext

LEMMA UploadStep == ASSUME IInv, NEW w \in Worker, uploadVariant(w) PROVE IInv'
<1> DEFINE j == worker[w].job
           output == dir[w][j].output
<1>1. /\ InAttempt(w) /\ worker[w].pc = "upload"
      /\ UNCHANGED <<dbVars, thumbnail, dir, historyVars>>
  BY DEF uploadVariant, InAttempt
<1>2. /\ worker[w] \in WorkerState /\ j \in Job /\ worker[w].attempt \in Nat
      /\ FileOK(w) /\ UploadOK(w)
      /\ video \in [Job -> File \cup {Null}] /\ thumbnail \in [Job -> Nat \cup {Null}]
  BY <1>1, InAttemptIs, Parts DEF TypeOK
<1>3. /\ output \in File /\ output # Null
      /\ output.by = worker[w].attempt /\ output.kind = "h264"
  <2>1. dir[w][j] \in Dir
    BY <1>1, InAttemptIs
  <2> QED
    BY <1>1, <1>2, <2>1 DEF FileOK, Dir
<1> HIDE DEF output
<1>4. PICK s \in WorkerState :
         /\ worker' = [worker EXCEPT ![w] = s]
         /\ s.job = j /\ s.attempt = worker[w].attempt /\ s.thumb = worker[w].thumb
         /\ \/ s.pc = "frame" /\ s.uploaded = output /\ video' = [video EXCEPT ![j] = output]
            \/ s.pc = "fail" /\ video' \in {video, [video EXCEPT ![j] = output]}
  <2>1. CASE /\ video' = [video EXCEPT ![j] = output]
             /\ worker' = [worker EXCEPT ![w].pc = "frame", ![w].uploaded = output]
    <3> DEFINE s == [worker[w] EXCEPT !.pc = "frame", !.uploaded = output]
    <3>1. /\ s \in WorkerState /\ s.pc = "frame" /\ s.uploaded = output
          /\ s.job = j /\ s.attempt = worker[w].attempt /\ s.thumb = worker[w].thumb
      BY <1>2, <1>3 DEF WorkerState
    <3>2. worker' = [worker EXCEPT ![w] = s]
      BY <2>1
    <3> QED
      BY <2>1, <3>1, <3>2
  <2>2. CASE video' \in {video, [video EXCEPT ![j] = output]} /\ GoTo(w, "fail")
    <3> DEFINE s == [worker[w] EXCEPT !.pc = "fail"]
    <3>1. /\ s \in WorkerState /\ s.pc = "fail"
          /\ s.job = j /\ s.attempt = worker[w].attempt /\ s.thumb = worker[w].thumb
      BY <1>2 DEF WorkerState
    <3>2. worker' = [worker EXCEPT ![w] = s]
      BY <2>2 DEF GoTo
    <3> QED
      BY <2>2, <3>1, <3>2
  <2> QED
    BY <2>1, <2>2 DEF uploadVariant, output
<1>5. /\ video' \in [Job -> File \cup {Null}]
      /\ \A k \in Job : video'[k] = video[k] \/ (k = j /\ video'[k] = output)
      /\ s.pc = "frame" => video'[j] = output
  BY <1>2, <1>3, <1>4
<1>6. UploadOK(w)'
  <2>1. worker'[w] = s
    BY <1>4, SetState, Parts
  <2> QED
    BY <1>1, <1>2, <1>3, <1>4, <1>5, <2>1 DEF UploadOK
<1> QED
  BY <1>1, <1>2, <1>3, <1>4, <1>5, <1>6, ObjectMove

LEMMA ThumbnailStep == ASSUME IInv, NEW w \in Worker, uploadThumbnail(w) PROVE IInv'
<1> DEFINE j == worker[w].job
           put == [thumbnail EXCEPT ![j] = worker[w].attempt]
<1>1. /\ InAttempt(w) /\ worker[w].pc = "thumbnail"
      /\ UNCHANGED <<dbVars, video, dir, historyVars>>
  BY DEF uploadThumbnail, InAttempt
<1>2. /\ worker[w] \in WorkerState /\ j \in Job /\ worker[w].attempt \in Nat
      /\ UploadOK(w)
      /\ video \in [Job -> File \cup {Null}] /\ thumbnail \in [Job -> Nat \cup {Null}]
  BY <1>1, InAttemptIs, Parts DEF TypeOK
<1>3. PICK done \in BOOLEAN :
         /\ worker' = [worker EXCEPT ![w].pc = "complete", ![w].thumb = done]
         /\ thumbnail' \in {thumbnail, put} /\ (done => thumbnail' = put)
  BY DEF uploadThumbnail
<1> DEFINE s == [worker[w] EXCEPT !.pc = "complete", !.thumb = done]
<1>4. /\ s \in WorkerState /\ s.pc = "complete" /\ s.thumb = done
      /\ s.job = j /\ s.attempt = worker[w].attempt /\ s.uploaded = worker[w].uploaded
  BY <1>2 DEF WorkerState
<1>5. worker' = [worker EXCEPT ![w] = s]
  BY <1>3
<1>6. /\ thumbnail' \in [Job -> Nat \cup {Null}] /\ (done => thumbnail'[j] # Null)
      /\ \A k \in Job : thumbnail[k] # Null => thumbnail'[k] # Null
  BY <1>2, <1>3
<1> HIDE DEF s
<1>7. UploadOK(w)'
  <2>1. worker'[w] = s
    BY <1>4, <1>5, SetState, Parts
  <2>2. Fenced(w)' <=> Fenced(w)
    BY <1>1, <1>4, <2>1 DEF Fenced, dbVars
  <2> QED
    BY <1>1, <1>2, <1>4, <1>6, <2>1, <2>2 DEF UploadOK, historyVars
<1> QED
  BY <1>1, <1>2, <1>4, <1>5, <1>6, <1>7, ObjectMove

-----------------------------------------------------------------------------
(* The statements: they decide who can pass the fence. *)

LEMMA FailedRowType ==
    ASSUME NEW r \in Row, r.retryCount < MaxRetries
    PROVE  /\ FailedRow(r) \in Row
           /\ FailedRow(r).attempt = r.attempt
           /\ FailedRow(r).status \in {"failed", "dead_letter"}
           /\ FailedRow(r).retryCount = MaxRetries <=> FailedRow(r).status = "dead_letter"
<1> DEFINE status == IF r.retryCount + 1 >= MaxRetries THEN "dead_letter" ELSE "failed"
<1>1. r.retryCount + 1 \in 0..MaxRetries
  BY DEF Row
<1>2. /\ status \in {"failed", "dead_letter"}
      /\ r.retryCount + 1 = MaxRetries <=> status = "dead_letter"
  BY <1>1
<1>3. FailedRow(r) = [r EXCEPT !.retryCount = r.retryCount + 1, !.status = status]
  BY DEF FailedRow
<1> HIDE DEF status
<1> QED
  BY <1>1, <1>2, <1>3 DEF Row

LEMMA ClaimStep == ASSUME IInv, NEW w \in Worker, NEW j \in Job, Claim(w, j) PROVE IInv'
<1> DEFINE n == row[j].attempt + 1
           r == [row[j] EXCEPT !.status = "processing", !.attempt = n]
           s == [Down EXCEPT !.pc = IF j \in Unsupported THEN "fail" ELSE "fetch",
                             !.job = j, !.attempt = n]
           d == IF dir[w][j] = Null THEN EmptyDir ELSE dir[w][j]
<1>1. /\ TypeOK /\ row \in [Job -> Row] /\ row[j] \in Row /\ n \in Nat /\ n > row[j].attempt
      /\ row[j].status \in Claimable /\ ~InAttempt(w)
      /\ UNCHANGED <<variant, thumbnailUrl, objectVars, historyVars>>
  BY Parts DEF TypeOK, Row, Claim, InAttempt
<1>2. row' = [row EXCEPT ![j] = r] /\ worker' = [worker EXCEPT ![w] = s]
      /\ dir' = [dir EXCEPT ![w][j] = d]
  BY DEF Claim, createTempDir
<1>3. /\ r \in Row /\ r.status = "processing" /\ r.attempt = n
      /\ r.retryCount = row[j].retryCount
  BY <1>1 DEF Row
<1>4. /\ s \in WorkerState /\ s.pc \in {"fail", "fetch"} /\ s.job = j /\ s.attempt = n
      /\ s.thumb = FALSE
  BY <1>1, WorkerConstants DEF WorkerState, Down
<1>5. d \in Dir \cup {Null} /\ d # Null
  BY <1>1, WorkerConstants DEF TypeOK
<1> HIDE DEF r, s, d
<1>6. /\ row' \in [Job -> Row] /\ row'[j] = r /\ \A k \in Job \ {j} : row'[k] = row[k]
  BY <1>1, <1>2, <1>3
<1>7. /\ worker' \in [Worker -> WorkerState] /\ worker'[w] = s
      /\ \A v \in Worker \ {w} : worker'[v] = worker[v]
  BY <1>1, <1>2, <1>4, SetState
<1>8. /\ dir' \in [Worker -> [Job -> Dir \cup {Null}]] /\ dir'[w][j] = d
      /\ \A k \in Job \ {j} : dir'[w][k] = dir[w][k]
      /\ \A v \in Worker \ {w} : dir'[v] = dir[v]
  BY <1>1, <1>2, <1>5, SetDir
<1>9. TypeOK'
  BY <1>1, <1>6, <1>7, <1>8 DEF TypeOK, objectVars, historyVars
<1>10. InAttempt(w)' /\ Fenced(w)'
  BY <1>3, <1>4, <1>6, <1>7 DEF InAttempt, Fenced
<1>11. DirectoriesAccounted'
  <2>1. \A k \in Job : dir'[w][k] # Null =>
           (InAttempt(w)' /\ worker'[w].job = k) \/ <<w, k>> \in orphaned'
    BY <1>1, <1>4, <1>7, <1>8, <1>10, Parts DEF DirectoriesAccounted, historyVars
  <2> QED
    BY <1>1, <1>7, <1>8, <2>1, DirsAccounted DEF historyVars
<1>12. ASSUME NEW v \in Worker \ {w}, InAttempt(v), worker[v].job = j
       PROVE  worker[v].attempt < n /\ ~Fenced(v) /\ ~Fenced(v)'
  <2>1. AttemptOK(v) /\ worker[v].attempt \in Nat
    BY <1>12, InAttemptIs
  <2>2. row[j].status # "deleted" /\ row[j].status # "processing" /\ row[j].attempt \in Nat
    BY <1>1 DEF Claimable, Row
  <2>3. worker[v].attempt < n
    BY <1>12, <2>1, <2>2 DEF AttemptOK
  <2>4. ~Fenced(v) /\ ~Fenced(v)'
    BY <1>3, <1>6, <1>7, <1>12, <2>1, <2>2, <2>3 DEF Fenced
  <2> QED
    BY <2>3, <2>4
<1>13. ASSUME NEW v \in Worker \ {w} PROVE WorkerOK(v)'
  <2>1. CASE ~InAttempt(v)
    BY <1>7, <2>1 DEF WorkerOK, InAttempt
  <2>2. CASE InAttempt(v)
    <3>1. /\ AttemptOK(v) /\ worker'[v] = worker[v] /\ dir'[v] = dir[v]
          /\ worker[v].job \in Job /\ worker[v].attempt \in Nat
      BY <1>7, <1>8, <2>2, InAttemptIs
    <3>2. \A u \in Worker \ {v} : InAttempt(u)' /\ worker'[u].job = worker[v].job
                                    => worker'[u].attempt # worker[v].attempt
      BY <1>1, <1>4, <1>7, <1>12, <2>2, <3>1 DEF AttemptOK, InAttempt
    <3>3. CASE worker[v].job = j
      <4>1. worker[v].attempt < n /\ ~Fenced(v) /\ ~Fenced(v)' /\ row[j].status # "deleted"
        BY <1>1, <1>12, <2>2, <3>3 DEF Claimable
      <4>2. row'[j].attempt = n
        BY <1>3, <1>6
      <4> QED
        BY <1>1, <3>1, <3>2, <3>3, <4>1, <4>2, Bystander DEF AttemptOK, objectVars, historyVars
    <3>4. CASE worker[v].job # j
      <4>1. row'[worker[v].job] = row[worker[v].job]
        BY <1>6, <3>1, <3>4
      <4>2. Fenced(v)' <=> Fenced(v)
        BY <3>1, <4>1 DEF Fenced
      <4> QED
        BY <1>1, <3>1, <3>2, <4>1, <4>2, Bystander DEF AttemptOK, objectVars, historyVars
    <3> QED
      BY <3>3, <3>4
  <2> QED
    BY <2>1, <2>2
<1>14. WorkerOK(w)'
  <2>1. AttemptOK(w)'
    <3>1. \A v \in Worker \ {w} : InAttempt(v)' /\ worker'[v].job = j => worker'[v].attempt # n
      <4> SUFFICES ASSUME NEW v \in Worker \ {w}, InAttempt(v)', worker'[v].job = j
                   PROVE  worker'[v].attempt # n
        OBVIOUS
      <4>1. InAttempt(v) /\ worker'[v] = worker[v]
        BY <1>7 DEF InAttempt
      <4>2. worker[v].attempt < n /\ worker[v].attempt \in Nat
        BY <1>12, <4>1, InAttemptIs
      <4> QED
        BY <1>1, <4>1, <4>2
    <3> QED
      BY <1>1, <1>3, <1>4, <1>5, <1>6, <1>7, <1>8, <1>10, <3>1 DEF AttemptOK
  <2>2. FileOK(w)' /\ UploadOK(w)'
    BY <1>4, <1>7 DEF FileOK, UploadOK
  <2> QED
    BY <2>1, <2>2 DEF WorkerOK
<1>15. ASSUME NEW k \in Job PROVE JobOK(k)' /\ Published(k)' /\ Described(k)'
  <2>1. /\ JobOK(k) /\ Published(k) /\ Described(k)
        /\ UNCHANGED <<variant, thumbnailUrl, video, thumbnail, revoked>>
    BY <1>1, Parts DEF objectVars, historyVars
  <2>2. CASE k # j
    BY <1>6, <2>1, <2>2 DEF JobOK, Published, Described
  <2>3. CASE k = j
    <3>1. variant[j] = Null /\ row[j].status # "dead_letter"
      BY <1>1, <2>1, <2>3 DEF Described, Claimable
    <3> QED
      BY <1>3, <1>6, <2>1, <2>3, <3>1 DEF JobOK, Published, Described
  <2> QED
    BY <2>2, <2>3
<1> QED
  BY <1>9, <1>11, <1>13, <1>14, <1>15, PartsNext

(* A row changes under attempts that stay where they are. *)
LEMMA RowMove ==
    ASSUME IInv, NEW j \in Job, NEW r \in Row, row' = [row EXCEPT ![j] = r],
           UNCHANGED <<objectVars, dir, worker, orphaned>>, faults' \in 0..MaxFaults,
           r.status # "processing",
           r.status # "deleted" => r.attempt = row[j].attempt /\ row[j].status # "deleted",
           revoked' \in [Job -> SUBSET Nat], revoked[j] \subseteq revoked'[j],
           \A k \in Job \ {j} : revoked'[k] = revoked[k],
           \A v \in Worker : InAttempt(v) /\ worker[v].job = j /\ Fenced(v) =>
              r.status = "deleted" \/ worker[v].attempt \in revoked'[j],
           variant' \in [Job -> File \cup {Null}], thumbnailUrl' \in [Job -> BOOLEAN],
           \A k \in Job : JobOK(k)' /\ Published(k)' /\ Described(k)'
    PROVE  IInv'
<1>1. TypeOK /\ row \in [Job -> Row]
  BY Parts DEF TypeOK
<1>2. row' \in [Job -> Row] /\ row'[j] = r /\ \A k \in Job \ {j} : row'[k] = row[k]
  BY <1>1
<1>3. TypeOK'
  BY <1>1, <1>2 DEF TypeOK, objectVars
<1>4. DirectoriesAccounted'
  BY Parts DEF DirectoriesAccounted, InAttempt
<1>5. ASSUME NEW v \in Worker PROVE WorkerOK(v)'
  <2>1. CASE ~InAttempt(v)
    BY <2>1 DEF WorkerOK, InAttempt
  <2>2. CASE InAttempt(v)
    <3>1. AttemptOK(v) /\ worker[v].job \in Job
      BY <2>2, InAttemptIs
    <3>2. \A u \in Worker \ {v} : InAttempt(u)' /\ worker'[u].job = worker[v].job
                                    => worker'[u].attempt # worker[v].attempt
      BY <3>1 DEF AttemptOK, InAttempt
    <3>3. CASE worker[v].job = j
      <4>1. ~Fenced(v)'
        BY <1>2, <3>3 DEF Fenced
      <4>2. /\ row'[j].status = "deleted" \/ worker[v].attempt <= row'[j].attempt
            /\ \/ worker[v].pc = "fail" \/ worker[v].attempt \in revoked'[j]
               \/ row'[j].status = "deleted"
        BY <1>2, <2>2, <3>1, <3>3 DEF AttemptOK
      <4> QED
        BY <3>1, <3>2, <3>3, <4>1, <4>2, Bystander DEF objectVars
    <3>4. CASE worker[v].job # j
      <4>1. /\ row'[worker[v].job] = row[worker[v].job]
            /\ revoked'[worker[v].job] = revoked[worker[v].job]
        BY <1>2, <3>1, <3>4
      <4>2. Fenced(v)' <=> Fenced(v)
        BY <3>1, <4>1 DEF Fenced
      <4> QED
        BY <3>1, <3>2, <4>1, <4>2, Bystander DEF AttemptOK, objectVars
    <3> QED
      BY <3>3, <3>4
  <2> QED
    BY <2>1, <2>2
<1> QED
  BY <1>3, <1>4, <1>5, PartsNext

LEMMA RequeueStep == ASSUME IInv, NEW j \in Job, Requeue(j) PROVE IInv'
<1> DEFINE r == [row[j] EXCEPT !.status = "queued"]
           live == {w \in Worker : InAttempt(w) /\ worker[w].job = j /\ Fenced(w)}
<1>1. /\ TypeOK /\ row \in [Job -> Row] /\ row[j] \in Row /\ row[j].status = "processing"
      /\ row' = [row EXCEPT ![j] = r]
      /\ UNCHANGED <<variant, thumbnailUrl, objectVars, dir, worker, orphaned>>
  BY Parts DEF TypeOK, Requeue
<1>2. /\ r \in Row /\ r.status = "queued" /\ r.attempt = row[j].attempt
      /\ r.retryCount = row[j].retryCount
  BY <1>1 DEF Row
<1>3. \/ live = {} /\ UNCHANGED <<revoked, faults>>
      \/ Fault /\ revoked' = [revoked EXCEPT ![j] = revoked[j] \cup {row[j].attempt}]
  BY DEF Requeue
<1>4. /\ faults' \in 0..MaxFaults /\ revoked' \in [Job -> SUBSET Nat]
      /\ revoked[j] \subseteq revoked'[j]
      /\ \A k \in Job \ {j} : revoked'[k] = revoked[k]
      /\ live = {} \/ row[j].attempt \in revoked'[j]
  <2>1. revoked \in [Job -> SUBSET Nat] /\ row[j].attempt \in Nat /\ faults \in 0..MaxFaults
    BY <1>1 DEF TypeOK, Row
  <2>2. CASE live = {} /\ UNCHANGED <<revoked, faults>>
    BY <2>1, <2>2
  <2>3. CASE Fault /\ revoked' = [revoked EXCEPT ![j] = revoked[j] \cup {row[j].attempt}]
    BY <2>1, <2>3 DEF Fault
  <2> QED
    BY <1>3, <2>2, <2>3
<1>5. \A v \in Worker : InAttempt(v) /\ worker[v].job = j /\ Fenced(v) =>
         worker[v].attempt \in revoked'[j]
  BY <1>4 DEF Fenced
<1> HIDE DEF r
<1>6. row'[j] = r /\ \A k \in Job \ {j} : row'[k] = row[k]
  BY <1>1
<1>7. ASSUME NEW k \in Job PROVE JobOK(k)' /\ Published(k)' /\ Described(k)'
  <2>1. /\ JobOK(k) /\ Published(k) /\ Described(k)
        /\ UNCHANGED <<variant, thumbnailUrl, video, thumbnail>>
    BY <1>1, Parts DEF objectVars
  <2>2. CASE k # j
    BY <1>4, <1>6, <2>1, <2>2 DEF JobOK, Published, Described
  <2>3. CASE k = j
    <3>1. variant[j] = Null
      BY <1>1, <2>1, <2>3 DEF Described
    <3> QED
      BY <1>1, <1>2, <1>6, <2>1, <2>3, <3>1 DEF JobOK, Published, Described
  <2> QED
    BY <2>2, <2>3
<1>8. variant' \in [Job -> File \cup {Null}] /\ thumbnailUrl' \in [Job -> BOOLEAN]
  BY <1>1 DEF TypeOK
<1>9. r.status # "processing" /\ r.attempt = row[j].attempt /\ row[j].status # "deleted"
  BY <1>1, <1>2
<1> QED
  BY <1>1, <1>2, <1>4, <1>5, <1>7, <1>8, <1>9, RowMove

LEMMA DeleteStep == ASSUME IInv, NEW j \in Job, DeleteMedia(j) PROVE IInv'
<1> DEFINE r == [status |-> "deleted", retryCount |-> 0, attempt |-> 0]
<1>1. /\ TypeOK /\ row \in [Job -> Row] /\ Fault
      /\ row' = [row EXCEPT ![j] = r]
      /\ variant' = [variant EXCEPT ![j] = Null]
      /\ thumbnailUrl' = [thumbnailUrl EXCEPT ![j] = FALSE]
      /\ UNCHANGED <<objectVars, dir, worker, revoked, orphaned>>
  BY Parts DEF TypeOK, DeleteMedia
<1>2. r \in Row /\ r.status = "deleted" /\ r.retryCount # MaxRetries
  BY DEF Row
<1> HIDE DEF r
<1>3. /\ faults' \in 0..MaxFaults /\ revoked' \in [Job -> SUBSET Nat]
      /\ variant' \in [Job -> File \cup {Null}] /\ thumbnailUrl' \in [Job -> BOOLEAN]
      /\ row'[j] = r /\ variant'[j] = Null /\ thumbnailUrl'[j] = FALSE
      /\ \A k \in Job \ {j} : /\ row'[k] = row[k] /\ variant'[k] = variant[k]
                              /\ thumbnailUrl'[k] = thumbnailUrl[k]
  BY <1>1 DEF TypeOK, Fault
<1>4. ASSUME NEW k \in Job PROVE JobOK(k)' /\ Published(k)' /\ Described(k)'
  <2>1. /\ JobOK(k) /\ Published(k) /\ Described(k)
        /\ UNCHANGED <<video, thumbnail, revoked>>
    BY <1>1, Parts DEF objectVars
  <2>2. CASE k # j
    BY <1>3, <2>1, <2>2 DEF JobOK, Published, Described
  <2>3. CASE k = j
    BY <1>2, <1>3, <2>1, <2>3 DEF JobOK, Published, Described
  <2> QED
    BY <2>2, <2>3
<1>5. r.status # "processing" /\ revoked[j] \subseteq revoked'[j]
      /\ \A k \in Job \ {j} : revoked'[k] = revoked[k]
  BY <1>1, <1>2
<1> QED
  BY <1>1, <1>2, <1>3, <1>4, <1>5, RowMove

(* complete() or fail(), whatever it wrote, and what comes after it. *)
LEMMA EndMove ==
    ASSUME IInv, NEW w \in Worker, InAttempt(w), UNCHANGED <<objectVars, revoked>>,
           faults' \in 0..MaxFaults,
           \/ row' = row
           \/ /\ Fenced(w)
              /\ \E r \in Row : /\ row' = [row EXCEPT ![worker[w].job] = r]
                              /\ r.status \notin {"processing", "deleted"}
                              /\ r.attempt = row[worker[w].job].attempt,
           \/ GoTo(w, "fail") /\ UNCHANGED <<dir, orphaned>>
           \/ \E s \in {Idle, Down} : Finally(w, s),
           variant' \in [Job -> File \cup {Null}], thumbnailUrl' \in [Job -> BOOLEAN],
           \A k \in Job : JobOK(k)' /\ Published(k)' /\ Described(k)'
    PROVE  IInv'
<1> DEFINE j == worker[w].job
           n == worker[w].attempt
<1>1. /\ TypeOK /\ row \in [Job -> Row] /\ j \in Job /\ n \in Nat
      /\ AttemptOK(w) /\ UploadOK(w) /\ DirectoriesAccounted
  BY InAttemptIs, Parts DEF TypeOK
<1>2. /\ row' \in [Job -> Row] /\ \A k \in Job \ {j} : row'[k] = row[k]
      /\ row'[j].attempt = row[j].attempt
      /\ \/ row'[j].status = row[j].status
         \/ Fenced(w) /\ row'[j].status \notin {"processing", "deleted"}
  BY <1>1
<1>3. /\ worker' \in [Worker -> WorkerState]
      /\ \A v \in Worker \ {w} : worker'[v] = worker[v] /\ dir'[v] = dir[v]
      /\ dir' \in [Worker -> [Job -> Dir \cup {Null}]]
      /\ orphaned' \subseteq (Worker \X Job) /\ DirectoriesAccounted'
      /\ \/ ~InAttempt(w)'
         \/ /\ worker'[w].pc = "fail" /\ worker'[w].job = j /\ worker'[w].attempt = n
            /\ worker'[w].thumb = worker[w].thumb /\ dir' = dir
  <2>1. CASE GoTo(w, "fail") /\ UNCHANGED <<dir, orphaned>>
    <3>1. /\ worker' \in [Worker -> WorkerState]
          /\ \A v \in Worker \ {w} : worker'[v] = worker[v]
          /\ worker'[w].pc = "fail" /\ worker'[w].job = j /\ worker'[w].attempt = n
          /\ worker'[w].thumb = worker[w].thumb
      BY <1>1, <2>1, GoToState DEF PC
    <3>2. \A k \in Job : dir'[w][k] # Null =>
             (InAttempt(w)' /\ worker'[w].job = k) \/ <<w, k>> \in orphaned'
      BY <1>1, <2>1, <3>1 DEF DirectoriesAccounted, InAttempt
    <3>3. DirectoriesAccounted'
      BY <2>1, <3>1, <3>2, DirsAccounted
    <3> QED
      BY <1>1, <2>1, <3>1, <3>3 DEF TypeOK
  <2>2. ASSUME NEW s \in {Idle, Down}, Finally(w, s)
        PROVE  /\ worker' \in [Worker -> WorkerState] /\ ~InAttempt(w)'
               /\ \A v \in Worker \ {w} : worker'[v] = worker[v] /\ dir'[v] = dir[v]
               /\ dir' \in [Worker -> [Job -> Dir \cup {Null}]]
               /\ orphaned' \subseteq (Worker \X Job) /\ DirectoriesAccounted'
    <3>1. /\ worker' \in [Worker -> WorkerState] /\ worker'[w] = s
          /\ \A v \in Worker \ {w} : worker'[v] = worker[v]
      BY <1>1, <2>2, WorkerConstants, SetState DEF Finally
    <3>2. ~InAttempt(w)'
      BY <3>1, WorkerConstants DEF InAttempt
    <3>3. dir' = [dir EXCEPT ![w][j] = Null] /\ orphaned' = orphaned \ {<<w, j>>}
      BY <2>2 DEF Finally, cleanupTempDir
    <3>4. /\ dir' \in [Worker -> [Job -> Dir \cup {Null}]] /\ dir'[w][j] = Null
          /\ \A k \in Job \ {j} : dir'[w][k] = dir[w][k]
          /\ \A v \in Worker \ {w} : dir'[v] = dir[v]
      BY <1>1, <3>3, SetDir
    <3>5. \A k \in Job : dir'[w][k] # Null => <<w, k>> \in orphaned'
      BY <1>1, <3>3, <3>4 DEF DirectoriesAccounted
    <3>6. \A v \in Worker \ {w}, k \in Job : <<v, k>> \in orphaned => <<v, k>> \in orphaned'
      BY <3>3
    <3>7. DirectoriesAccounted'
      BY <3>1, <3>4, <3>5, <3>6, DirsAccounted
    <3>8. orphaned' \subseteq (Worker \X Job)
      BY <1>1, <3>3 DEF TypeOK
    <3> QED
      BY <3>1, <3>2, <3>4, <3>7, <3>8
  <2> QED
    BY <2>1, <2>2
<1>4. TypeOK'
  BY <1>1, <1>2, <1>3 DEF TypeOK, objectVars
<1>5. ASSUME NEW v \in Worker \ {w} PROVE WorkerOK(v)'
  <2>1. CASE ~InAttempt(v)
    BY <1>3, <2>1 DEF WorkerOK, InAttempt
  <2>2. CASE InAttempt(v)
    <3>1. /\ AttemptOK(v) /\ worker'[v] = worker[v] /\ dir'[v] = dir[v]
          /\ worker[v].job \in Job
      BY <1>3, <2>2, InAttemptIs
    <3>2. \A u \in Worker \ {v} : InAttempt(u)' /\ worker'[u].job = worker[v].job
                                    => worker'[u].attempt # worker[v].attempt
      <4> SUFFICES ASSUME NEW u \in Worker \ {v}, InAttempt(u)',
                          worker'[u].job = worker[v].job
                   PROVE  worker'[u].attempt # worker[v].attempt
        OBVIOUS
      <4>1. InAttempt(u) /\ worker'[u].job = worker[u].job /\ worker'[u].attempt = worker[u].attempt
        BY <1>3 DEF InAttempt
      <4> QED
        BY <3>1, <4>1 DEF AttemptOK
    <3>3. (Fenced(v)' <=> Fenced(v)) /\ row'[worker[v].job].attempt = row[worker[v].job].attempt
          /\ (row[worker[v].job].status = "deleted" <=> row'[worker[v].job].status = "deleted")
      <4>1. CASE worker[v].job # j
        <5>1. row'[worker[v].job] = row[worker[v].job]
          BY <1>2, <3>1, <4>1
        <5> QED
          BY <3>1, <5>1 DEF Fenced
      <4>2. CASE worker[v].job = j /\ Fenced(w)
        <5>1. worker[v].attempt # n
          BY <2>2, <1>1, <4>2 DEF AttemptOK
        <5>2. row[j].status = "processing" /\ row[j].attempt = n
          BY <4>2 DEF Fenced
        <5> QED
          BY <1>2, <3>1, <4>2, <5>1, <5>2 DEF Fenced
      <4>3. CASE worker[v].job = j /\ ~Fenced(w)
        BY <1>2, <3>1, <4>3 DEF Fenced
      <4> QED
        BY <4>1, <4>2, <4>3
    <3> QED
      BY <3>1, <3>2, <3>3, Bystander DEF AttemptOK, objectVars
  <2> QED
    BY <2>1, <2>2
<1>6. WorkerOK(w)'
  <2> SUFFICES ASSUME InAttempt(w)' PROVE (AttemptOK(w) /\ FileOK(w) /\ UploadOK(w))'
    BY DEF WorkerOK
  <2>1. /\ worker'[w].pc = "fail" /\ worker'[w].job = j /\ worker'[w].attempt = n
        /\ worker'[w].thumb = worker[w].thumb /\ dir' = dir
    BY <1>3
  <2>2. \A v \in Worker \ {w} : InAttempt(v)' /\ worker'[v].job = j => worker'[v].attempt # n
    BY <1>1, <1>3 DEF AttemptOK, InAttempt
  <2>3. row'[j].status = "deleted" \/ n <= row'[j].attempt
    BY <1>1, <1>2 DEF AttemptOK, Fenced
  <2>4. AttemptOK(w)'
    BY <1>1, <2>1, <2>2, <2>3 DEF AttemptOK
  <2>5. FileOK(w)' /\ UploadOK(w)'
    BY <1>1, <2>1 DEF FileOK, UploadOK, objectVars
  <2> QED
    BY <2>4, <2>5
<1> QED
  BY <1>3, <1>4, <1>5, <1>6, PartsNext

LEMMA CompleteStep == ASSUME IInv, NEW w \in Worker, Complete(w) PROVE IInv'
<1> DEFINE j == worker[w].job
<1>1. /\ InAttempt(w) /\ worker[w].pc = "complete" /\ UNCHANGED <<objectVars, revoked, faults>>
      /\ \/ GoTo(w, "fail") /\ UNCHANGED <<dir, orphaned>>
         \/ \E s \in {Idle, Down} : Finally(w, s)
  BY DEF Complete, InAttempt
<1>2. /\ TypeOK /\ row \in [Job -> Row] /\ j \in Job /\ UploadOK(w) /\ AttemptOK(w)
      /\ worker[w] \in WorkerState /\ faults' \in 0..MaxFaults
  BY <1>1, InAttemptIs, Parts DEF TypeOK
<1>3. CASE UNCHANGED dbVars
  <2>1. \A k \in Job : JobOK(k)' /\ Published(k)' /\ Described(k)'
    BY <1>1, <1>3, SameJobs
  <2> QED
    BY <1>1, <1>2, <1>3, <2>1, EndMove DEF dbVars, TypeOK
<1>4. CASE Completion(w) /\ Fenced(w)
  <2> DEFINE r == [row[j] EXCEPT !.status = "completed"]
             uploaded == worker[w].uploaded
             url == thumbnailUrl[j] \/ worker[w].thumb
  <2>1. /\ row' = [row EXCEPT ![j] = r]
        /\ variant' = [variant EXCEPT ![j] = uploaded]
        /\ thumbnailUrl' = [thumbnailUrl EXCEPT ![j] = url]
    BY <1>4 DEF Completion, Completes
  <2>2. /\ r \in Row /\ r.status = "completed" /\ r.attempt = row[j].attempt
        /\ r.retryCount = row[j].retryCount
        /\ row[j].status = "processing" /\ row[j].attempt = worker[w].attempt
    BY <1>2, <1>4 DEF Row, Fenced
  <2>3. /\ uploaded \in File /\ uploaded # Null /\ uploaded.by = worker[w].attempt
        /\ video[j] # Null
        /\ video[j] = uploaded \/ video[j].by \in revoked[j]
        /\ worker[w].thumb => thumbnail[j] # Null
    BY <1>1, <1>2, <1>4 DEF UploadOK, WorkerState
  <2>4. url \in BOOLEAN
    BY <1>2 DEF WorkerState, TypeOK
  <2> HIDE DEF r, uploaded, url
  <2>5. /\ row'[j] = r /\ variant'[j] = uploaded /\ thumbnailUrl'[j] = url
        /\ variant' \in [Job -> File \cup {Null}] /\ thumbnailUrl' \in [Job -> BOOLEAN]
        /\ \A k \in Job \ {j} : /\ row'[k] = row[k] /\ variant'[k] = variant[k]
                                /\ thumbnailUrl'[k] = thumbnailUrl[k]
    BY <1>2, <2>1, <2>2, <2>3, <2>4 DEF TypeOK
  <2>6. ASSUME NEW k \in Job PROVE JobOK(k)' /\ Published(k)' /\ Described(k)'
    <3>1. /\ JobOK(k) /\ Published(k) /\ Described(k)
          /\ UNCHANGED <<video, thumbnail, revoked>>
      BY <1>1, Parts DEF objectVars
    <3>2. CASE k # j
      BY <2>5, <3>1, <3>2 DEF JobOK, Published, Described
    <3>3. CASE k = j
      <4>1. JobOK(k)'
        BY <2>2, <2>5, <3>1, <3>3 DEF JobOK
      <4>2. url => thumbnail[j] # Null
        BY <2>3, <3>1, <3>3 DEF Published, url
      <4>3. Published(k)'
        BY <2>2, <2>3, <2>5, <3>1, <3>3, <4>2 DEF JobOK, Published
      <4>4. Described(k)'
        BY <2>2, <2>3, <2>5, <3>1, <3>3 DEF Described
      <4> QED
        BY <4>1, <4>3, <4>4
    <3> QED
      BY <3>2, <3>3
  <2>7. r.status \notin {"processing", "deleted"}
    BY <2>2
  <2> QED
    BY <1>1, <1>2, <1>4, <2>1, <2>2, <2>5, <2>6, <2>7, EndMove
<1> QED
  BY <1>3, <1>4 DEF Complete, Completion, Completes

LEMMA FailStep == ASSUME IInv, NEW w \in Worker, Fail(w) PROVE IInv'
<1> DEFINE j == worker[w].job
           r == FailedRow(row[j])
<1>1. /\ InAttempt(w) /\ UNCHANGED <<variant, thumbnailUrl, objectVars, revoked>>
      /\ \E s \in {Idle, Down} : Finally(w, s)
  BY DEF Fail, InAttempt
<1>2. /\ TypeOK /\ row \in [Job -> Row] /\ j \in Job /\ JobOK(j)
  BY <1>1, InAttemptIs, Parts DEF TypeOK
<1>3. faults' \in 0..MaxFaults
  BY <1>2 DEF Fail, Fault, TypeOK
<1>4. CASE row' = row
  <2>1. \A k \in Job : JobOK(k)' /\ Published(k)' /\ Described(k)'
    BY <1>1, <1>4, SameJobs DEF dbVars
  <2> QED
    BY <1>1, <1>2, <1>3, <1>4, <2>1, EndMove DEF TypeOK
<1>5. CASE Fenced(w) /\ row' = [row EXCEPT ![j] = r]
  <2>1. row[j].status = "processing" /\ row[j] \in Row
    BY <1>2, <1>5 DEF Fenced
  <2>2. row[j].retryCount < MaxRetries
    BY <1>2, <2>1 DEF JobOK, Row
  <2>3. /\ r \in Row /\ r.status \in {"failed", "dead_letter"}
        /\ r.attempt = row[j].attempt
        /\ r.retryCount = MaxRetries <=> r.status = "dead_letter"
    BY <2>1, <2>2, FailedRowType
  <2> HIDE DEF r
  <2>4. row'[j] = r /\ \A k \in Job \ {j} : row'[k] = row[k]
    BY <1>2, <1>5
  <2>5. ASSUME NEW k \in Job PROVE JobOK(k)' /\ Published(k)' /\ Described(k)'
    <3>1. /\ JobOK(k) /\ Published(k) /\ Described(k)
          /\ UNCHANGED <<variant, thumbnailUrl, video, thumbnail, revoked>>
      BY <1>1, Parts DEF objectVars
    <3>2. CASE k # j
      BY <2>4, <3>1, <3>2 DEF JobOK, Published, Described
    <3>3. CASE k = j
      <4>1. variant[j] = Null
        BY <2>1, <3>1, <3>3 DEF Described
      <4> QED
        BY <2>3, <2>4, <3>1, <3>3, <4>1 DEF JobOK, Published, Described
    <3> QED
      BY <3>2, <3>3
  <2>6. r.status \notin {"processing", "deleted"}
    BY <2>3
  <2> QED
    BY <1>1, <1>2, <1>3, <1>5, <2>3, <2>5, <2>6, EndMove DEF TypeOK
<1> QED
  BY <1>4, <1>5 DEF Fail

-----------------------------------------------------------------------------
(* The whole. *)

LEMMA NextInv == ASSUME IInv, [Next]_vars PROVE IInv'
<1>1. CASE UNCHANGED vars
  <2>1. TypeOK' /\ DirectoriesAccounted'
    BY <1>1, Parts DEF vars, dbVars, objectVars, historyVars, TypeOK, DirectoriesAccounted,
                       InAttempt
  <2>2. \A w \in Worker : WorkerOK(w)'
    BY <1>1, Parts DEF vars, dbVars, objectVars, historyVars, WorkerOK, AttemptOK, FileOK,
                       UploadOK, InAttempt, Fenced
  <2>3. \A j \in Job : JobOK(j)' /\ Published(j)' /\ Described(j)'
    BY <1>1, SameJobs DEF vars, historyVars
  <2> QED
    BY <2>1, <2>2, <2>3, PartsNext
<1>2. ASSUME NEW w \in Worker, processVideoMp4(w) PROVE IInv'
  BY <1>2, FetchStep, DownloadStep, EncodeStep, ValidateStep, UploadStep, FrameStep,
     ThumbnailStep
  DEF processVideoMp4
<1>3. ASSUME NEW w \in Worker,
             Start(w) \/ TurnInVain(w) \/ Crash(w) \/ Complete(w) \/ Fail(w)
             \/ \E j \in Job : Claim(w, j)
      PROVE  IInv'
  BY <1>1, <1>3, StartStep, CrashStep, CompleteStep, FailStep, ClaimStep DEF TurnInVain
<1>4. ASSUME NEW j \in Job, Requeue(j) \/ DeleteMedia(j) PROVE IInv'
  BY <1>4, RequeueStep, DeleteStep
<1> QED
  BY <1>1, <1>2, <1>3, <1>4 DEF Next, LoopStep

LEMMA Inductive == Spec => []IInv
<1>1. IInv /\ [Next]_vars => IInv'
  BY NextInv
<1> QED
  BY <1>1, InitInv, PTL DEF Spec

(* Attempts at one job are told apart, each is either inside the fence or  *)
(* known to be revoked, ended or without a row, what it uploads is its own *)
(* validated file, and a directory outlives only a crash (runner.ts,       *)
(* processor.ts, video-mp4.ts).                                            *)
THEOREM Invariance == Spec => []ProcessInv
<1>1. IInv => ProcessInv
  BY DEF IInv
<1> QED
  BY <1>1, Inductive, PTL

(* A completed job has an H.264 object behind it and a thumbnail's URL has *)
(* its object, with any number of attempts at one job at once, any of them *)
(* crashing, failing or going on after their lease (complete() in          *)
(* queue-queries.ts, uploadVariant and uploadThumbnail in video-mp4.ts).   *)
THEOREM PublishedExists == Spec => []PublishedIsThere
<1>1. IInv => PublishedIsThere
  BY DEF IInv
<1> QED
  BY <1>1, Inductive, PTL

(* The variant row describes the object that is there, unless an attempt   *)
(* that had lost its lease alive has uploaded over it; it is never about a *)
(* file of another attempt than the one that completed the job.            *)
THEOREM VariantDescribesObject == Spec => []DescribedUnlessRevoked
<1>1. IInv => DescribedUnlessRevoked
  BY DEF IInv
<1> QED
  BY <1>1, Inductive, PTL
-----------------------------------------------------------------------------
(* The refinement of LeasedJobs: who holds a job, and what the abstract    *)
(* queue sees of a state.                                                  *)

Holds(w, j) == InAttempt(w) /\ worker[w].job = j /\ Fenced(w)

Holders(j) == {w \in Worker : Holds(w, j)}

AnyOf(set) == IF set = {} THEN Null ELSE CHOOSE w : w \in set

Leased == INSTANCE LeasedJobs
    WITH status <- [j \in Job |-> row[j].status],
         tries <- [j \in Job |-> row[j].retryCount],
         holder <- [j \in Job |-> AnyOf(Holders(j))]

Queue == <<[j \in Job |-> row[j].status], [j \in Job |-> row[j].retryCount],
           [j \in Job |-> AnyOf(Holders(j))]>>

LEMMA AnyOfOne == AnyOf({}) = Null /\ \A w : AnyOf({w}) = w
  BY DEF AnyOf

(* The numbers of the attempts make the fence exclusive. *)
LEMMA OneHolder ==
    ASSUME IInv, NEW w \in Worker, NEW j \in Job, Holds(w, j)
    PROVE  Holders(j) = {w}
<1>1. AttemptOK(w) /\ worker[w].job = j /\ row[j].attempt = worker[w].attempt
  BY InAttemptIs DEF Holds, Fenced
<1>2. \A v \in Worker \ {w} : ~Holds(v, j)
  BY <1>1 DEF AttemptOK, Holds, Fenced
<1> QED
  BY <1>2 DEF Holders

LEMMA SameHolders ==
    ASSUME NEW j \in Job, \A w \in Worker : Holds(w, j)' <=> Holds(w, j)
    PROVE  AnyOf(Holders(j))' = AnyOf(Holders(j))
<1>1. Holders(j)' = Holders(j)
  BY DEF Holders
<1> QED
  BY <1>1 DEF AnyOf

LEMMA Stutter ==
    ASSUME \A j \in Job : /\ row'[j].status = row[j].status
                          /\ row'[j].retryCount = row[j].retryCount
                          /\ \A w \in Worker : Holds(w, j)' <=> Holds(w, j)
    PROVE  UNCHANGED Queue
<1>1. \A j \in Job : AnyOf(Holders(j))' = AnyOf(Holders(j))
  BY SameHolders
<1> QED
  BY <1>1 DEF Queue

(* One process moves on inside its attempt, or outside of any. *)
LEMMA QuietMove ==
    ASSUME row' = row, NEW w \in Worker,
           \A v \in Worker \ {w} : worker'[v] = worker[v],
           \/ ~InAttempt(w) /\ ~InAttempt(w)'
           \/ /\ InAttempt(w) /\ InAttempt(w)'
              /\ worker'[w].job = worker[w].job /\ worker'[w].attempt = worker[w].attempt
    PROVE  UNCHANGED Queue
<1>1. \A v \in Worker, j \in Job : Holds(v, j)' <=> Holds(v, j)
  <2> SUFFICES ASSUME NEW v \in Worker, NEW j \in Job PROVE Holds(v, j)' <=> Holds(v, j)
    OBVIOUS
  <2>1. CASE v # w
    BY <2>1 DEF Holds, InAttempt, Fenced
  <2>2. CASE v = w
    BY <2>2 DEF Holds, Fenced
  <2> QED
    BY <2>1, <2>2
<1> QED
  BY <1>1, Stutter

(* A process leaves its attempt without a word about the row. *)
LEMMA LeaveStep ==
    ASSUME IInv, row' = row, NEW w \in Worker, ~InAttempt(w)',
           \A v \in Worker \ {w} : worker'[v] = worker[v]
    PROVE  UNCHANGED Queue \/ \E j \in Job : Leased!Abandon(j)
<1>1. \A v \in Worker \ {w}, j \in Job : Holds(v, j)' <=> Holds(v, j)
  BY DEF Holds, InAttempt, Fenced
<1>2. \A j \in Job : ~Holds(w, j)'
  BY DEF Holds
<1>3. CASE \A j \in Job : ~Holds(w, j)
  BY <1>1, <1>2, <1>3, Stutter
<1>4. CASE \E j \in Job : Holds(w, j)
  <2>1. PICK j \in Job : Holds(w, j)
    BY <1>4
  <2>2. Holders(j) = {w}
    BY <2>1, OneHolder
  <2>3. Holders(j)' = {}
    BY <1>1, <1>2, <2>2 DEF Holders
  <2>4. \A k \in Job \ {j} : ~Holds(w, k)
    BY <2>1 DEF Holds
  <2>5. \A k \in Job \ {j} : AnyOf(Holders(k))' = AnyOf(Holders(k))
    BY <1>1, <1>2, <2>4, SameHolders
  <2>6. AnyOf(Holders(j)) # Null /\ AnyOf(Holders(j))' = Null
    BY <2>2, <2>3, AnyOfOne
  <2> QED
    BY <2>5, <2>6 DEF Leased!Abandon
<1> QED
  BY <1>3, <1>4

(* The claim of a job: nobody holds it before, and only w does after. *)
LEMMA TakeStep ==
    ASSUME IInv, NEW w \in Worker, NEW j \in Job, Claim(w, j)
    PROVE  Leased!Take(w, j)
<1>1. /\ TypeOK /\ row \in [Job -> Row] /\ row[j].attempt \in Nat
      /\ row[j].status \in {"queued", "failed"} /\ ~InAttempt(w)
  BY Parts DEF TypeOK, Row, Claim, InAttempt, Claimable
<1>2. /\ row'[j].status = "processing" /\ row'[j].retryCount = row[j].retryCount
      /\ row'[j].attempt = row[j].attempt + 1
      /\ \A k \in Job \ {j} : row'[k] = row[k]
  BY <1>1 DEF Claim, Row
<1>3. \A v \in Worker \ {w} : worker'[v] = worker[v]
  BY <1>1 DEF Claim, TypeOK
<1>4. InAttempt(w)' /\ worker'[w].job = j
  BY <1>1 DEF Claim, TypeOK, InAttempt, Down
<1>5. worker'[w].attempt = row[j].attempt + 1
  BY <1>1 DEF Claim, TypeOK, Down
<1>6. Holders(j)' = {w}
  <2>1. Holds(w, j)'
    BY <1>2, <1>4, <1>5 DEF Holds, Fenced
  <2>2. ASSUME NEW v \in Worker \ {w}, Holds(v, j)' PROVE FALSE
    <3>1. InAttempt(v) /\ worker[v].job = j /\ worker[v].attempt = row[j].attempt + 1
      BY <1>2, <1>3, <2>2 DEF Holds, InAttempt, Fenced
    <3>2. AttemptOK(v) /\ worker[v].attempt \in Nat
      BY <3>1, InAttemptIs
    <3>3. row[j].status = "deleted" \/ worker[v].attempt <= row[j].attempt
      BY <3>1, <3>2 DEF AttemptOK
    <3> QED
      BY <1>1, <3>1, <3>2, <3>3
  <2> QED
    BY <2>1, <2>2 DEF Holders
<1>7. \A k \in Job \ {j}, v \in Worker : Holds(v, k)' <=> Holds(v, k)
  <2> SUFFICES ASSUME NEW k \in Job \ {j}, NEW v \in Worker PROVE Holds(v, k)' <=> Holds(v, k)
    OBVIOUS
  <2>1. CASE v # w
    BY <1>2, <1>3, <2>1 DEF Holds, InAttempt, Fenced
  <2>2. CASE v = w
    BY <1>1, <1>4, <2>2 DEF Holds
  <2> QED
    BY <2>1, <2>2
<1>8. \A k \in Job \ {j} : AnyOf(Holders(k))' = AnyOf(Holders(k))
  BY <1>7, SameHolders
<1>9. AnyOf(Holders(j))' = w
  BY <1>6, AnyOfOne
<1> QED
  BY <1>1, <1>2, <1>8, <1>9 DEF Leased!Take

(* A statement of the attempt that holds the job takes effect. *)
LEMMA EndedByHolder ==
    ASSUME IInv, NEW w \in Worker, InAttempt(w), Fenced(w), NEW j \in Job, worker[w].job = j,
           \A k \in Job \ {j} : row'[k] = row[k], row'[j].status # "processing",
           \A v \in Worker \ {w} : worker'[v] = worker[v],
           ~InAttempt(w)' \/ worker'[w].job = j
    PROVE  /\ AnyOf(Holders(j)) = w /\ AnyOf(Holders(j))' = Null
           /\ \A k \in Job \ {j} : AnyOf(Holders(k))' = AnyOf(Holders(k))
<1>1. Holders(j) = {w}
  BY OneHolder DEF Holds
<1>2. Holders(j)' = {}
  BY DEF Holders, Holds, Fenced
<1>3. \A k \in Job \ {j}, v \in Worker : Holds(v, k)' <=> Holds(v, k)
  <2> SUFFICES ASSUME NEW k \in Job \ {j}, NEW v \in Worker PROVE Holds(v, k)' <=> Holds(v, k)
    OBVIOUS
  <2>1. CASE v # w
    BY <2>1 DEF Holds, InAttempt, Fenced
  <2>2. CASE v = w
    BY <2>2 DEF Holds
  <2> QED
    BY <2>1, <2>2
<1>4. \A k \in Job \ {j} : AnyOf(Holders(k))' = AnyOf(Holders(k))
  BY <1>3, SameHolders
<1> QED
  BY <1>1, <1>2, <1>4, AnyOfOne

LEMMA RevokeStep ==
    ASSUME IInv, NEW j \in Job, Requeue(j)
    PROVE  Leased!Revoke(j)
<1>1. row \in [Job -> Row] /\ row[j].status = "processing" /\ worker' = worker
  BY Parts DEF TypeOK, Requeue
<1>2. /\ row'[j].status = "queued" /\ row'[j].retryCount = row[j].retryCount
      /\ \A k \in Job \ {j} : row'[k] = row[k]
  BY <1>1 DEF Requeue, Row
<1>3. Holders(j)' = {}
  BY <1>2 DEF Holders, Holds, Fenced
<1>4. \A k \in Job \ {j}, v \in Worker : Holds(v, k)' <=> Holds(v, k)
  BY <1>1, <1>2 DEF Holds, InAttempt, Fenced
<1>5. \A k \in Job \ {j} : AnyOf(Holders(k))' = AnyOf(Holders(k))
  BY <1>4, SameHolders
<1>6. AnyOf(Holders(j))' = Null
  BY <1>3, AnyOfOne
<1> QED
  BY <1>1, <1>2, <1>5, <1>6 DEF Leased!Revoke

(* What the finally block and GoTo leave of the processes. *)
LEMMA WorkersAfter ==
    ASSUME IInv, NEW w \in Worker, InAttempt(w)
    PROVE  /\ \A next \in {Idle, Down} : Finally(w, next) =>
                  ~InAttempt(w)' /\ \A v \in Worker \ {w} : worker'[v] = worker[v]
           /\ GoTo(w, "fail") =>
                  /\ InAttempt(w)' /\ worker'[w].job = worker[w].job
                  /\ worker'[w].attempt = worker[w].attempt
                  /\ \A v \in Worker \ {w} : worker'[v] = worker[v]
<1>1. TypeOK
  BY Parts
<1>2. ASSUME NEW next \in {Idle, Down}, Finally(w, next)
      PROVE  ~InAttempt(w)' /\ \A v \in Worker \ {w} : worker'[v] = worker[v]
  <2>1. next \in WorkerState /\ next.pc \in {"down", "idle"}
    BY WorkerConstants
  <2>2. worker'[w] = next /\ \A v \in Worker \ {w} : worker'[v] = worker[v]
    BY <1>1, <1>2, <2>1, SetState DEF Finally
  <2> QED
    BY <2>1, <2>2 DEF InAttempt
<1>3. GoTo(w, "fail") =>
         /\ InAttempt(w)' /\ worker'[w].job = worker[w].job
         /\ worker'[w].attempt = worker[w].attempt
         /\ \A v \in Worker \ {w} : worker'[v] = worker[v]
  BY <1>1, GoToState DEF PC, InAttempt
<1> QED
  BY <1>2, <1>3

LEMMA CompletionStep ==
    ASSUME IInv, NEW w \in Worker, Complete(w)
    PROVE  Leased!Next \/ UNCHANGED Queue
<1>1. InAttempt(w) /\ worker[w].job \in Job /\ row \in [Job -> Row]
  BY InAttemptIs, Parts DEF TypeOK, Complete, InAttempt
<1>2. \/ Finally(w, Idle)
      \/ GoTo(w, "fail")
  BY DEF Complete
<1>3. CASE row' = row
  <2>1. CASE Finally(w, Idle)
    BY <1>1, <1>3, <2>1, WorkersAfter, LeaveStep DEF Leased!Next
  <2>2. CASE GoTo(w, "fail")
    BY <1>1, <1>3, <2>2, WorkersAfter, QuietMove
  <2> QED
    BY <1>2, <2>1, <2>2
<1>4. CASE row' # row
  <2>0. PICK j \in Job : j = worker[w].job
    BY <1>1
  <2>1. Fenced(w) /\ row' = [row EXCEPT ![j].status = "completed"]
    BY <1>4, <2>0 DEF Complete, Completion, Completes, dbVars
  <2>2. /\ row'[j].status = "completed" /\ row'[j].retryCount = row[j].retryCount
        /\ \A k \in Job \ {j} : row'[k] = row[k]
    BY <1>1, <2>1 DEF Row
  <2>3. /\ \A v \in Worker \ {w} : worker'[v] = worker[v]
        /\ ~InAttempt(w)' \/ worker'[w].job = j
    BY <1>1, <1>2, <2>0, WorkersAfter
  <2>4. /\ AnyOf(Holders(j)) = w /\ AnyOf(Holders(j))' = Null
        /\ \A k \in Job \ {j} : AnyOf(Holders(k))' = AnyOf(Holders(k))
    BY <1>1, <2>1, <2>2, <2>3, <2>0, EndedByHolder
  <2>5. Leased!Finish(w, j)
    BY <1>1, <2>0, <2>2, <2>4 DEF Leased!Finish
  <2> QED
    BY <1>1, <2>5 DEF Leased!Next
<1> QED
  BY <1>3, <1>4

LEMMA FailureStep ==
    ASSUME IInv, NEW w \in Worker, Fail(w)
    PROVE  Leased!Next \/ UNCHANGED Queue
<1>1. InAttempt(w) /\ worker[w].job \in Job /\ row \in [Job -> Row]
  BY InAttemptIs, Parts DEF TypeOK, Fail, InAttempt
<1>2. ~InAttempt(w)' /\ \A v \in Worker \ {w} : worker'[v] = worker[v]
  BY <1>1, WorkersAfter DEF Fail
<1>3. CASE row' = row
  BY <1>2, <1>3, LeaveStep DEF Leased!Next
<1>4. CASE row' # row
  <2>0. PICK j \in Job : j = worker[w].job
    BY <1>1
  <2>1. Fenced(w) /\ row' = [row EXCEPT ![j] = FailedRow(row[j])]
    BY <1>4, <2>0 DEF Fail
  <2>2. \A k \in Job \ {j} : row'[k] = row[k]
    BY <1>1, <2>1
  <2>3. row'[j] = FailedRow(row[j])
    BY <1>1, <2>1
  <2>4. row[j].status = "processing" /\ row[j].retryCount < MaxRetries
    BY <1>1, <2>0, <2>1, Parts DEF Fenced, JobOK, Row
  <2>5. /\ row'[j].retryCount = row[j].retryCount + 1
        /\ row'[j].status = IF row[j].retryCount + 1 < MaxRetries
                            THEN "failed" ELSE "dead_letter"
    BY <1>1, <2>3, <2>4 DEF FailedRow, Row
  <2>6. /\ AnyOf(Holders(j)) = w /\ AnyOf(Holders(j))' = Null
        /\ \A k \in Job \ {j} : AnyOf(Holders(k))' = AnyOf(Holders(k))
    BY <1>1, <1>2, <2>1, <2>2, <2>5, <2>0, EndedByHolder
  <2>7. Leased!Fail(w, j)
    BY <1>1, <2>0, <2>2, <2>5, <2>6 DEF Leased!Fail
  <2> QED
    BY <1>1, <2>7 DEF Leased!Next
<1> QED
  BY <1>3, <1>4

(* The awaits of the pipeline change nothing the queue sees. *)
LEMMA AwaitStep ==
    ASSUME IInv, NEW w \in Worker, processVideoMp4(w)
    PROVE  UNCHANGED Queue
<1>1. /\ row' = row /\ TypeOK /\ InAttempt(w) /\ worker[w] \in WorkerState
  BY Parts DEF processVideoMp4, fetchSourceInfo, downloadSource, runFfmpeg, validateOutput,
               uploadVariant, extractFirstFrame, uploadThumbnail, dbVars, TypeOK, InAttempt
<1>2. CASE \E pc \in PC \ {"down", "idle"} : GoTo(w, pc)
  <2>1. PICK pc \in PC \ {"down", "idle"} : GoTo(w, pc)
    BY <1>2
  <2>2. /\ InAttempt(w)' /\ worker'[w].job = worker[w].job
        /\ worker'[w].attempt = worker[w].attempt
        /\ \A v \in Worker \ {w} : worker'[v] = worker[v]
    BY <1>1, <2>1, GoToState DEF InAttempt
  <2> QED
    BY <1>1, <2>2, QuietMove
<1>3. CASE \E f : worker' = [worker EXCEPT ![w].pc = "frame", ![w].uploaded = f]
  <2>1. PICK f : worker' = [worker EXCEPT ![w].pc = "frame", ![w].uploaded = f]
    BY <1>3
  <2>2. /\ worker'[w] = [worker[w] EXCEPT !.pc = "frame", !.uploaded = f]
        /\ \A v \in Worker \ {w} : worker'[v] = worker[v]
    BY <1>1, <2>1 DEF TypeOK
  <2>3. /\ worker'[w].pc = "frame" /\ worker'[w].job = worker[w].job
        /\ worker'[w].attempt = worker[w].attempt
    BY <1>1, <2>2 DEF WorkerState
  <2> QED
    BY <1>1, <2>2, <2>3, QuietMove DEF InAttempt
<1>4. CASE \E done : worker' = [worker EXCEPT ![w].pc = "complete", ![w].thumb = done]
  <2>1. PICK done : worker' = [worker EXCEPT ![w].pc = "complete", ![w].thumb = done]
    BY <1>4
  <2>2. /\ worker'[w] = [worker[w] EXCEPT !.pc = "complete", !.thumb = done]
        /\ \A v \in Worker \ {w} : worker'[v] = worker[v]
    BY <1>1, <2>1 DEF TypeOK
  <2>3. /\ worker'[w].pc = "complete" /\ worker'[w].job = worker[w].job
        /\ worker'[w].attempt = worker[w].attempt
    BY <1>1, <2>2 DEF WorkerState
  <2> QED
    BY <1>1, <2>2, <2>3, QuietMove DEF InAttempt
<1>5. CASE fetchSourceInfo(w) \/ downloadSource(w) \/ runFfmpeg(w) \/ validateOutput(w)
           \/ extractFirstFrame(w)
  BY <1>2, <1>5 DEF fetchSourceInfo, downloadSource, runFfmpeg, validateOutput,
                    extractFirstFrame, PC
<1>6. CASE uploadVariant(w)
  BY <1>2, <1>3, <1>6 DEF uploadVariant, PC
<1>7. CASE uploadThumbnail(w)
  BY <1>4, <1>7 DEF uploadThumbnail
<1> QED
  BY <1>5, <1>6, <1>7 DEF processVideoMp4

LEMMA NextQueue ==
    ASSUME IInv, [Next]_vars
    PROVE  (\E j \in Job : DeleteMedia(j)) \/ Leased!Next \/ UNCHANGED Queue
<1>1. ASSUME NEW w \in Worker, Start(w) PROVE UNCHANGED Queue
  <2>1. row' = row /\ TypeOK /\ ~InAttempt(w)
    BY <1>1, Parts DEF Start, dbVars, InAttempt
  <2>2. worker'[w] = Idle /\ \A v \in Worker \ {w} : worker'[v] = worker[v]
    BY <1>1, <2>1, SetState, WorkerConstants DEF Start
  <2> QED
    BY <2>1, <2>2, QuietMove, WorkerConstants DEF InAttempt
<1>2. ASSUME NEW w \in Worker, Crash(w) PROVE Leased!Next \/ UNCHANGED Queue
  <2>1. row' = row /\ TypeOK
    BY <1>2, Parts DEF Crash, dbVars
  <2>2. worker'[w] = Down /\ \A v \in Worker \ {w} : worker'[v] = worker[v]
    BY <1>2, <2>1, SetState, WorkerConstants DEF Crash
  <2>3. ~InAttempt(w)'
    BY <2>2, WorkerConstants DEF InAttempt
  <2> QED
    BY <2>1, <2>2, <2>3, LeaveStep DEF Leased!Next
<1>3. ASSUME NEW w \in Worker, NEW j \in Job, Claim(w, j) PROVE Leased!Next
  BY <1>3, TakeStep DEF Leased!Next
<1>4. ASSUME NEW j \in Job, Requeue(j) PROVE Leased!Next
  BY <1>4, RevokeStep DEF Leased!Next
<1>5. CASE UNCHANGED vars
  BY <1>5, Stutter DEF vars, dbVars, Holds, InAttempt, Fenced
<1> QED
  BY <1>1, <1>2, <1>3, <1>4, <1>5, CompletionStep, FailureStep, AwaitStep
  DEF Next, LoopStep, TurnInVain

(* Every step of the processes is a step of the abstract queue, or none    *)
(* the queue can see: the awaits of video-mp4.ts, a complete() or a fail() *)
(* that the fence turned away, a restart. A job has one holder at a time   *)
(* and is ended only by it, although an attempt whose job was taken goes   *)
(* on and a complete() may throw after its commit (queue-queries.ts,       *)
(* runner.ts). The one exception is the application's own deletion of a    *)
(* media, which takes the job's row from under everybody.                  *)
THEOREM AttemptsKeepPromises ==
    Spec => [][(\E j \in Job : DeleteMedia(j)) \/ Leased!Next]_(Leased!jobVars)
<1>1. IInv /\ [Next]_vars =>
         [(\E j \in Job : DeleteMedia(j)) \/ Leased!Next]_(Leased!jobVars)
  BY NextQueue DEF Queue, Leased!jobVars
<1> QED
  BY <1>1, Inductive, PTL DEF Spec
=============================================================================

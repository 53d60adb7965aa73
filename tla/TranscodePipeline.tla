-------------------------- MODULE TranscodePipeline --------------------------
(***************************************************************************)
(* What happens inside an attempt at a job: processJob() and the video_mp4 *)
(* pipeline (worker/processor.ts, pipelines/video-mp4.ts), the attempt's   *)
(* temporary directory (temp-manager.ts), the two objects it uploads       *)
(* (r2-client.ts) and the rows complete() then writes about them.          *)
(*                                                                         *)
(* Every await may fail, before or after the call took effect; a process   *)
(* may die at any step and leaves its directory behind, on a volume that   *)
(* outlives it (docker-compose.yml). A job may be taken from an attempt    *)
(* that goes on: then two attempts, on two hosts, upload to the same keys. *)
(* The statements of the queue are atomic here and their fence compares    *)
(* attempt numbers: TranscodeQueue shows that it may.                      *)
(***************************************************************************)
EXTENDS Naturals, FiniteSets

CONSTANTS
    Job,            \* jobs, each with a media row of its own
    Unsupported,    \* the jobs whose type is video_hevc
    Worker,         \* worker processes, each with a host and a volume
    Null,
    MaxRetries,     \* DEFAULT_MAX_RETRIES
    Capacity,       \* directories that fit before MIN_FREE_DISK_GB is reached
    MaxFaults       \* bound: crashes, jobs taken from an attempt that goes
                    \* on and media deleted by the application, together

ASSUME ConstantsAssumption ==
    /\ Unsupported \subseteq Job
    /\ MaxRetries \in Nat \ {0} /\ Capacity \in Nat \ {0}
    /\ MaxFaults \in Nat

VARIABLES
    row,            \* media_transcode_jobs
    variant,        \* media_variants: the file the job's row describes
    thumbnailUrl,   \* asset_media.thumbnailUrl has been set by complete()
    video,          \* the object variants/{mediaId}/video_mp4.mp4
    thumbnail,      \* the object variants/{mediaId}/thumbnail-first-frame.jpg
    dir,            \* dir[w][j]: TEMP_DIR_BASE/{jobId} on the host of w
    worker,         \* the local state of every process
    revoked,        \* history: attempts that lost their job while they ran
    orphaned,       \* history: directories a crash left behind
    faults          \* crashes, lapses and deletions so far

dbVars == <<row, variant, thumbnailUrl>>
objectVars == <<video, thumbnail>>
historyVars == <<revoked, orphaned, faults>>
vars == <<dbVars, objectVars, dir, worker, historyVars>>

-----------------------------------------------------------------------------
(* An encoded file, told apart by the attempt whose ffmpeg wrote it.       *)
(* "other": no video stream, another codec, or cut short.                  *)
File == [by: Nat, kind: {"h264", "other"}]

(* The inputs ffmpeg reads are not told apart: one source per job. *)
Dir == [source: BOOLEAN, output: File \cup {Null}, frame: BOOLEAN]
ASSUME NullAssumption == Null \notin Job \cup Worker \cup Nat \cup File \cup Dir

EmptyDir == [source |-> FALSE, output |-> Null, frame |-> FALSE]

(* "deleted": the row went with its media (ON DELETE CASCADE). *)
Row == [status: {"queued", "processing", "failed", "completed", "dead_letter", "deleted"},
        retryCount: 0..MaxRetries, attempt: Nat]

(* pc is the await an attempt is suspended in; uploaded is the result of   *)
(* uploadVariant() with the measures of validateOutput(), and thumb tells  *)
(* whether thumbnailUpload is set.                                         *)
WorkerState == [pc: {"down", "idle", "fetch", "download", "encode", "validate",
                     "upload", "frame", "thumbnail", "complete", "fail"},
                job: Job \cup {Null}, attempt: Nat,
                uploaded: File \cup {Null}, thumb: BOOLEAN]

Down == [pc |-> "down", job |-> Null, attempt |-> 0, uploaded |-> Null, thumb |-> FALSE]
Idle == [Down EXCEPT !.pc = "idle"]

TypeOK ==
    /\ row \in [Job -> Row]
    /\ variant \in [Job -> File \cup {Null}] /\ video \in [Job -> File \cup {Null}]
    /\ thumbnailUrl \in [Job -> BOOLEAN] /\ thumbnail \in [Job -> Nat \cup {Null}]
    /\ dir \in [Worker -> [Job -> Dir \cup {Null}]]
    /\ worker \in [Worker -> WorkerState]
    /\ revoked \in [Job -> SUBSET Nat] /\ orphaned \subseteq (Worker \X Job)
    /\ faults \in 0..MaxFaults

-----------------------------------------------------------------------------
(* Mutant: a failed job is not tried again. *)
MutClaimable == {"queued"}

Claimable == {"queued", "failed"}

InAttempt(w) == worker[w].pc \notin {"down", "idle"}

(* The attempt of w can still pass the fence of its job. *)
Fenced(w) ==
    LET j == worker[w].job
    IN  row[j].status = "processing" /\ row[j].attempt = worker[w].attempt

(* hasSufficientDisk(): what a directory takes is counted, not measured. *)
hasSufficientDisk(w) == Cardinality({j \in Job : dir[w][j] # Null}) < Capacity

(* createTempDir(): recursive, so an existing directory is kept as it is. *)
createTempDir(w, j) ==
    dir' = [dir EXCEPT ![w][j] = IF @ = Null THEN EmptyDir ELSE @]

(* Mutant: the cleanup is after the await of complete(), not in finally. *)
MutCleanupOnSuccess(w) ==
    IF worker[w].pc = "complete"
    THEN dir' = [dir EXCEPT ![w][worker[w].job] = Null]
    ELSE dir' = dir

cleanupTempDir(w) == dir' = [dir EXCEPT ![w][worker[w].job] = Null]

(* The finally block of the main loop: the directory goes, and with it the *)
(* reason to call it orphaned.                                             *)
Finally(w, next) ==
    /\ cleanupTempDir(w)
    /\ orphaned' = orphaned \ {<<w, worker[w].job>>}
    /\ worker' = [worker EXCEPT ![w] = next]

(* The next await of the attempt, and the catch block. *)
GoTo(w, pc) == worker' = [worker EXCEPT ![w].pc = pc]

(* Of what may go wrong at any time, no more than the bound. *)
Fault == faults < MaxFaults /\ faults' = faults + 1

Init ==
    /\ row = [j \in Job |-> [status |-> "queued", retryCount |-> 0, attempt |-> 0]]
    /\ variant = [j \in Job |-> Null] /\ thumbnailUrl = [j \in Job |-> FALSE]
    /\ video = [j \in Job |-> Null] /\ thumbnail = [j \in Job |-> Null]
    /\ dir = [w \in Worker |-> [j \in Job |-> Null]]
    /\ worker = [w \in Worker |-> Down]
    /\ revoked = [j \in Job |-> {}] /\ orphaned = {}
    /\ faults = 0

-----------------------------------------------------------------------------
(* start() of a process; what a crash left is not looked at. *)
Start(w) ==
    /\ worker[w].pc = "down"
    /\ worker' = [worker EXCEPT ![w] = Idle]
    /\ UNCHANGED <<dbVars, objectVars, dir, historyVars>>

(* One turn of the main loop up to the pipeline: the disk guard, claim(),  *)
(* createTempDir() and the dispatch of processJob() on the job's type.     *)
Claim(w, j) ==
    /\ worker[w].pc = "idle"
    /\ hasSufficientDisk(w)
    /\ row[j].status \in Claimable
    /\ row' = [row EXCEPT ![j].status = "processing", ![j].attempt = @ + 1]
    /\ createTempDir(w, j)
    /\ worker' = [worker EXCEPT ![w] =
                    [Down EXCEPT !.pc = IF j \in Unsupported THEN "fail" ELSE "fetch",
                                 !.job = j, !.attempt = row[j].attempt + 1]]
    /\ UNCHANGED <<variant, thumbnailUrl, objectVars, historyVars>>

(* A turn that claims nothing: the disk guard pauses, or no job is open.   *)
(* The loop sleeps and looks again.                                        *)
TurnInVain(w) ==
    /\ worker[w].pc = "idle"
    /\ ~hasSufficientDisk(w) \/ \A j \in Job : row[j].status \notin Claimable
    /\ UNCHANGED vars

(* The lease runs out and requeueStale() puts the job back: nobody extends *)
(* it any more, or the heartbeats of a live attempt did not get through.   *)
Requeue(j) ==
    LET live == {w \in Worker : InAttempt(w) /\ worker[w].job = j /\ Fenced(w)}
    IN  /\ row[j].status = "processing"
        /\ row' = [row EXCEPT ![j].status = "queued"]
        /\ \/ live = {} /\ UNCHANGED <<revoked, faults>>
           \/ /\ live # {}
              /\ Fault
              /\ revoked' = [revoked EXCEPT ![j] = @ \cup {row[j].attempt}]
        /\ UNCHANGED <<variant, thumbnailUrl, objectVars, dir, worker, orphaned>>

(* The web application deletes the media; the rows of the job and of the *)
(* variant go with it, whoever works on them.                            *)
DeleteMedia(j) ==
    /\ row[j].status # "deleted"
    /\ row' = [row EXCEPT ![j] = [status |-> "deleted", retryCount |-> 0, attempt |-> 0]]
    /\ variant' = [variant EXCEPT ![j] = Null]
    /\ thumbnailUrl' = [thumbnailUrl EXCEPT ![j] = FALSE]
    /\ Fault
    /\ UNCHANGED <<objectVars, dir, worker, revoked, orphaned>>

(* Killed or out of memory: finally does not run. *)
Crash(w) ==
    /\ worker[w].pc # "down"
    /\ worker' = [worker EXCEPT ![w] = Down]
    /\ orphaned' = orphaned \cup {<<w, j>> : j \in {k \in Job : dir[w][k] # Null}}
    /\ Fault
    /\ UNCHANGED <<dbVars, objectVars, dir, revoked>>

-----------------------------------------------------------------------------
(* Step 1: the row of the media is read, or missing, or the query throws. *)
fetchSourceInfo(w) ==
    /\ worker[w].pc = "fetch"
    /\ \/ row[worker[w].job].status # "deleted" /\ GoTo(w, "download")
       \/ GoTo(w, "fail")
    /\ UNCHANGED <<dbVars, objectVars, dir, historyVars>>

(* Step 2: the object is streamed to a file; pipeline() rejects when the   *)
(* stream breaks off, and part of the file is left.                        *)
downloadSource(w) ==
    /\ worker[w].pc = "download"
    /\ \/ /\ GoTo(w, "encode")
          /\ dir' = [dir EXCEPT ![w][worker[w].job].source = TRUE]
       \/ /\ GoTo(w, "fail")
          /\ \E some \in {TRUE, dir[w][worker[w].job].source} :
                 dir' = [dir EXCEPT ![w][worker[w].job].source = some]
    /\ UNCHANGED <<dbVars, objectVars, historyVars>>

(* What ffmpeg -y writes: it replaces what is there. *)
Output(w, kind) == [by |-> worker[w].attempt, kind |-> kind]

(* Step 3: ffmpeg exits with 0, whatever it made of the source, or fails   *)
(* with part of the output written or none.                                *)
runFfmpeg(w) ==
    LET j == worker[w].job
        write(file) == dir' = [dir EXCEPT ![w][j].output = file]
    IN  /\ worker[w].pc = "encode"
        /\ \/ GoTo(w, "validate") /\ \E kind \in {"h264", "other"} : write(Output(w, kind))
           \/ GoTo(w, "fail") /\ \E file \in {Output(w, "other"), dir[w][j].output} : write(file)
        /\ UNCHANGED <<dbVars, objectVars, historyVars>>

(* Mutant: the codec is not compared. *)
MutAnyCodec(file) == TRUE

(* ffprobe finds a video stream and its codec is h264. *)
ValidFile(file) == file.kind = "h264"

(* Step 4: ffprobe may also fail on a good file. *)
validateOutput(w) ==
    /\ worker[w].pc = "validate"
    /\ \/ ValidFile(dir[w][worker[w].job].output) /\ GoTo(w, "upload")
       \/ GoTo(w, "fail")
    /\ UNCHANGED <<dbVars, objectVars, dir, historyVars>>

(* Step 5: the PUT replaces the object as a whole; it may be applied and   *)
(* throw.                                                                  *)
uploadVariant(w) ==
    LET j == worker[w].job
        output == dir[w][j].output
    IN  /\ worker[w].pc = "upload"
        /\ \/ /\ video' = [video EXCEPT ![j] = output]
              /\ worker' = [worker EXCEPT ![w].pc = "frame", ![w].uploaded = output]
           \/ /\ video' \in {video, [video EXCEPT ![j] = output]}
              /\ GoTo(w, "fail")
        /\ UNCHANGED <<dbVars, thumbnail, dir, historyVars>>

(* Step 6, best effort: an error ends the thumbnail and not the attempt. *)
extractFirstFrame(w) ==
    LET j == worker[w].job
    IN  /\ worker[w].pc = "frame"
        /\ \/ GoTo(w, "thumbnail") /\ dir' = [dir EXCEPT ![w][j].frame = TRUE]
           \/ GoTo(w, "complete") /\ UNCHANGED dir
        /\ UNCHANGED <<dbVars, objectVars, historyVars>>

(* Step 7, best effort: thumbnailUpload is what uploadThumbnail() returned. *)
uploadThumbnail(w) ==
    LET j == worker[w].job
        put == [thumbnail EXCEPT ![j] = worker[w].attempt]
        proceed(done) == worker' = [worker EXCEPT ![w].pc = "complete", ![w].thumb = done]
    IN  /\ worker[w].pc = "thumbnail"
        /\ \/ thumbnail' = put /\ proceed(TRUE)
           \/ thumbnail' \in {thumbnail, put} /\ proceed(FALSE)
        /\ UNCHANGED <<dbVars, video, dir, historyVars>>

-----------------------------------------------------------------------------
(* Mutant: complete() does not look at the fence. *)
MutCompletes(w) == TRUE

(* The WHERE clause of complete() finds the row. *)
Completes(w) == Fenced(w)

(* The transaction of complete(): the job, the variant row it inserts or   *)
(* updates, and the thumbnail's URL, which it sets but never clears.       *)
Completion(w) ==
    LET j == worker[w].job
    IN  IF Completes(w)
        THEN /\ row' = [row EXCEPT ![j].status = "completed"]
             /\ variant' = [variant EXCEPT ![j] = worker[w].uploaded]
             /\ thumbnailUrl' = [thumbnailUrl EXCEPT ![j] = @ \/ worker[w].thumb]
        ELSE UNCHANGED dbVars

(* complete() returns, applied or fenced off; or it throws before or after *)
(* its commit, and the catch block calls fail().                           *)
Complete(w) ==
    /\ worker[w].pc = "complete"
    /\ \/ Completion(w) /\ Finally(w, Idle)
       \/ Completion(w) /\ GoTo(w, "fail") /\ UNCHANGED <<dir, orphaned>>
       \/ UNCHANGED dbVars /\ GoTo(w, "fail") /\ UNCHANGED <<dir, orphaned>>
    /\ UNCHANGED <<objectVars, revoked, faults>>

FailedRow(r) ==
    [r EXCEPT !.retryCount = @ + 1,
              !.status = IF r.retryCount + 1 >= MaxRetries THEN "dead_letter" ELSE "failed"]

(* fail(); when it throws, finally runs and the error leaves start(), so   *)
(* that the process goes down.                                             *)
Fail(w) ==
    LET j == worker[w].job
        failed == IF Fenced(w) THEN [row EXCEPT ![j] = FailedRow(@)] ELSE row
    IN  /\ worker[w].pc = "fail"
        /\ \/ row' = failed /\ Finally(w, Idle) /\ UNCHANGED faults
           \/ /\ Fault
              /\ row' \in {row, failed} /\ Finally(w, Down)
        /\ UNCHANGED <<variant, thumbnailUrl, objectVars, revoked>>

-----------------------------------------------------------------------------
(* processVideoMp4(): the order of its awaits is that of the pcs. *)
processVideoMp4(w) ==
    \/ fetchSourceInfo(w) \/ downloadSource(w) \/ runFfmpeg(w) \/ validateOutput(w)
    \/ uploadVariant(w) \/ extractFirstFrame(w) \/ uploadThumbnail(w)

LoopStep(w) ==
    (\E j \in Job : Claim(w, j)) \/ processVideoMp4(w) \/ Complete(w) \/ Fail(w)

Next ==
    \/ \E w \in Worker : Start(w) \/ TurnInVain(w) \/ LoopStep(w) \/ Crash(w)
    \/ \E j \in Job : Requeue(j) \/ DeleteMedia(j)

Spec == Init /\ [][Next]_vars

(* Processes are restarted, every call of an attempt ends (ffmpeg, the     *)
(* download and the uploads have no timeout: this is an assumption), and a *)
(* lease nobody extends runs out.                                          *)
Fairness ==
    /\ \A w \in Worker : WF_vars(Start(w)) /\ WF_vars(LoopStep(w))
    /\ \A j \in Job : WF_vars(Requeue(j))

FairSpec == Spec /\ Fairness

-----------------------------------------------------------------------------
(* What the rows publish can be fetched. A completed job has a video to    *)
(* play: whichever attempt uploaded it last, ffprobe had found H.264 in    *)
(* it. And a thumbnail's URL has its object, although the thumbnail's      *)
(* errors are swallowed.                                                   *)
PublishedIsThere ==
    \A j \in Job :
        /\ row[j].status = "completed" => video[j] # Null /\ video[j].kind = "h264"
        /\ thumbnailUrl[j] => thumbnail[j] # Null

(* The variant row describes (size, width, height, duration) the object    *)
(* that is there, or else an attempt whose lease ran out while it was      *)
(* alive has uploaded over it: the fence of complete() does not reach R2.  *)
(* And the row is about what its own attempt encoded, not what a crash of  *)
(* an earlier one left in the directory; a deleted media leaves no variant *)
(* row, although an attempt at it may be about to complete.                *)
DescribedUnlessRevoked ==
    \A j \in Job : variant[j] # Null =>
        /\ row[j].status = "completed" /\ variant[j].by = row[j].attempt
        /\ video[j] = variant[j] \/ video[j].by \in revoked[j]

(* A temporary directory belongs to an attempt that runs, or a crash left  *)
(* it there: attempts that end, in whichever way, take theirs with them.   *)
DirectoriesAccounted ==
    \A w \in Worker, j \in Job : dir[w][j] # Null =>
        (InAttempt(w) /\ worker[w].job = j) \/ <<w, j>> \in orphaned

(* An attempt has a directory and a number no other attempt at its job has, *)
(* and it can pass the fence of complete() or its job was taken from it;    *)
(* "fail" may also follow a complete() whose answer was lost.               *)
AttemptOK(w) ==
    LET j == worker[w].job
        n == worker[w].attempt
    IN  /\ j \in Job /\ dir[w][j] # Null
        /\ row[j].status = "deleted" \/ n <= row[j].attempt
        /\ \/ worker[w].pc = "fail" \/ Fenced(w)
           \/ n \in revoked[j] \/ row[j].status = "deleted"
        /\ \A v \in Worker \ {w} :
               InAttempt(v) /\ worker[v].job = j => worker[v].attempt # n

(* The file the attempt is about to validate or upload is its own, not one *)
(* it found in a directory that a crash left behind.                       *)
FileOK(w) ==
    LET output == dir[w][worker[w].job].output
    IN  worker[w].pc \in {"validate", "upload"} =>
            /\ output # Null /\ output.by = worker[w].attempt
            /\ worker[w].pc = "upload" => output.kind = "h264"

(* From its upload on, an attempt that can still complete finds its object *)
(* in place, or a revoked attempt has replaced it; and so the thumbnail.   *)
UploadOK(w) ==
    LET j == worker[w].job
        uploaded == worker[w].uploaded
    IN  /\ worker[w].thumb => thumbnail[j] # Null
        /\ worker[w].pc \in {"frame", "thumbnail", "complete"} =>
              /\ uploaded # Null /\ uploaded.by = worker[w].attempt
              /\ video[j] # Null
              /\ Fenced(w) => video[j] = uploaded \/ video[j].by \in revoked[j]

(* A row is dead with its MaxRetries-th failure, and an object was valid.  *)
JobOK(j) ==
    /\ row[j].retryCount = MaxRetries <=> row[j].status = "dead_letter"
    /\ video[j] # Null => video[j].kind = "h264"

(* What holds between the rows, the objects, the directories and the       *)
(* attempts, whatever fails, crashes, lapses or is deleted in between.     *)
ProcessInv ==
    /\ TypeOK /\ DirectoriesAccounted
    /\ \A w \in Worker : InAttempt(w) => AttemptOK(w) /\ FileOK(w) /\ UploadOK(w)
    /\ \A j \in Job : JobOK(j)

(* Every job settles, as long as the disk holds what the crashes leave:    *)
(* nobody removes an orphaned directory but the next attempt at its job on *)
(* that host, and the disk guard would wait for it for good.               *)
JobsSettle ==
    \A j \in Job : <>(row[j].status \in {"completed", "dead_letter", "deleted"})
=============================================================================

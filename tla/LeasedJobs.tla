----------------------------- MODULE LeasedJobs -----------------------------
(***************************************************************************)
(* What the transcode queue promises to its users, without rows, leases,   *)
(* clocks or heartbeats: every job is submitted once, has at most one      *)
(* holder at a time, is ended only by its holder, may be taken away and    *)
(* handed out again, and dies with its MaxRetries-th failure.              *)
(*                                                                         *)
(* TranscodeQueue (rows and leases) and WorkerLifecycle (the main loop and *)
(* its shutdown) are both checked and proved to implement it, and the      *)
(* steps of TranscodePipeline (the calls inside an attempt) are proved to  *)
(* be its steps or none, but for the deletion of a job's media.            *)
(***************************************************************************)
EXTENDS Naturals

CONSTANTS Job, Worker, Null, MaxRetries

VARIABLES
    status,     \* where each job stands
    tries,      \* failures counted per job
    holder      \* the worker whose outcome counts, or Null

jobVars == <<status, tries, holder>>

Init ==
    /\ status = [j \in Job |-> "absent"]
    /\ tries = [j \in Job |-> 0]
    /\ holder = [j \in Job |-> Null]

Submit(j) ==
    /\ status[j] = "absent"
    /\ status' = [status EXCEPT ![j] = "queued"]
    /\ UNCHANGED <<tries, holder>>

Take(w, j) ==
    /\ status[j] \in {"queued", "failed"}
    /\ status' = [status EXCEPT ![j] = "processing"]
    /\ holder' = [holder EXCEPT ![j] = w]
    /\ UNCHANGED tries

Finish(w, j) ==
    /\ holder[j] = w
    /\ status' = [status EXCEPT ![j] = "completed"]
    /\ holder' = [holder EXCEPT ![j] = Null]
    /\ UNCHANGED tries

Fail(w, j) ==
    /\ holder[j] = w
    /\ tries' = [tries EXCEPT ![j] = @ + 1]
    /\ status' = [status EXCEPT ![j] =
                    IF tries[j] + 1 < MaxRetries THEN "failed" ELSE "dead_letter"]
    /\ holder' = [holder EXCEPT ![j] = Null]

(* The holder is gone; the job still counts as being processed. *)
Abandon(j) ==
    /\ holder[j] # Null
    /\ holder' = [holder EXCEPT ![j] = Null]
    /\ UNCHANGED <<status, tries>>

(* The job is taken from its holder, dead or alive. *)
Revoke(j) ==
    /\ status[j] = "processing"
    /\ status' = [status EXCEPT ![j] = "queued"]
    /\ holder' = [holder EXCEPT ![j] = Null]
    /\ UNCHANGED tries

Next ==
    \/ \E j \in Job : Submit(j) \/ Abandon(j) \/ Revoke(j)
    \/ \E w \in Worker, j \in Job : Take(w, j) \/ Finish(w, j) \/ Fail(w, j)

Spec == Init /\ [][Next]_jobVars
=============================================================================

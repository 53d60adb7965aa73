------------------------- MODULE WorkerLifecycleMC -------------------------
(* WorkerLifecycle on small instances. *)
EXTENDS WorkerLifecycle

CONSTANTS j1, j2, p
=============================================================================

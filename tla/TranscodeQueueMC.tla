-------------------------- MODULE TranscodeQueueMC --------------------------
(* TranscodeQueue on small instances. *)
EXTENDS TranscodeQueue, TLC

CONSTANTS w1, w2, j1

(* Jobs and workers are interchangeable; the properties checked under this *)
(* symmetry are safety properties.                                         *)
Symmetry == Permutations(Job) \cup Permutations(Worker)
=============================================================================

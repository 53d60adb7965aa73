------------------------ MODULE TranscodePipelineMC ------------------------
(* TranscodePipeline on small instances. *)
EXTENDS TranscodePipeline

CONSTANTS j1, j2, w1, w2
=============================================================================

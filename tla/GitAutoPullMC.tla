---------------------------- MODULE GitAutoPullMC ----------------------------
(* GitAutoPull on small instances. *)
EXTENDS GitAutoPull

CONSTANTS dev, feature

(* One tracked branch and one that is not: the git processes of two runs *)
(* interleave in 500,000 ways as it is. *)
MCTracked == <<dev>>
MCOther == {feature}
=============================================================================

---------------------------- MODULE MonitorStatusMC ----------------------------
(* MonitorStatus on small instances. *)
EXTENDS MonitorStatus

CONSTANTS j1
=============================================================================

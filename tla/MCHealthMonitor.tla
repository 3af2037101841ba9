--------------------------- MODULE MCHealthMonitor ---------------------------
(* Small instances of HealthMonitor. *)
EXTENDS HealthMonitor
==============================================================================

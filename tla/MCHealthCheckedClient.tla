----------------------- MODULE MCHealthCheckedClient -----------------------
(* Small instances of HealthCheckedClient. *)
EXTENDS HealthCheckedClient
============================================================================

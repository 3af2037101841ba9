--------------------------- MODULE MCManagedServer ---------------------------
(* Small instances of ManagedServer for TLC. *)
EXTENDS ManagedServer
=============================================================================

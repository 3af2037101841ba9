-------------------------- MODULE MCApplicationPing --------------------------
(* Small instances of ApplicationPing. *)
EXTENDS ApplicationPing
==============================================================================

--------------------------- MODULE MCManagedClient ---------------------------
(* The managed client on small instances: a subscription and a few         *)
(* commands, with every outcome of the peer, the handler and the           *)
(* reconnect strategy.                                                     *)
EXTENDS ManagedClient
=============================================================================

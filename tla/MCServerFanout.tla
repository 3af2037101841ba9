---------------------------- MODULE MCServerFanout ----------------------------
(* Small instances of ServerFanout for TLC. *)
EXTENDS ServerFanout, TLC

FanoutSymmetry == Permutations(Conns)
===============================================================================

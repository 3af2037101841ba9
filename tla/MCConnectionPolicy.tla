-------------------------- MODULE MCConnectionPolicy --------------------------
(* Small instances of ConnectionPolicy, with factors that are accepted and  *)
(* factors that are replaced.                                               *)
EXTENDS ConnectionPolicy

SomeFactors == {<<2, 1>>, <<1, 2>>, <<1, 0>>}
===============================================================================

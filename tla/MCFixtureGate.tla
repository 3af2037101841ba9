----------------------------- MODULE MCFixtureGate -----------------------------
(* Small instances of FixtureGate: a contract with an error path, and two   *)
(* without; a capture whose object is quoted as often as write undoes, a    *)
(* synthesized fixture whose plain text has escapes under more quotes than  *)
(* both sides undo, and one that write refuses.                             *)
EXTENDS FixtureGate

CONSTANTS f1, f2

SomeInventories ==
    {<<[success |-> f1, error |-> f2]>>,
     <<[success |-> f2, error |-> NoPath], [success |-> f1, error |-> NoPath]>>}

SomeRecordings ==
    {[provenance |-> Fields,
      text |-> [core |-> "loose", quotes |-> 4, inner |-> 0]],
     [provenance |-> Fields \ {"exchange_env"},
      text |-> [core |-> "plain", quotes |-> 8, inner |-> 1]],
     [provenance |-> Fields,
      text |-> [core |-> "plain", quotes |-> 1, inner |-> 0]]}
================================================================================

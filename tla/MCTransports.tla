------------------------------ MODULE MCTransports ------------------------------
(* Small instances of Transports.  The types are treated alike but for Text *)
(* and for Ping and Close: one of each, a close reason that is not text,    *)
(* and the answers of the library, which leave no Pong to the user.         *)
EXTENDS Transports

SomeFrames == {[type |-> "Ping", payload |-> "utf8"], [type |-> "Close", payload |-> "bytes"]}
================================================================================

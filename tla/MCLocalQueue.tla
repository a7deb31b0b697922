---------------------------- MODULE MCLocalQueue ----------------------------
(* Instances of LocalQueue for TLC: messages of one byte. *)
EXTENDS LocalQueue

OneByte == [s \in Senders |-> 1]
=============================================================================

------------------------------- MODULE MCCost -------------------------------
(* Instances of Cost for TLC. *)
EXTENDS Cost
=============================================================================

------------------------------ MODULE MCBudget ------------------------------
(* Instances of Budget for TLC: every app belongs to the one repo. *)
EXTENDS Budget

OneRepo == [a \in Apps |-> CHOOSE r \in Repos : TRUE]
=============================================================================

------------------------------ MODULE MCTokens ------------------------------
(* Instances of Tokens for TLC. *)
EXTENDS Tokens, TLC

(* Make an operator, and make an admin a mere operator. *)
UpAndDown == {<<TRUE, None>>, <<None, FALSE>>}

Symmetry == Permutations(Reqs) \cup Permutations(People)
=============================================================================

------------------------------ MODULE MCTiers ------------------------------
(* Instances of Tiers for TLC. *)
EXTENDS Tiers, TLC

CONSTANTS small, large, a1, a2, r1

(* The migration's rows: small is the default; large allows more apps and  *)
(* has other limits.                                                       *)
TwoTiers ==
  (small :> [max_apps |-> 1, limits |-> 1, is_default |-> TRUE])
    @@ (large :> [max_apps |-> 2, limits |-> 2, is_default |-> FALSE])

OneRepo == [a \in Apps |-> r1]

Symmetry == Permutations(Reqs) \cup Permutations(Apps)
=============================================================================

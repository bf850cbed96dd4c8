----------------------------- MODULE MCPoolSync -----------------------------
(* Instances of PoolSync for TLC. *)
EXTENDS PoolSync, TLC

MCDeltas == {-2, 1, 3}

(* Requests are alike. *)
RequestSymmetry == Permutations(Requests)
=============================================================================

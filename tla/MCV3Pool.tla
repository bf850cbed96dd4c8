----------------------------- MODULE MCV3Pool -----------------------------
(* Instances of V3Pool for TLC. *)
EXTENDS V3Pool

(* one range below the other and one over both *)
MCTicks == 0..2
=============================================================================

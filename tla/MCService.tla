----------------------------- MODULE MCService -----------------------------
(* Instances of Service for TLC. *)
EXTENDS Service, TLC

CONSTANTS p1, p2, p3, p4, tokA, tokB, tokC, tokS, tokU, V3Live, q1, q2

(* two pools of one pair, and a way round them over a third token *)
MCTokensOf == (Sample :> <<tokS, tokU>>) @@ (p1 :> <<tokA, tokB>>) @@ (p2 :> <<tokA, tokB>>)
                @@ (p3 :> <<tokA, tokC>>) @@ (p4 :> <<tokC, tokB>>)

(* nothing, or all but the made-up pool *)
MCFirstKnown == {{}, {p1, p2, p3, p4}}

MCSampleState == [r0 |-> 40, r1 |-> 20]
MCFirstState == [r0 |-> 20, r1 |-> 60]
MCNewStates == {[r0 |-> 60, r1 |-> 1]}
=============================================================================

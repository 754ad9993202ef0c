----------------------------- MODULE MCServer -----------------------------
(* Server at sizes TLC can exhaust. *)
EXTENDS Server, TLC

CONSTANT q1

OneQueue == [l \in Loop |-> q1]
AtOnce   == {0}
NoExtend == {}
=============================================================================

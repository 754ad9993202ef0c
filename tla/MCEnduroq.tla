----------------------------- MODULE MCEnduroq -----------------------------
(* Enduroq at sizes TLC can exhaust. *)
EXTENDS Enduroq, TLC

CONSTANT q1

OneQueue == [l \in Loop |-> q1]
AtOnce   == {0}
NoExtend == {}
=============================================================================

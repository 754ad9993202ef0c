--------------------------- MODULE MCJobRepository ---------------------------
(* JobRepository at a size TLC can exhaust.                                  *)
EXTENDS JobRepository, TLC

Delays  == {0, 1}
Extends == {3}
=============================================================================

-------------------------- MODULE MCConnections --------------------------
(* Connections at sizes TLC can exhaust; jobs and connections are alike.  *)
EXTENDS Connections, TLC

Alike == Permutations(Job) \cup Permutations(Conn)
=============================================================================

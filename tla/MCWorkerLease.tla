--------------------------- MODULE MCWorkerLease ---------------------------
(* WorkerLease with one job, which is dispatched twice: the first worker    *)
(* may lose it to the second.  A lease shorter than the grace and workers   *)
(* that ask for less than the lease: acks and heartbeats bring it nearer.   *)
EXTENDS WorkerLease, TLC

First == Job \X {1}

AtOnce  == {0}
Shorter == {1}
=============================================================================

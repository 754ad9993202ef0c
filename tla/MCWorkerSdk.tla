---------------------------- MODULE MCWorkerSdk ----------------------------
(* WorkerSdk with one job and its two dispatches: the worker that was given *)
(* up, and the one that has the job after it.                               *)
EXTENDS WorkerSdk, TLC

First == Job \X {1}

AtOnce   == {0}
NoExtend == {}
=============================================================================

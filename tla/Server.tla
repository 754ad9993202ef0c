------------------------------- MODULE Server -------------------------------
(***************************************************************************)
(* The life of the server process around Enduroq: it starts its loops and  *)
(* its reaper, is told to stop, waits for the ticks under way, ends the    *)
(* pool, closes the listener and exits; or it dies anywhere in between.    *)
(* Either way it is started again, and what it left in the table is what   *)
(* the next process finds.                                                 *)
(*                                                                         *)
(* What a process has in memory dies with it: while the server is down,    *)
(* Forget clears its loops and reaper passes one by one, which nothing     *)
(* can see before the next start.                                          *)
(***************************************************************************)
EXTENDS Enduroq

CONSTANT MaxStops  \* bound on the shutdowns and crashes

ASSUME ServerAssumption == MaxStops \in Nat

VARIABLES
  server,   \* up, or how far shutdown() has come, or down
  ticking,  \* the loops whose promise is pending
  stops

serverVars == <<server, ticking, stops>>
allVars == <<vars, serverVars>>

ServerTypeOK ==
  /\ server \in {"up", "stopping", "closing", "draining", "down"}
  /\ ticking \subseteq Loop
  /\ stops \in 0 .. MaxStops

ServerInit ==
  /\ EnduroqInit
  /\ server = "up"
  /\ ticking = Loop
  /\ stops = 0

\* Statements reach the database until the pool has ended.
PoolOpen == server \in {"up", "stopping", "closing"}

-----------------------------------------------------------------------------
(* Start and stop *)

\* main(): the dispatcher, the reaper and the listener are started.
Start ==
  /\ server = "down"
  /\ \A l \in Loop : pc[l] = "poll"
  /\ reaping = {}
  /\ server' = "up"
  /\ ticking' = Loop
  /\ UNCHANGED <<vars, stops>>

\* SIGINT or SIGTERM: the interval is cleared and stop() called.  A loop that is
\* at "poll" may be waiting for grab(), or in the delay between two ticks, after
\* which it ends.
Signal ==
  /\ server = "up"
  /\ stops < MaxStops
  /\ server' = "stopping"
  /\ \E idle \in SUBSET {l \in Loop : pc[l] = "poll"} : ticking' = Loop \ idle
  /\ stops' = stops + 1
  /\ UNCHANGED vars

\* Mutant of EndPool: stop() is not awaited.
EndPoolAtOnce ==
  /\ server = "stopping"
  /\ server' = "closing"
  /\ UNCHANGED <<vars, ticking, stops>>

\* stop() has resolved; pool.end() lets the statements that were sent finish.
EndPool ==
  /\ server = "stopping"
  /\ ticking = {}
  /\ server' = "closing"
  /\ UNCHANGED <<vars, ticking, stops>>

CloseServer ==
  /\ server = "closing"
  /\ server' = "draining"
  /\ UNCHANGED <<vars, ticking, stops>>

Exit ==
  /\ server = "draining"
  /\ server' = "down"
  /\ UNCHANGED <<vars, ticking, stops>>

Crash ==
  /\ server # "down"
  /\ stops < MaxStops
  /\ server' = "down"
  /\ stops' = stops + 1
  /\ UNCHANGED <<vars, ticking>>

-----------------------------------------------------------------------------
(* What goes on meanwhile *)

\* Mutant of LoopEnds: the loop does not look at stopped.
KeepsLooping(l) == UNCHANGED ticking

\* The loop leaves its while.
LoopEnds(l) == ticking' = ticking \ {l}

RunLoop(l) ==
  /\ server \in {"up", "stopping"}
  /\ l \in ticking
  /\ LoopStep(l)
  /\ IF server = "stopping" /\ pc'[l] = "poll" THEN LoopEnds(l) ELSE UNCHANGED ticking
  /\ UNCHANGED <<server, stops>>

\* The grab that was awaited finds nothing, or throws.
LastGrab(l) ==
  /\ server = "stopping"
  /\ l \in ticking
  /\ pc[l] = "poll"
  /\ LoopEnds(l)
  /\ UNCHANGED <<vars, server, stops>>

\* The interval fires only in a server that is up; a pass that has begun goes on
\* unless the pool refuses its second statement.
FirePass(r) ==
  /\ server = "up"
  /\ ReapRequeue(r)
  /\ UNCHANGED <<pc, lease, outcome, work, serverVars>>

EndPass(r) ==
  /\ server \in {"up", "stopping"}
  /\ ReapFail(r)
  /\ UNCHANGED <<pc, lease, outcome, work, serverVars>>

DropPass(r) == ReapAbort(r) /\ UNCHANGED <<pc, lease, outcome, work, serverVars>>

\* Requests to the API; one that finds the pool ended gets a 500.
Serve ==
  /\ PoolOpen
  /\ \/ \E j \in Job : Client(j) /\ UNCHANGED <<pc, lease, outcome, work>>
     \/ \E j \in Job, t \in Token : Beat(j, t) \/ Report(j, t)
  /\ UNCHANGED serverVars

RunWorker(j, t) ==
  /\ Receive(j, t) \/ Finish(j, t) \/ Die(j, t)
  /\ UNCHANGED serverVars

Forget(l) ==
  /\ server = "down"
  /\ LoopAborts(l)
  /\ UNCHANGED serverVars

TimePasses == Tick /\ UNCHANGED <<pc, lease, outcome, work, serverVars>>

-----------------------------------------------------------------------------

Shutdown == EndPool \/ CloseServer \/ Exit

ServerNext ==
  \/ Start \/ Signal \/ Crash \/ Shutdown
  \/ \E l \in Loop : RunLoop(l) \/ LastGrab(l) \/ Forget(l)
  \/ \E r \in Reaper : FirePass(r) \/ EndPass(r) \/ DropPass(r)
  \/ \E j \in Job, t \in Token : RunWorker(j, t)
  \/ Serve
  \/ TimePasses

ServerSpec == ServerInit /\ [][ServerNext]_allVars

\* As in Enduroq, with a server that is started again; a shutdown goes on, as the
\* pool and the listener do not wait for ever.
FairServerSpec ==
  /\ ServerSpec
  /\ WF_allVars(TimePasses)
  /\ WF_allVars(Start) /\ WF_allVars(Shutdown)
  /\ \A l \in Loop : WF_allVars(RunLoop(l) \/ LastGrab(l) \/ Forget(l))
  /\ \A j \in Job, t \in Token :
       WF_allVars((Finish(j, t) \/ Die(j, t)) /\ UNCHANGED serverVars)
  /\ \A r \in Reaper :
       /\ WF_allVars(FirePass(r))
       /\ SF_allVars(EndPass(r))
       /\ WF_allVars(server = "down" /\ DropPass(r))

-----------------------------------------------------------------------------
(* Properties *)

\* A shutdown cuts off no tick: when the pool ends, every loop has written the
\* outcome of the job it had grabbed, and none will grab another.
GracefulStop ==
  server \in {"closing", "draining"} => \A l \in Loop : pc[l] = "poll"

\* The invariant behind it: only a loop whose promise is pending is in a tick.
ServerInv ==
  /\ ServerTypeOK
  /\ \A l \in Loop : pc[l] # "poll" => l \in ticking
  /\ server \in {"closing", "draining"} => ticking = {}

\* A server that is told to stop exits, however busy its queues are.
ShutdownEnds == server = "stopping" ~> server = "down"
=============================================================================

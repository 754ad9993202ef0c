---------------------------- MODULE ServerProofs ----------------------------
(***************************************************************************)
(* Theorems about Server, for any number of loops, jobs, reapers, retries, *)
(* shutdowns and crashes: a server that is stopped and started again is    *)
(* still Enduroq, so that its verdicts stay earned across restarts, and a  *)
(* shutdown cuts off no tick.                                              *)
(***************************************************************************)
EXTENDS Server, EnduroqProofs

\* What goes on in a server, or between two of them, goes on in Enduroq.
LEMMA ServerStep == [ServerNext]_allVars => [EnduroqNext]_vars
<1> SUFFICES ASSUME [ServerNext]_allVars
             PROVE  [EnduroqNext]_vars
  OBVIOUS
<1>1. CASE Start \/ Signal \/ Crash \/ Shutdown
  BY <1>1 DEF Start, Signal, Crash, Shutdown, EndPool, CloseServer, Exit, vars
<1>2. ASSUME NEW l \in Loop, RunLoop(l) \/ LastGrab(l) \/ Forget(l)
      PROVE  LoopStep(l) \/ UNCHANGED vars
  BY <1>2 DEF RunLoop, LastGrab, Forget, LoopStep
<1>3. ASSUME NEW r \in Reaper, FirePass(r) \/ EndPass(r) \/ DropPass(r)
      PROVE  Environment
  BY <1>3 DEF FirePass, EndPass, DropPass, Reap, Environment
<1>4. ASSUME NEW j \in Job, NEW t \in Token, RunWorker(j, t)
      PROVE  WorkerStep(j, t)
  BY <1>4 DEF RunWorker, WorkerStep
<1>5. ASSUME Serve
      PROVE  EnduroqNext
  BY <1>5 DEF Serve, EnduroqNext, Environment, WorkerStep
<1>6. CASE TimePasses
  BY <1>6 DEF TimePasses, EnduroqNext, Environment
<1>7. CASE UNCHANGED allVars
  BY <1>7 DEF allVars
<1> QED BY <1>1, <1>2, <1>3, <1>4, <1>5, <1>6, <1>7 DEF ServerNext, EnduroqNext

\* A loop's step leaves the other loops where they stand.
LEMMA OneLoop ==
  ASSUME EnduroqTypeOK, NEW l \in Loop, LoopStep(l), NEW m \in Loop, m # l
  PROVE  pc'[m] = pc[m]
<1>1. \E stage : pc' = [pc EXCEPT ![l] = stage]
  BY DEF LoopStep, LoopGrab, Post, HearAnswer, FetchFails, Conclude, Settle, LoopAborts, Poll
<1> QED BY <1>1 DEF EnduroqTypeOK

\* The processes around the loops leave them where they stand.
LEMMA LoopsStay ==
  ASSUME [ServerNext]_allVars,
         \A l \in Loop : ~(RunLoop(l) \/ LastGrab(l) \/ Forget(l))
  PROVE  pc' = pc
BY DEF ServerNext, Start, Signal, Crash, Shutdown, EndPool, CloseServer, Exit,
       FirePass, EndPass, DropPass, RunWorker, Receive, Finish, Die, Serve, Beat, Report,
       TimePasses, vars, allVars

\* The life of the server: what it starts, and what it waits for.
LEMMA ServerLifeStep ==
  ASSUME EnduroqTypeOK, ServerInv, Start \/ Signal \/ Crash \/ Shutdown
  PROVE  ServerInv'
<1>1. CASE Start
  BY <1>1 DEF Start, ServerInv, ServerTypeOK
<1>2. CASE Signal
  <2>1. pc' = pc /\ server' = "stopping" /\ stops' \in 0 .. MaxStops
    BY <1>2, ServerAssumption DEF Signal, ServerInv, ServerTypeOK, vars
  <2>2. PICK idle \in SUBSET {l \in Loop : pc[l] = "poll"} : ticking' = Loop \ idle
    BY <1>2 DEF Signal
  <2> QED BY <2>1, <2>2 DEF ServerInv, ServerTypeOK
<1>3. CASE Crash
  BY <1>3, ServerAssumption DEF Crash, ServerInv, ServerTypeOK, vars
<1>4. CASE Shutdown
  BY <1>4 DEF Shutdown, EndPool, CloseServer, Exit, ServerInv, ServerTypeOK, vars
<1> QED BY <1>1, <1>2, <1>3, <1>4

\* The loops of a server that is up or stopping, and what is left of them.
LEMMA ServerLoopStep ==
  ASSUME EnduroqTypeOK, ServerInv,
         NEW l \in Loop, RunLoop(l) \/ LastGrab(l) \/ Forget(l)
  PROVE  ServerInv'
<1>1. CASE RunLoop(l)
  <2>1. \A m \in Loop : m # l => pc'[m] = pc[m]
    BY <1>1, OneLoop DEF RunLoop
  <2>2. /\ ticking' = ticking \/ (pc'[l] = "poll" /\ ticking' = ticking \ {l})
        /\ server' = server /\ stops' = stops /\ l \in ticking
    BY <1>1 DEF RunLoop, LoopEnds
  <2> QED BY <2>1, <2>2 DEF ServerInv, ServerTypeOK
<1>2. CASE LastGrab(l)
  BY <1>2 DEF LastGrab, LoopEnds, ServerInv, ServerTypeOK, vars
<1>3. CASE Forget(l)
  <2>1. \A m \in Loop : m # l => pc'[m] = pc[m]
    BY <1>3, OneLoop DEF Forget, LoopStep
  <2>2. pc'[l] = "poll" /\ UNCHANGED serverVars
    BY <1>3 DEF Forget, LoopAborts, Poll, EnduroqTypeOK
  <2> QED BY <2>1, <2>2 DEF ServerInv, ServerTypeOK, serverVars
<1> QED BY <1>1, <1>2, <1>3

LEMMA ServerInvStep ==
  ASSUME EnduroqTypeOK, ServerInv, [ServerNext]_allVars
  PROVE  ServerInv'
<1>1. CASE Start \/ Signal \/ Crash \/ Shutdown
  BY <1>1, ServerLifeStep
<1>2. CASE \E l \in Loop : RunLoop(l) \/ LastGrab(l) \/ Forget(l)
  BY <1>2, ServerLoopStep
<1>3. CASE /\ ~(Start \/ Signal \/ Crash \/ Shutdown)
           /\ \A l \in Loop : ~(RunLoop(l) \/ LastGrab(l) \/ Forget(l))
  <2>1. pc' = pc
    BY <1>3, LoopsStay
  <2>2. UNCHANGED serverVars
    BY <1>3 DEF ServerNext, FirePass, EndPass, DropPass, RunWorker, Serve, TimePasses,
                allVars
  <2> QED BY <2>1, <2>2 DEF ServerInv, ServerTypeOK, serverVars
<1> QED BY <1>1, <1>2, <1>3

-----------------------------------------------------------------------------
(* The theorems *)

\* Through any number of shutdowns and crashes the system stays Enduroq: every
\* theorem about EnduroqSpec holds of a server that is stopped and started.
THEOREM ServerIsEnduroq == ServerSpec => EnduroqSpec
<1>1. ServerInit => EnduroqInit
  BY DEF ServerInit
<1> QED BY <1>1, ServerStep, PTL DEF ServerSpec, EnduroqSpec

\* The loops in a tick are those whose promise shutdown() waits for.
THEOREM ServerInvariance == ServerSpec => []ServerInv
<1>1. ServerInit => ServerInv
  BY ServerAssumption DEF ServerInit, ServerInv, ServerTypeOK
<1>2. EnduroqInv => EnduroqTypeOK
  BY DEF EnduroqInv
<1>3. EnduroqTypeOK /\ ServerInv /\ [ServerNext]_allVars => ServerInv'
  BY ServerInvStep
<1> QED BY <1>1, <1>2, <1>3, ServerIsEnduroq, EnduroqInvariance, PTL DEF ServerSpec

\* So the pool ends only when no loop is in the middle of a tick.
THEOREM ShutdownIsGraceful == ServerSpec => []GracefulStop
<1>1. ServerInv => GracefulStop
  BY DEF ServerInv, GracefulStop
<1> QED BY <1>1, ServerInvariance, PTL

\* The verdicts of jobs stay earned when the server restarts in the middle of
\* their dispatch.
THEOREM VerdictsSurviveRestarts == ServerSpec => [](SucceededIsEarned /\ FailedIsJustified)
BY ServerIsEnduroq, SuccessIsEarned, FailureIsJustified, PTL

\* A server that comes up again sends no dispatch that an earlier one has sent,
\* nor does one that stops or starts touch the lease of a running job.
THEOREM RestartsAskNothingTwice == ServerSpec => AskedOnce /\ AckKeepsHeartbeat
BY ServerIsEnduroq, DispatchIsAskedOnce, AckSparesHeartbeat, PTL

\* And it takes its jobs through the lifecycle as if it had never stopped.
THEOREM ServerRefinement == ServerSpec => ImplementsLifecycle
BY ServerIsEnduroq, SystemRefinement, PTL

\* Nor can restarts keep a job going round: every change of its status counts.
THEOREM ServerMovesRunOut == ServerSpec => EveryMoveCounts
BY ServerIsEnduroq, SystemIsAClient, MovesRunOut, PTL
=============================================================================

--------------------------- MODULE WorkerSdkProofs --------------------------
(***************************************************************************)
(* Theorems about WorkerSdk, for any number of jobs, dispatches, retries   *)
(* and heartbeats in flight and any timer values: workers are clients of   *)
(* JobRepository, what the server told them is true, and what they believe *)
(* of their lease is covered by the table.                                 *)
(***************************************************************************)
EXTENDS WorkerSdk, JobRepositoryProofs

-----------------------------------------------------------------------------
(* Workers are clients of the repository *)

\* A heartbeat's extension is one of those that JobRepository knows.
LEMMA ExtendIsNat == /\ LeaseExtend \in Nat
                     /\ LeaseExtend \in Extend \cup {Lease}
BY SdkAssumption, RepositoryAssumption

\* A dispatch is a job and a token.
LEMMA DispatchType ==
  ASSUME NEW d \in Dispatch
  PROVE  d = <<d[1], d[2]>> /\ d[1] \in Job /\ d[2] \in Nat /\ d[2] >= 1
BY RepositoryAssumption DEF Dispatch

\* What workers, clients, reapers and the dispatcher's reactions do to the table.
TableStep ==
  \/ \E j \in Job : Client(j)
  \/ \E d \in Dispatch : Write(d[1], d[2]) \/ Heartbeat(d[1], d[2], LeaseExtend)
  \/ \E r \in Reaper : Reap(r)
  \/ UNCHANGED repoVars

\* A worker's step is one of these,
LEMMA WorkerWrites ==
  ASSUME NEW d \in Dispatch, DispatchStep(d)
  PROVE  TableStep
<1>1. CASE HeartbeatStep(d)
  <2>1. CASE Fire(d)
    BY <2>1 DEF Fire, TableStep
  <2>2. ASSUME NEW s \in Slot, BeatUpdate(d, s)
        PROVE  TableStep
    BY <2>2 DEF BeatUpdate, TableStep
  <2>3. ASSUME NEW s \in Slot, BeatRead(d, s) \/ BeatAnswered(d, s) \/ BeatFails(d, s)
        PROVE  TableStep
    BY <2>3 DEF BeatRead, BeatAnswered, BeatFails, TableStep
  <2> QED BY <1>1, <2>1, <2>2, <2>3 DEF HeartbeatStep
<1>2. ASSUME Result(d)
      PROVE  TableStep
  BY <1>2 DEF Result, TableStep, Write
<1>3. CASE ResultStep(d)
  BY <1>3, <1>2 DEF ResultStep, Finish, ResultServed, ResultAnswered, ResultFails,
                    TableStep
<1>4. CASE Acquire(d) \/ Stop(d) \/ Die(d)
  BY <1>4 DEF Acquire, Stop, Die, TableStep
<1>5. CASE Answer(d)
  BY <1>5 DEF Answer, TableStep, Write
<1>6. CASE LateBeat(d)
  BY <1>6 DEF LateBeat, TableStep
<1>7. CASE LateResult(d)
  BY <1>7, <1>2 DEF LateResult
<1> QED BY <1>1, <1>3, <1>4, <1>5, <1>6, <1>7 DEF DispatchStep

\* so that every step is, or a grab, or the clock's.
LEMMA StepKinds ==
  ASSUME [SdkNext]_vars
  PROVE  \/ TableStep
         \/ \E j \in Job : GrabAndSend(j)
         \/ TimePasses
BY WorkerWrites DEF SdkNext, Environment, TableStep, vars

\* A worker whose token has the row presents one that was handed out; the others
\* change nothing.
LEMMA PresentedToken ==
  ASSUME IInv, NEW j \in Job, NEW t,
         Write(j, t) \/ \E e \in Extend \cup {Lease} : Heartbeat(j, t, e)
  PROVE  [Next]_repoVars
<1>1. CASE Holds(j, t, Held)
  <2>1. t = minted[j] /\ minted[j] \in Nat /\ minted[j] >= 1
    BY <1>1 DEF Holds, IInv, RowInv, LeaseColumnsAgree, AttemptsCounted
  <2>2. t \in 1 .. minted[j]
    BY <2>1
  <2> QED BY <2>2 DEF Next, Extension
<1>2. CASE ~Holds(j, t, Held)
  <2>1. ~Holds(j, t, {"dispatching"})
    BY <1>2 DEF Holds, Held
  <2>2. UNCHANGED repoVars
    BY <1>2, <2>1 DEF Write, Ack, Nack, Reject, Succeed, Fail, Heartbeat, Update, repoVars
  <2> QED BY <2>2
<1> QED BY <1>1, <1>2

\* So every step of the workers is one that some client of the class may take.
LEMMA ClientStep ==
  ASSUME IInv, [SdkNext]_vars
  PROVE  [Next]_repoVars
<1>1. CASE TableStep
  <2>1. ASSUME NEW d \in Dispatch, Write(d[1], d[2]) \/ Heartbeat(d[1], d[2], LeaseExtend)
        PROVE  [Next]_repoVars
    BY <2>1, DispatchType, PresentedToken, ExtendIsNat
  <2> QED BY <1>1, <2>1 DEF TableStep, Next
<1>2. ASSUME NEW j \in Job, GrabAndSend(j)
      PROVE  [Next]_repoVars
  BY <1>2 DEF GrabAndSend, Next
<1>3. CASE TimePasses
  BY <1>3 DEF TimePasses, Next
<1> QED BY <1>1, <1>2, <1>3, StepKinds

\* Workers, with whatever they send late or twice, are clients of the class: every
\* theorem of JobRepositoryProofs holds of them.
THEOREM SdkIsAClient == SdkSpec => Spec
<1>1. SdkInit => Init /\ IInv
  BY InitInv DEF SdkInit
<1>2. IInv /\ [SdkNext]_vars => [Next]_repoVars /\ IInv'
  BY ClientStep, NextInv
<1> QED BY <1>1, <1>2, PTL DEF SdkSpec, Spec

\* So their jobs go through the lifecycle, and each has a last move.
THEOREM SdkRefinement == SdkSpec => ImplementsLifecycle /\ EveryMoveCounts
BY SdkIsAClient, Refinement, MovesRunOut, PTL

-----------------------------------------------------------------------------
(* What the table does to a token *)

\* Tokens are counted upwards.
LEMMA MintedGrows ==
  ASSUME IInv, [SdkNext]_vars, NEW j \in Job
  PROVE  minted'[j] \in Nat /\ minted'[j] >= minted[j]
<1>0. minted \in [Job -> Nat]
  BY DEF IInv, TypeOK
<1>1. CASE TableStep
  <2>1. minted' = minted
    BY <1>1 DEF TableStep, Client, Enqueue, Cancel, Write, Ack, Nack, Reject, Succeed,
                Fail, Heartbeat, Reap, ReapRequeue, ReapFail, ReapAbort, repoVars
  <2> QED BY <1>0, <2>1
<1>2. ASSUME NEW k \in Job, GrabAndSend(k)
      PROVE  minted'[j] \in Nat /\ minted'[j] >= minted[j]
  BY <1>0, <1>2 DEF GrabAndSend, Grab
<1>3. CASE TimePasses
  BY <1>0, <1>3 DEF TimePasses, Tick
<1> QED BY <1>1, <1>2, <1>3, StepKinds

\* A token that was handed out and does not have the job never gets it.
LEMMA LostStaysLost ==
  ASSUME IInv, [SdkNext]_vars, NEW d \in Dispatch,
         d[2] <= minted[d[1]], jobs[d[1]].lease_token # d[2]
  PROVE  jobs'[d[1]].lease_token # d[2]
<1>1. d[1] \in Job /\ d[2] \in Nat /\ minted[d[1]] \in Nat
  BY DispatchType DEF IInv, TypeOK
<1>2. \/ jobs'[d[1]].lease_token = jobs[d[1]].lease_token
      \/ jobs'[d[1]].lease_token = NULL
      \/ jobs'[d[1]].lease_token > minted[d[1]]
  BY <1>1, ClientStep, TokenStep
<1> QED BY <1>1, <1>2, RepositoryAssumption

\* A token that does not hold its row does not have it at all.
LEMMA NotHeldIsLost ==
  ASSUME IInv, NEW d \in Dispatch, ~Holds(d[1], d[2], Held)
  PROVE  jobs[d[1]].lease_token # d[2]
BY DispatchType, RepositoryAssumption DEF Holds, IInv, RowInv, LeaseColumnsAgree

\* A result that was taken stays taken.
LEMMA TakenStays ==
  ASSUME IInv, [SdkNext]_vars, NEW d \in Dispatch, d[2] <= minted[d[1]], Taken(d),
         report'[d].good = report[d].good
  PROVE  Taken(d)'
<1>1. jobs'[d[1]].lease_token # d[2]
  BY LostStaysLost DEF Taken
<1>2. ASSUME jobs[d[1]].status = "succeeded"
      PROVE  /\ jobs'[d[1]].status = jobs[d[1]].status
             /\ jobs'[d[1]].result = jobs[d[1]].result
  BY <1>2, DispatchType, ClientStep, TerminalStep DEF Terminal
<1> QED BY <1>1, <1>2 DEF Taken

-----------------------------------------------------------------------------
(* Types *)

Stages == {"idle", "sent", "updated", "gone", "ok"}

\* What a heartbeat's step does to the heartbeats: it writes its own slot.
LEMMA BeatWrites ==
  ASSUME BeatsTyped, NEW d \in Dispatch, NEW s \in Slot, NEW stage, NEW expiry,
         Beat(d, s, stage, expiry)
  PROVE  /\ beats'[d][s] = [stage |-> stage, expiry |-> expiry]
         /\ \A e \in Dispatch, u \in Slot :
              e # d \/ u # s => beats'[e][u] = beats[e][u]
BY DEF Beat, BeatsTyped

\* So the types of the heartbeats stay.
LEMMA BeatTypes ==
  ASSUME BeatsTyped, NEW d \in Dispatch, NEW s \in Slot,
         NEW stage \in Stages, NEW expiry \in Instants,
         stage = "ok" <=> expiry # NULL,
         Beat(d, s, stage, expiry)
  PROVE  BeatsTyped'
<1>1. [stage |-> stage, expiry |-> expiry] \in [stage : Stages, expiry : Instants]
  OBVIOUS
<1>2. beats' \in [Dispatch -> [Slot -> [stage : Stages, expiry : Instants]]]
  BY <1>1 DEF Beat, BeatsTyped, Stages
<1>0. /\ beats'[d][s] = [stage |-> stage, expiry |-> expiry]
      /\ \A e \in Dispatch, u \in Slot :
           e # d \/ u # s => beats'[e][u] = beats[e][u]
  BY BeatWrites
<1>3. ASSUME NEW e \in Dispatch, NEW u \in Slot
      PROVE  beats'[e][u].stage = "ok" <=> beats'[e][u].expiry # NULL
  <2>1. CASE e = d /\ u = s
    BY <1>0, <2>1
  <2>2. CASE e # d \/ u # s
    BY <1>0, <2>2 DEF BeatsTyped
  <2> QED BY <2>1, <2>2
<1> QED BY <1>2, <1>3 DEF BeatsTyped, Stages

\* toISO makes an instant of any expiry.
LEMMA ToISOType ==
  ASSUME NEW expiry \in Instants
  PROVE  ToISO(expiry) \in Instants /\ ToISO(expiry) # NULL
BY RepositoryAssumption DEF ToISO, Instants, Expired

\* An instant that comes nearer is one.
LEMMA LaterType ==
  ASSUME NEW instant \in Instants
  PROVE  Later(instant) \in Instants /\ (Later(instant) = NULL <=> instant = NULL)
BY RepositoryAssumption DEF Later, Instants, Expired

\* The timer's interval is one of its candidates, and none is larger.
LEMMA IntervalIsMax ==
  ASSUME NEW window \in Nat \cup {Expired}
  PROVE  /\ Interval(window) \in {MinInterval, HeartbeatInterval, window \div 3}
         /\ Interval(window) >= MinInterval
         /\ Interval(window) >= HeartbeatInterval
         /\ Interval(window) >= window \div 3
<1> DEFINE third == window \div 3
           S == {MinInterval, HeartbeatInterval, third}
<1>1. third \in Int
  BY DEF Expired
<1>2. MinInterval \in Nat /\ HeartbeatInterval \in Nat
  BY SdkAssumption
<1> HIDE DEF third
<1>3. \E x \in S : \A y \in S : x >= y
  BY <1>1, <1>2
<1>4. Max(S) \in S /\ \A y \in S : Max(S) >= y
  BY <1>3 DEF Max
<1> QED BY <1>4 DEF Interval, third

\* So it is a number of ticks.
LEMMA IntervalType ==
  ASSUME NEW window \in Nat \cup {Expired}
  PROVE  Interval(window) \in Nat
<1>1. window \div 3 \in Int
  BY DEF Expired
<1> QED BY <1>1, IntervalIsMax, SdkAssumption

\* The first state is well typed.
LEMMA InitTypes == SdkInit => SdkTypeOK
<1> SUFFICES ASSUME SdkInit
             PROVE  SdkTypeOK
  OBVIOUS
<1>1. TypeOK
  BY InitInv DEF SdkInit, IInv
<1>2. BeatsTyped
  BY DEF SdkInit, BeatsTyped, Idle, Stages, Instants
<1>3. 0 \in 0 .. ResultRetries
  BY SdkAssumption
<1> QED BY <1>1, <1>2, <1>3 DEF SdkInit, Instants, Done, SdkTypeOK

\* The steps of heartbeats are,
LEMMA HeartbeatTypes ==
  ASSUME SdkTypeOK, TypeOK', NEW d \in Dispatch, HeartbeatStep(d)
  PROVE  SdkTypeOK'
<1>0. BeatsTyped
  BY DEF SdkTypeOK
<1>1. CASE Fire(d)
  <2>1. due' \in [Dispatch -> Nat]
    BY <1>1 DEF Fire, SdkTypeOK
  <2>2. ASSUME NEW s \in Slot, Beat(d, s, "sent", NULL)
        PROVE  BeatsTyped'
    BY <1>0, <2>2, BeatTypes DEF Stages, Instants
  <2>3. BeatsTyped'
    BY <1>0, <1>1, <2>2 DEF Fire, BeatsTyped
  <2> QED BY <1>1, <2>1, <2>3 DEF Fire, SdkTypeOK
<1>2. ASSUME NEW s \in Slot, BeatUpdate(d, s)
      PROVE  SdkTypeOK'
  <2>1. BeatsTyped'
    BY <1>0, <1>2, BeatTypes DEF BeatUpdate, Stages, Instants
  <2> QED BY <1>2, <2>1 DEF BeatUpdate, SdkTypeOK
<1>3. ASSUME NEW s \in Slot, BeatRead(d, s)
      PROVE  SdkTypeOK'
  <2>1. jobs[d[1]].lease_expires_at \in Instants
    BY DispatchType DEF SdkTypeOK, TypeOK, Row, Instants
  <2>2. BeatsTyped'
    BY <1>0, <1>3, <2>1, ToISOType, BeatTypes DEF BeatRead, Stages
  <2> QED BY <1>3, <2>2 DEF BeatRead, SdkTypeOK
<1>4. ASSUME NEW s \in Slot, Beat(d, s, "idle", NULL)
      PROVE  BeatsTyped'
  BY <1>0, <1>4, BeatTypes DEF Stages, Instants
<1>5. ASSUME NEW s \in Slot, BeatAnswered(d, s)
      PROVE  SdkTypeOK'
  <2>1. state' \in [Dispatch -> {"none", "refused", "working", "stopped", "aborted", "dead"}]
    BY <1>5 DEF BeatAnswered, AbortIfExpired, Abort, SdkTypeOK
  <2>2. leaseExpiresAt' \in [Dispatch -> Instants]
    <3>1. beats[d][s].expiry \in Instants
      BY <1>0 DEF BeatsTyped
    <3> QED BY <1>5, <3>1 DEF BeatAnswered, Believe, SdkTypeOK
  <2> QED BY <1>4, <1>5, <2>1, <2>2 DEF BeatAnswered, SdkTypeOK
<1>6. ASSUME NEW s \in Slot, BeatFails(d, s)
      PROVE  SdkTypeOK'
  <2>1. state' \in [Dispatch -> {"none", "refused", "working", "stopped", "aborted", "dead"}]
    BY <1>6 DEF BeatFails, AbortIfExpired, Abort, SdkTypeOK
  <2>2. late' \subseteq {"beat", "result"} \X Dispatch
    BY <1>6 DEF BeatFails, SdkTypeOK
  <2> QED BY <1>4, <1>6, <2>1, <2>2 DEF BeatFails, SdkTypeOK
<1> QED BY <1>1, <1>2, <1>3, <1>5, <1>6 DEF HeartbeatStep

\* those of the results,
LEMMA ResultTypes ==
  ASSUME SdkTypeOK, TypeOK', NEW d \in Dispatch, ResultStep(d)
  PROVE  SdkTypeOK'
<1> DEFINE Report == [ stage : {"none", "posted", "ok", "conflict"} \cup Done,
                       tries : 0 .. ResultRetries,
                       good  : BOOLEAN ]
<1>1. report \in [Dispatch -> Report]
  BY DEF SdkTypeOK
<1>2. ASSUME report' \in [Dispatch -> Report], UNCHANGED beats,
             late' \subseteq {"beat", "result"} \X Dispatch,
             UNCHANGED <<state, leaseExpiresAt, interval, due>>
      PROVE  SdkTypeOK'
  BY <1>2 DEF BeatsTyped, SdkTypeOK
<1>3. CASE Finish(d)
  <2>1. 0 \in 0 .. ResultRetries
    BY SdkAssumption
  <2>2. report' \in [Dispatch -> Report]
    BY <1>1, <1>3, <2>1 DEF Finish
  <2> QED BY <1>2, <1>3, <2>2 DEF Finish, SdkTypeOK
<1>4. ASSUME NEW stage \in {"none", "posted", "ok", "conflict"} \cup Done,
             Reporting(d, stage)
      PROVE  report' \in [Dispatch -> Report]
  BY <1>1, <1>4 DEF Reporting
<1>5. CASE ResultServed(d) \/ ResultAnswered(d)
  BY <1>2, <1>4, <1>5 DEF ResultServed, ResultAnswered, Done, SdkTypeOK
<1>6. CASE ResultFails(d)
  <2>1. late' \subseteq {"beat", "result"} \X Dispatch
    BY <1>6 DEF ResultFails, SdkTypeOK
  <2>2. report[d].tries < ResultRetries => report[d].tries + 1 \in 0 .. ResultRetries
    BY <1>1, SdkAssumption
  <2>3. report' \in [Dispatch -> Report]
    BY <1>1, <1>4, <1>6, <2>2 DEF ResultFails, Done
  <2> QED BY <1>2, <1>6, <2>1, <2>3 DEF ResultFails
<1> QED BY <1>3, <1>5, <1>6 DEF ResultStep

\* and all others, well typed.
LEMMA TypeStep ==
  ASSUME SdkTypeOK, TypeOK', [SdkNext]_vars
  PROVE  SdkTypeOK'
<1>0. BeatsTyped /\ (UNCHANGED beats => BeatsTyped')
  BY DEF BeatsTyped, SdkTypeOK
<1>1. ASSUME NEW d \in Dispatch, Acquire(d)
      PROVE  SdkTypeOK'
  <2>1. Interval(leaseExpiresAt[d]) \in Nat
    BY <1>1, IntervalType DEF Acquire, SdkTypeOK, Instants
  <2>2. interval' \in [Dispatch -> Nat] /\ due' \in [Dispatch -> Nat]
    BY <1>1, <2>1 DEF Acquire, SdkTypeOK
  <2> QED BY <1>0, <1>1, <2>2 DEF Acquire, SdkTypeOK
<1>2. ASSUME NEW d \in Dispatch, Stop(d) \/ Die(d) \/ Answer(d)
      PROVE  SdkTypeOK'
  BY <1>0, <1>2 DEF Stop, Die, Answer, SdkTypeOK
<1>3. ASSUME NEW d \in Dispatch, LateBeat(d) \/ LateResult(d)
      PROVE  SdkTypeOK'
  BY <1>0, <1>3 DEF LateBeat, LateResult, SdkTypeOK
<1>4. ASSUME NEW j \in Job, GrabAndSend(j)
      PROVE  SdkTypeOK'
  <2>1. AckGrace \in Instants
    BY RepositoryAssumption DEF Instants
  <2>2. leaseExpiresAt' \in [Dispatch -> Instants]
    BY <1>4, <2>1 DEF GrabAndSend, SdkTypeOK
  <2> QED BY <1>0, <1>4, <2>2 DEF GrabAndSend, SdkTypeOK
<1>5. ASSUME Environment
      PROVE  SdkTypeOK'
  BY <1>0, <1>5 DEF Environment, sdkVars, SdkTypeOK
<1>6. ASSUME TimePasses
      PROVE  SdkTypeOK'
  <2>1. leaseExpiresAt' \in [Dispatch -> Instants]
    BY <1>6, LaterType DEF TimePasses, SdkTypeOK
  <2>2. due' \in [Dispatch -> Nat]
    BY <1>6 DEF TimePasses, SdkTypeOK
  <2>3. BeatsTyped'
    <3>1. ASSUME NEW e \in Dispatch, NEW s \in Slot
          PROVE  /\ beats'[e][s] \in [stage : Stages, expiry : Instants]
                 /\ beats'[e][s].stage = "ok" <=> beats'[e][s].expiry # NULL
      <4>1. beats[e][s] \in [stage : Stages, expiry : Instants]
        BY <1>0 DEF BeatsTyped, Stages
      <4>2. beats'[e][s] = [beats[e][s] EXCEPT !.expiry = Later(beats[e][s].expiry)]
        BY <1>6 DEF TimePasses
      <4> QED BY <1>0, <4>1, <4>2, LaterType DEF BeatsTyped
    <3> QED BY <1>6, <3>1 DEF TimePasses, BeatsTyped, Stages
  <2> QED BY <1>6, <2>1, <2>2, <2>3 DEF TimePasses, SdkTypeOK
<1>7. ASSUME UNCHANGED vars
      PROVE  SdkTypeOK'
  BY <1>0, <1>7 DEF vars, sdkVars, SdkTypeOK
<1> QED BY <1>1, <1>2, <1>3, <1>4, <1>5, <1>6, <1>7, HeartbeatTypes, ResultTypes
        DEF SdkNext, DispatchStep

-----------------------------------------------------------------------------
(* What a step does to a worker *)

\* The worker of d is left alone.
SameWorker(d) ==
  /\ state'[d] = state[d]
  /\ leaseExpiresAt'[d] = leaseExpiresAt[d]
  /\ beats'[d] = beats[d]
  /\ report'[d] = report[d]
  /\ due'[d] = due[d]
  /\ <<"beat", d>> \in late' => <<"beat", d>> \in late

\* A step of one dispatch leaves the workers of the others alone.
LEMMA OthersAlone ==
  ASSUME SdkTypeOK, NEW e \in Dispatch, DispatchStep(e), NEW d \in Dispatch, d # e
  PROVE  SameWorker(d)
<1>1. CASE HeartbeatStep(e)
  BY <1>1 DEF HeartbeatStep, Fire, BeatUpdate, BeatRead, BeatAnswered, BeatFails, Beat,
              Believe, AbortIfExpired, Abort, SameWorker, SdkTypeOK, BeatsTyped
<1>2. CASE ResultStep(e)
  BY <1>2 DEF ResultStep, Finish, ResultServed, ResultAnswered, ResultFails, Reporting,
              SameWorker, SdkTypeOK
<1>3. CASE Acquire(e) \/ Stop(e) \/ Die(e) \/ Answer(e) \/ LateBeat(e) \/ LateResult(e)
  BY <1>3 DEF Acquire, Stop, Die, Answer, LateBeat, LateResult, SameWorker, SdkTypeOK
<1> QED BY <1>1, <1>2, <1>3 DEF DispatchStep

\* Clients and reapers leave them all alone.
LEMMA ElseAlone ==
  ASSUME Environment \/ UNCHANGED vars, NEW d \in Dispatch
  PROVE  SameWorker(d)
BY DEF Environment, vars, sdkVars, SameWorker

\* A grab informs the worker it is for,
LEMMA GrabSends ==
  ASSUME SdkInv, NEW j \in Job, GrabAndSend(j), NEW d \in Dispatch
  PROVE  /\ state'[d] = state[d] /\ beats'[d] = beats[d] /\ report'[d] = report[d]
         /\ due'[d] = due[d] /\ late' = late
         /\ IF d = <<j, minted[j] + 1>>
            THEN leaseExpiresAt'[d] = AckGrace
            ELSE leaseExpiresAt'[d] = leaseExpiresAt[d]
<1>1. minted'[j] = minted[j] + 1
  BY DEF GrabAndSend, Grab, SdkInv, IInv, TypeOK
<1>2. leaseExpiresAt' = [leaseExpiresAt EXCEPT ![<<j, minted[j] + 1>>] = AckGrace]
  BY <1>1 DEF GrabAndSend
<1> QED BY <1>2 DEF GrabAndSend, SdkInv, SdkTypeOK

\* and the clock changes instants only.
LEMMA ClockNears ==
  ASSUME SdkTypeOK, TimePasses, NEW d \in Dispatch
  PROVE  /\ state'[d] = state[d] /\ report'[d] = report[d] /\ late' = late
         /\ leaseExpiresAt'[d] = Later(leaseExpiresAt[d])
         /\ due'[d] = IF due[d] > 0 THEN due[d] - 1 ELSE 0
         /\ \A s \in Slot : /\ beats'[d][s].stage = beats[d][s].stage
                            /\ beats'[d][s].expiry = Later(beats[d][s].expiry)
<1>1. ASSUME NEW s \in Slot
      PROVE  /\ beats'[d][s].stage = beats[d][s].stage
             /\ beats'[d][s].expiry = Later(beats[d][s].expiry)
  <2>1. beats[d][s] \in [stage : Stages, expiry : Instants]
    BY DEF SdkTypeOK, BeatsTyped, Stages
  <2>2. beats'[d][s] = [beats[d][s] EXCEPT !.expiry = Later(beats[d][s].expiry)]
    BY DEF TimePasses
  <2> QED BY <2>1, <2>2
<1> QED BY <1>1 DEF TimePasses

-----------------------------------------------------------------------------
(* What the server told workers is true *)

\* Nothing happens to a dispatch before its token is handed out.
LEMMA BlankStays ==
  ASSUME SdkInv, [SdkNext]_vars, NEW d \in Dispatch, Blank(d)
  PROVE  d[2] <= minted'[d[1]] \/ Blank(d)'
<1>1. ASSUME SameWorker(d)
      PROVE  Blank(d)'
  BY <1>1 DEF Blank, SameWorker
<1>2. CASE DispatchStep(d)
  <2>1. \A s \in Slot : beats[d][s] = Idle
    <3>1. ASSUME NEW s \in Slot
          PROVE  beats[d][s] = Idle
      <4>1. /\ beats[d][s] \in [stage : Stages, expiry : Instants]
            /\ beats[d][s].stage = "idle" /\ beats[d][s].expiry = NULL
        BY DEF Blank, SdkInv, SdkTypeOK, BeatsTyped, Stages
      <4> QED BY <4>1 DEF Idle
    <3> QED BY <3>1
  <2>2. ~HeartbeatStep(d)
    BY <2>1 DEF Blank, Idle, HeartbeatStep, Fire, BeatUpdate, BeatRead, BeatAnswered,
                BeatFails
  <2>3. ~ResultStep(d)
    BY DEF Blank, ResultStep, Finish, ResultServed, ResultAnswered, ResultFails
  <2>4. ~(Acquire(d) \/ Stop(d) \/ Die(d) \/ Answer(d))
    BY DEF Blank, Acquire, Stop, Die, Answer
  <2>5. SameWorker(d)
    BY <1>2, <2>2, <2>3, <2>4 DEF DispatchStep, LateBeat, LateResult, SameWorker
  <2> QED BY <1>1, <2>5
<1>3. ASSUME NEW e \in Dispatch, DispatchStep(e), e # d
      PROVE  Blank(d)'
  BY <1>1, <1>3, OthersAlone DEF SdkInv
<1>4. ASSUME NEW j \in Job, GrabAndSend(j)
      PROVE  d[2] <= minted'[d[1]] \/ Blank(d)'
  <2>1. CASE d = <<j, minted[j] + 1>>
    <3>1. d[1] = j /\ d[2] = minted[j] + 1
      BY <2>1
    <3>2. minted'[j] = minted[j] + 1 /\ minted[j] \in Nat
      BY <1>4 DEF GrabAndSend, Grab, SdkInv, IInv, TypeOK
    <3> QED BY <3>1, <3>2
  <2>2. CASE d # <<j, minted[j] + 1>>
    BY <1>4, <2>2, GrabSends, <1>1 DEF SameWorker
  <2> QED BY <2>1, <2>2
<1>5. CASE TimePasses
  BY <1>5, ClockNears DEF Blank, Later, SdkInv
<1>6. CASE Environment \/ UNCHANGED vars
  BY <1>1, <1>6, ElseAlone
<1> QED BY <1>2, <1>3, <1>4, <1>5, <1>6 DEF SdkNext

\* So only dispatches that were sent have anything going on.
LEMMA OnlySentStep ==
  ASSUME SdkInv, [SdkNext]_vars
  PROVE  OnlySent'
<1>1. ASSUME NEW d \in Dispatch
      PROVE  d[2] <= minted'[d[1]] \/ Blank(d)'
  <2>1. CASE d[2] <= minted[d[1]]
    <3>1. /\ d[2] \in Nat /\ minted[d[1]] \in Nat
          /\ minted'[d[1]] \in Nat /\ minted'[d[1]] >= minted[d[1]]
      BY DispatchType, MintedGrows DEF SdkInv, IInv, TypeOK
    <3> QED BY <2>1, <3>1
  <2>2. CASE Blank(d)
    BY <2>2, BlankStays
  <2> QED BY <2>1, <2>2 DEF SdkInv, OnlySent
<1> QED BY <1>1 DEF OnlySent

\* A 409 comes from an UPDATE that found no row of the token's.
LEMMA GoneIsNew ==
  ASSUME SdkInv, [SdkNext]_vars, NEW d \in Dispatch, NEW s \in Slot,
         beats'[d][s].stage = "gone"
  PROVE  \/ beats[d][s].stage = "gone"
         \/ BeatUpdate(d, s) /\ ~Holds(d[1], d[2], Held)
<1> DEFINE Goal == \/ beats[d][s].stage = "gone"
                   \/ BeatUpdate(d, s) /\ ~Holds(d[1], d[2], Held)
<1>0. BeatsTyped
  BY DEF SdkInv, SdkTypeOK
<1>1. ASSUME SameWorker(d)
      PROVE  Goal
  BY <1>1 DEF SameWorker
<1>2. ASSUME NEW u \in Slot, NEW stage \in Stages \ {"gone"}, NEW expiry,
             Beat(d, u, stage, expiry)
      PROVE  Goal
  <2>1. /\ beats'[d][u] = [stage |-> stage, expiry |-> expiry]
        /\ u # s => beats'[d][s] = beats[d][s]
    BY <1>0, <1>2, BeatWrites
  <2>2. u # s
    BY <2>1
  <2> QED BY <2>1, <2>2
<1>3. CASE HeartbeatStep(d)
  <2>1. ASSUME Fire(d)
        PROVE  Goal
    BY <2>1, <1>2 DEF Fire, Stages
  <2>2. ASSUME NEW u \in Slot, BeatUpdate(d, u)
        PROVE  Goal
    <3>1. CASE Holds(d[1], d[2], Held)
      BY <2>2, <3>1, <1>2 DEF BeatUpdate, Stages
    <3>2. CASE ~Holds(d[1], d[2], Held) /\ u # s
      BY <1>0, <2>2, <3>2, BeatWrites DEF BeatUpdate
    <3> QED BY <2>2, <3>1, <3>2
  <2>3. ASSUME NEW u \in Slot, BeatRead(d, u) \/ BeatAnswered(d, u) \/ BeatFails(d, u)
        PROVE  Goal
    BY <2>3, <1>2 DEF BeatRead, BeatAnswered, BeatFails, Stages
  <2> QED BY <1>3, <2>1, <2>2, <2>3 DEF HeartbeatStep
<1>4. CASE DispatchStep(d) /\ ~HeartbeatStep(d)
  BY <1>4 DEF DispatchStep, ResultStep, Finish, ResultServed, ResultAnswered, ResultFails,
              Acquire, Stop, Die, Answer, LateBeat, LateResult
<1>5. ASSUME NEW e \in Dispatch, DispatchStep(e), e # d
      PROVE  Goal
  BY <1>1, <1>5, OthersAlone DEF SdkInv
<1>6. ASSUME NEW j \in Job, GrabAndSend(j)
      PROVE  Goal
  BY <1>6, GrabSends
<1>7. CASE TimePasses
  BY <1>7, ClockNears DEF SdkInv
<1>8. CASE Environment \/ UNCHANGED vars
  BY <1>1, <1>8, ElseAlone
<1> QED BY <1>3, <1>4, <1>5, <1>6, <1>7, <1>8 DEF SdkNext

\* So a 409 stays true.
LEMMA GoneStep ==
  ASSUME SdkInv, [SdkNext]_vars
  PROVE  GoneIsFinal'
<1>1. ASSUME NEW d \in Dispatch, NEW s \in Slot, beats'[d][s].stage = "gone"
      PROVE  jobs'[d[1]].lease_token # d[2]
  <2>1. CASE beats[d][s].stage = "gone"
    <3>1. d[2] <= minted[d[1]] /\ jobs[d[1]].lease_token # d[2]
      BY <2>1 DEF SdkInv, OnlySent, Blank, GoneIsFinal
    <3> QED BY <3>1, LostStaysLost DEF SdkInv
  <2>2. CASE BeatUpdate(d, s) /\ ~Holds(d[1], d[2], Held)
    <3>1. jobs' = jobs
      BY <2>2 DEF BeatUpdate, Heartbeat, Update
    <3> QED BY <2>2, <3>1, NotHeldIsLost DEF SdkInv
  <2> QED BY <1>1, <2>1, <2>2, GoneIsNew
<1> QED BY <1>1 DEF GoneIsFinal

\* A 200 comes from an UPDATE that found the token's row,
LEMMA TakenIsNew ==
  ASSUME SdkInv, [SdkNext]_vars, NEW d \in Dispatch,
         report'[d].stage \in {"ok", "delivered"}
  PROVE  \/ /\ report[d].stage \in {"ok", "delivered"}
            /\ report'[d].good = report[d].good
         \/ ResultServed(d) /\ Holds(d[1], d[2], Held)
<1> DEFINE Goal == \/ /\ report[d].stage \in {"ok", "delivered"}
                      /\ report'[d].good = report[d].good
                   \/ ResultServed(d) /\ Holds(d[1], d[2], Held)
<1>1. ASSUME report'[d] = report[d]
      PROVE  Goal
  BY <1>1
<1>2. CASE ResultStep(d)
  BY <1>2 DEF ResultStep, Finish, ResultServed, ResultAnswered, ResultFails, Reporting,
              SdkInv, SdkTypeOK
<1>3. CASE DispatchStep(d) /\ ~ResultStep(d)
  BY <1>1, <1>3 DEF DispatchStep, HeartbeatStep, Fire, BeatUpdate, BeatRead, BeatAnswered,
                    BeatFails, Acquire, Stop, Die, Answer, LateBeat, LateResult
<1>4. ASSUME NEW e \in Dispatch, DispatchStep(e), e # d
      PROVE  Goal
  BY <1>1, <1>4, OthersAlone DEF SdkInv, SameWorker
<1>5. ASSUME NEW j \in Job, GrabAndSend(j)
      PROVE  Goal
  BY <1>1, <1>5, GrabSends
<1>6. CASE TimePasses
  BY <1>1, <1>6 DEF TimePasses
<1>7. CASE Environment \/ UNCHANGED vars
  BY <1>1, <1>7, ElseAlone DEF SameWorker
<1> QED BY <1>2, <1>3, <1>4, <1>5, <1>6, <1>7 DEF SdkNext

\* and settled or released it.
LEMMA ServedIsTaken ==
  ASSUME SdkInv, NEW d \in Dispatch, ResultServed(d), Holds(d[1], d[2], Held)
  PROVE  Taken(d)'
<1>1. d[1] \in Job /\ d[2] \in Nat /\ d[2] # NULL /\ jobs[d[1]] \in Row
  BY DispatchType, RepositoryAssumption DEF SdkInv, IInv, TypeOK
<1>2. report'[d].good = report[d].good
  BY DEF ResultServed, Reporting, SdkInv, SdkTypeOK
<1>3. ASSUME report[d].good
      PROVE  Taken(d)'
  <2>1. Succeed(d[1], d[2])
    BY <1>3 DEF ResultServed, Result
  <2>2. jobs'[d[1]] = [Released(jobs[d[1]]) EXCEPT !.status = "succeeded", !.result = d[2]]
    BY <1>1, <2>1 DEF Succeed, Update, SdkInv, IInv, TypeOK
  <2> QED BY <1>1, <2>2 DEF Taken, Released, Row
<1>4. ASSUME ~report[d].good
      PROVE  Taken(d)'
  <2>1. Fail(d[1], d[2], TRUE)
    BY <1>4 DEF ResultServed, Result
  <2>2. \/ GivenBack(jobs'[d[1]], jobs[d[1]])
        \/ Closed(jobs'[d[1]], jobs[d[1]])
    <3>1. PICK delay \in BackoffDelays(jobs[d[1]].attempt) :
            jobs'[d[1]] =
              IF RetriesLeft(jobs[d[1]])
              THEN [Released(jobs[d[1]]) EXCEPT !.status = "queued", !.run_after = delay]
              ELSE [Released(jobs[d[1]]) EXCEPT !.status = "failed"]
      BY <1>1, <2>1 DEF Fail, Update, SdkInv, IInv, TypeOK
    <3>2. jobs[d[1]].status \in Held
      BY DEF Holds
    <3>3. CASE RetriesLeft(jobs[d[1]])
      BY <1>1, <3>1, <3>2, <3>3, RequeuedFields
    <3>4. CASE ~RetriesLeft(jobs[d[1]])
      BY <1>1, <3>1, <3>2, <3>4, FailedFields
    <3> QED BY <3>3, <3>4
  <2> QED BY <1>1, <1>2, <1>4, <2>2 DEF Taken, GivenBack, Closed
<1> QED BY <1>3, <1>4

\* So a 200 stays true.
LEMMA AnswersStep ==
  ASSUME SdkInv, [SdkNext]_vars
  PROVE  AnswersAreTrue'
<1>1. ASSUME NEW d \in Dispatch, report'[d].stage \in {"ok", "delivered"}
      PROVE  Taken(d)'
  <2>1. CASE report[d].stage \in {"ok", "delivered"} /\ report'[d].good = report[d].good
    <3>1. d[2] <= minted[d[1]] /\ Taken(d)
      BY <2>1 DEF SdkInv, OnlySent, Blank, AnswersAreTrue
    <3> QED BY <2>1, <3>1, TakenStays DEF SdkInv
  <2> QED BY <1>1, <2>1, TakenIsNew, ServedIsTaken
<1> QED BY <1>1 DEF AnswersAreTrue

\* Every step preserves the invariant,
LEMMA SdkStep ==
  ASSUME SdkInv, [SdkNext]_vars
  PROVE  SdkInv'
<1>1. IInv'
  BY ClientStep, NextInv DEF SdkInv
<1>2. SdkTypeOK'
  BY <1>1, TypeStep DEF SdkInv, IInv
<1> QED BY <1>1, <1>2, OnlySentStep, GoneStep, AnswersStep DEF SdkInv

\* and it holds at first.
LEMMA SdkStart == SdkInit => SdkInv
<1> SUFFICES ASSUME SdkInit
             PROVE  SdkInv
  OBVIOUS
<1>1. \A d \in Dispatch : Blank(d)
  BY DEF SdkInit, Blank, Idle
<1> QED BY <1>1, InitInv, InitTypes
        DEF SdkInv, SdkInit, OnlySent, Blank, GoneIsFinal, AnswersAreTrue

\* Types, and that what the server told a worker was and stays true, in every state
\* that workers, whatever they do late or twice, and the rest can bring about.
THEOREM SdkInvariance == SdkSpec => []SdkInv
BY SdkStart, SdkStep, PTL DEF SdkSpec

\* The variables of the workers and of what is under way keep their types.
THEOREM SdkTypes == SdkSpec => []SdkTypeOK
BY SdkInvariance, PTL DEF SdkInv

\* A worker that is told 409 has lost the job for good.
THEOREM GoneStaysGone == SdkSpec => []GoneIsFinal
BY SdkInvariance, PTL DEF SdkInv

\* A result that is called delivered was taken, and this worker's.
THEOREM DeliveredWasTaken == SdkSpec => []DeliveredIsTaken
<1>1. SdkInv => DeliveredIsTaken
  BY DEF SdkInv, AnswersAreTrue, DeliveredIsTaken
<1> QED BY <1>1, SdkInvariance, PTL

\* No late answer aborts a worker that has stopped.
THEOREM StopStaysFinal == SdkSpec => StopIsFinal
<1>1. ASSUME SdkInv, [SdkNext]_vars, NEW d \in Dispatch, state[d] = "stopped"
      PROVE  state'[d] = "stopped"
  <2>1. CASE DispatchStep(d)
    BY <1>1, <2>1 DEF DispatchStep, HeartbeatStep, Fire, BeatUpdate, BeatRead, BeatAnswered,
         BeatFails, AbortIfExpired, Abort, ResultStep, Finish, ResultServed,
         ResultAnswered, ResultFails, Acquire, Stop, Die, Answer, LateBeat, LateResult,
         SdkInv, SdkTypeOK
  <2>2. ASSUME NEW e \in Dispatch, DispatchStep(e), e # d
        PROVE  state'[d] = state[d]
    BY <1>1, <2>2, OthersAlone DEF SdkInv, SameWorker
  <2>3. ASSUME NEW j \in Job, GrabAndSend(j)
        PROVE  state'[d] = state[d]
    BY <2>3 DEF GrabAndSend
  <2>4. CASE TimePasses
    BY <1>1, <2>4 DEF TimePasses
  <2>5. CASE Environment \/ UNCHANGED vars
    BY <1>1, <2>5, ElseAlone DEF SameWorker
  <2> QED BY <1>1, <2>1, <2>2, <2>3, <2>4, <2>5 DEF SdkNext
<1>2. SdkInv /\ [SdkNext]_vars =>
        [\A d \in Dispatch : state[d] = "stopped" => state'[d] = "stopped"]_vars
  BY <1>1
<1> QED BY <1>2, SdkInvariance, PTL DEF SdkSpec, StopIsFinal

-----------------------------------------------------------------------------
(* What workers believe of their lease is covered by the table *)

\* What a step that is no grab, no tick and no heartbeat may do to a lease: leave
\* it, end it, or start it at the ack.
Unextended(k) ==
  \/ jobs'[k] = jobs[k]
  \/ jobs'[k].status \notin Held
  \/ /\ jobs[k].status = "dispatching"
     /\ jobs'[k].status = "running"
     /\ jobs'[k].lease_token = jobs[k].lease_token
     /\ jobs'[k].lease_expires_at = Lease

\* What a heartbeat does to it.
Extended(k) ==
  /\ jobs'[k].status = "running"
  /\ jobs'[k].lease_token = jobs[k].lease_token
  /\ jobs'[k].lease_expires_at = LeaseExtend

\* What an UPDATE by id may do.
LEMMA UpdatedRow ==
  ASSUME IInv, NEW j \in Job, NEW where \in BOOLEAN, NEW row, Update(j, where, row),
         NEW k \in Job
  PROVE  jobs'[k] = jobs[k] \/ (k = j /\ where /\ jobs'[k] = row)
<1>1. Others(j) /\ IF where THEN jobs'[j] = row ELSE jobs' = jobs
  BY UpdateOne
<1> QED BY <1>1 DEF Others

\* The calls that present a token do no more, except for a heartbeat,
LEMMA WriteExpiry ==
  ASSUME IInv, NEW j \in Job, NEW t, NEW k \in Job, Write(j, t)
  PROVE  Unextended(k)
<1>0. jobs[j] \in Row /\ Holds(j, t, {"dispatching"}) \in BOOLEAN
      /\ Holds(j, t, Held) \in BOOLEAN
  BY DEF IInv, TypeOK, Holds
<1>1. CASE Ack(j, t)
  <2>1. \/ jobs'[k] = jobs[k]
        \/ /\ k = j /\ Holds(j, t, {"dispatching"})
           /\ jobs'[k] = [jobs[j] EXCEPT !.status = "running", !.lease_expires_at = Lease]
    BY <1>0, <1>1, UpdatedRow DEF Ack
  <2> QED BY <1>0, <2>1 DEF Unextended, Row, Holds
<1>2. CASE Nack(j, t)
  <2>1. \/ jobs'[k] = jobs[k]
        \/ jobs'[k] = [Released(jobs[j]) EXCEPT !.status = "queued",
                                                !.run_after = NackBackoff]
        \/ jobs'[k] = [Released(jobs[j]) EXCEPT !.status = "failed"]
    BY <1>0, <1>2, UpdatedRow DEF Nack
  <2> QED BY <1>0, <2>1 DEF Unextended, Row, Released, Held
<1>3. CASE Reject(j, t)
  <2>1. \/ jobs'[k] = jobs[k]
        \/ jobs'[k] = [Released(jobs[j]) EXCEPT !.status = "failed"]
    BY <1>0, <1>3, UpdatedRow DEF Reject
  <2> QED BY <1>0, <2>1 DEF Unextended, Row, Released, Held
<1>4. CASE Succeed(j, t)
  <2>1. \/ jobs'[k] = jobs[k]
        \/ jobs'[k] = [Released(jobs[j]) EXCEPT !.status = "succeeded", !.result = t]
    BY <1>0, <1>4, UpdatedRow DEF Succeed
  <2> QED BY <1>0, <2>1 DEF Unextended, Row, Released, Held
<1>5. ASSUME NEW retryable \in BOOLEAN, Fail(j, t, retryable)
      PROVE  Unextended(k)
  <2> DEFINE row(delay) ==
        IF retryable /\ RetriesLeft(jobs[j])
        THEN [Released(jobs[j]) EXCEPT !.status = "queued", !.run_after = delay]
        ELSE [Released(jobs[j]) EXCEPT !.status = "failed"]
  <2>1. PICK delay \in BackoffDelays(jobs[j].attempt) :
          Update(j, Holds(j, t, Held), row(delay))
    BY <1>5 DEF Fail
  <2>2. row(delay).status \in {"queued", "failed"}
    BY <1>0 DEF Row, Released
  <2> HIDE DEF row
  <2>3. jobs'[k] = jobs[k] \/ jobs'[k] = row(delay)
    BY <1>0, <2>1, UpdatedRow
  <2> QED BY <2>2, <2>3 DEF Unextended, Held
<1> QED BY <1>1, <1>2, <1>3, <1>4, <1>5 DEF Write

\* which extends the lease of the token that has the row.
LEMMA HeartbeatExpiry ==
  ASSUME IInv, NEW j \in Job, NEW t, NEW k \in Job, Heartbeat(j, t, LeaseExtend)
  PROVE  jobs'[k] = jobs[k] \/ (k = j /\ jobs[j].lease_token = t /\ Extended(k))
<1>1. jobs[j] \in Row /\ Holds(j, t, Held) \in BOOLEAN
  BY DEF IInv, TypeOK, Holds
<1>2. \/ jobs'[k] = jobs[k]
      \/ /\ k = j /\ Holds(j, t, Held)
         /\ jobs'[k] = [jobs[j] EXCEPT !.status = "running",
                                       !.lease_expires_at = LeaseExtend]
  BY <1>1, UpdatedRow DEF Heartbeat
<1> QED BY <1>1, <1>2 DEF Extended, Row, Holds

\* Nothing else does that is no grab and no tick,
LEMMA ElseExpiry ==
  ASSUME IInv, NEW k \in Job,
         \/ \E j \in Job : Client(j)
         \/ \E r \in Reaper : Reap(r)
         \/ UNCHANGED repoVars
  PROVE  Unextended(k)
<1>1. ASSUME NEW j \in Job, Client(j)
      PROVE  Unextended(k)
  <2>1. ASSUME NEW q \in Queue, NEW m \in 0 .. MaxRetries, NEW d \in RunAfter,
               Enqueue(j, q, m, d)
        PROVE  Unextended(k)
    BY <2>1, EnqueueSteps DEF Others, Inserted, Unextended, Held
  <2>2. ASSUME Cancel(j)
        PROVE  Unextended(k)
    <3> DEFINE where == jobs[j].status \in Live
               row == [Released(jobs[j]) EXCEPT !.status = "cancelled"]
    <3>1. Update(j, where, row) /\ where \in BOOLEAN
      BY <2>2 DEF Cancel
    <3>2. where => row.status = "cancelled"
      BY DEF IInv, TypeOK, Row, Released
    <3> HIDE DEF where, row
    <3>3. jobs'[k] = jobs[k] \/ (where /\ jobs'[k] = row)
      BY <3>1, UpdatedRow
    <3> QED BY <3>2, <3>3 DEF Unextended, Held
  <2> QED BY <1>1, <2>1, <2>2 DEF Client
<1>2. ASSUME NEW r \in Reaper, Reap(r)
      PROVE  Unextended(k)
  <2>1. CASE ReapRequeue(r)
    BY <2>1, ReapRequeueSteps DEF GivenBack, Unextended, Held
  <2>2. CASE ReapFail(r)
    BY <2>2, ReapFailSteps DEF Closed, Unextended, Held
  <2>3. CASE ReapAbort(r)
    BY <2>3 DEF ReapAbort, Unextended
  <2> QED BY <1>2, <2>1, <2>2, <2>3 DEF Reap
<1>3. ASSUME UNCHANGED repoVars
      PROVE  Unextended(k)
  BY <1>3 DEF repoVars, Unextended
<1> QED BY <1>1, <1>2, <1>3

\* A heartbeat of d is served.
ServesBeat(d) == LateBeat(d) \/ \E s \in Slot : BeatUpdate(d, s)

\* A step that is no grab and no tick.
RowStep ==
  \/ \E e \in Dispatch : DispatchStep(e)
  \/ Environment
  \/ UNCHANGED vars

\* so that a lease is extended by its own heartbeats only.
LEMMA TableExpiry ==
  ASSUME SdkInv, RowStep, NEW d \in Dispatch, jobs[d[1]].lease_token = d[2]
  PROVE  Unextended(d[1]) \/ (ServesBeat(d) /\ Extended(d[1]))
<1>0. IInv /\ d[1] \in Job
  BY DispatchType DEF SdkInv
<1>1. ASSUME NEW e \in Dispatch, DispatchStep(e)
      PROVE  Unextended(d[1]) \/ (ServesBeat(d) /\ Extended(d[1]))
  <2>0. e[1] \in Job
    BY DispatchType
  <2>1. \/ UNCHANGED repoVars
        \/ Write(e[1], e[2])
        \/ ServesBeat(e) /\ Heartbeat(e[1], e[2], LeaseExtend)
    BY <1>1 DEF DispatchStep, HeartbeatStep, Fire, BeatUpdate, BeatRead, BeatAnswered,
         BeatFails, ResultStep, Finish, ResultServed, ResultAnswered, ResultFails, Result,
         Acquire, Stop, Die, Answer, LateBeat, LateResult, Write, ServesBeat
  <2>2. CASE UNCHANGED repoVars
    BY <1>0, <2>2, ElseExpiry
  <2>3. CASE Write(e[1], e[2])
    BY <1>0, <2>0, <2>3, WriteExpiry
  <2>4. CASE ServesBeat(e) /\ Heartbeat(e[1], e[2], LeaseExtend)
    <3>1. \/ jobs'[d[1]] = jobs[d[1]]
          \/ d[1] = e[1] /\ jobs[e[1]].lease_token = e[2] /\ Extended(d[1])
      BY <1>0, <2>0, <2>4, HeartbeatExpiry
    <3>2. CASE d[1] = e[1] /\ jobs[e[1]].lease_token = e[2] /\ Extended(d[1])
      <4>1. e = d
        BY <3>2, DispatchType
      <4> QED BY <2>4, <3>2, <4>1
    <3> QED BY <3>1, <3>2 DEF Unextended
  <2> QED BY <2>1, <2>2, <2>3, <2>4
<1>2. CASE Environment \/ UNCHANGED vars
  BY <1>0, <1>2, ElseExpiry DEF Environment, vars
<1> QED BY <1>1, <1>2 DEF RowStep

\* What a grab does to a lease,
LEMMA GrabExpiry ==
  ASSUME IInv, NEW j \in Job, GrabAndSend(j), NEW k \in Job
  PROVE  IF k = j THEN /\ jobs'[k].lease_token = minted[j] + 1
                       /\ jobs'[k].lease_expires_at = AckGrace
                  ELSE jobs'[k] = jobs[k]
<1>1. jobs[j] \in Row
  BY DEF IInv, TypeOK
<1>2. jobs' = [jobs EXCEPT ![j] =
        [jobs[j] EXCEPT !.status = "dispatching", !.attempt = jobs[j].attempt + 1,
                        !.lease_token = minted[j] + 1, !.lease_expires_at = AckGrace]]
  BY DEF GrabAndSend, Grab
<1> QED BY <1>1, <1>2 DEF IInv, TypeOK, Row

\* and what a tick does.
LEMMA TickExpiry ==
  ASSUME IInv, Tick, NEW k \in Job
  PROVE  /\ jobs'[k].status = jobs[k].status
         /\ jobs'[k].lease_token = jobs[k].lease_token
         /\ jobs'[k].lease_expires_at = Later(jobs[k].lease_expires_at)
<1>1. jobs[k] \in Row /\ jobs'[k] = Elapse(jobs[k])
  BY DEF IInv, TypeOK, Tick
<1>2. Elapse(jobs[k]).lease_expires_at =
        IF jobs[k].lease_expires_at \in {NULL, Expired} THEN jobs[k].lease_expires_at
                                         ELSE jobs[k].lease_expires_at - 1
  BY <1>1 DEF Elapse, Row
<1>3. /\ Elapse(jobs[k]).status = jobs[k].status
      /\ Elapse(jobs[k]).lease_token = jobs[k].lease_token
  BY <1>1 DEF Elapse, Row
<1> QED BY <1>1, <1>2, <1>3 DEF Later

\* The expiry of a lease is a number.
LEMMA HeldExpiry ==
  ASSUME IInv, NEW k \in Job
  PROVE  IF jobs[k].status \in Held THEN jobs[k].lease_expires_at \in Nat \cup {Expired}
                                    ELSE jobs[k].lease_token = NULL
BY DEF IInv, RowInv, LeaseColumnsAgree, Row

\* No more than Slack is lost at the ack and at the first heartbeat.
LEMMA SlackIsLoss ==
  /\ Slack \in Nat /\ FirstBeat \in Int
  /\ AckGrace <= Lease + Slack
  /\ FirstBeat <= LeaseExtend + Slack
<1> DEFINE ack  == AckGrace - Lease
           beat == FirstBeat - LeaseExtend
           S    == {0, ack, beat}
<1>1. FirstBeat \in Int /\ ack \in Int /\ beat \in Int
  BY IntervalType, ExtendIsNat, RepositoryAssumption DEF FirstBeat
<1> HIDE DEF ack, beat
<1>2. \E x \in S : \A y \in S : x >= y
  BY <1>1
<1>3. Max(S) \in S /\ \A y \in S : Max(S) >= y
  BY <1>2 DEF Max
<1>4. Slack = Max(S)
  BY DEF Slack, ack, beat
<1>5. Slack \in Nat /\ Slack >= ack /\ Slack >= beat
  BY <1>1, <1>3, <1>4
<1> QED BY <1>1, <1>5, ExtendIsNat, RepositoryAssumption DEF ack, beat

\* A worker that acquires the job later has less left at its first heartbeat.
LEMMA LaterIsLess ==
  ASSUME NEW window \in Nat \cup {Expired}, window <= AckGrace
  PROVE  window - Interval(window) <= FirstBeat
<1>1. AckGrace \in Nat /\ MinInterval \in Nat /\ HeartbeatInterval \in Nat
      /\ window \in Int
  BY RepositoryAssumption, SdkAssumption DEF Expired
<1>2. Interval(window) \in Nat /\ Interval(AckGrace) \in Nat
  BY <1>1, IntervalType
<1>3. window - (window \div 3) <= AckGrace - (AckGrace \div 3)
  BY <1>1
<1>4. window \div 3 \in Int /\ AckGrace \div 3 \in Int
  BY <1>1
<1>5. /\ Interval(window) >= MinInterval
      /\ Interval(window) >= HeartbeatInterval
      /\ Interval(window) >= window \div 3
      /\ Interval(AckGrace) \in {MinInterval, HeartbeatInterval, AckGrace \div 3}
  BY <1>1, IntervalIsMax
<1> QED BY <1>1, <1>2, <1>3, <1>4, <1>5 DEF FirstBeat

\* Covered after the step.
StillCovered(d, instant) ==
  jobs'[d[1]].lease_token = d[2] =>
    /\ instant <= jobs'[d[1]].lease_expires_at + Slack
    /\ jobs'[d[1]].status = "dispatching" => instant <= AckGrace

\* A dispatch that has the job had it before the step, in a held row.
LEMMA StillHeld ==
  ASSUME SdkInv, SdkInv', [SdkNext]_vars,
         NEW d \in Dispatch, d[2] <= minted[d[1]], jobs'[d[1]].lease_token = d[2]
  PROVE  /\ jobs[d[1]].lease_token = d[2]
         /\ jobs[d[1]].status \in Held /\ jobs'[d[1]].status \in Held
         /\ jobs[d[1]].lease_expires_at \in Nat \cup {Expired}
         /\ jobs'[d[1]].lease_expires_at \in Nat \cup {Expired}
<1>0. /\ IInv /\ IInv' /\ d[1] \in Job /\ d[2] \in Nat /\ d[2] # NULL
  BY RepositoryAssumption, DispatchType DEF SdkInv
<1>1. jobs[d[1]].lease_token = d[2]
  BY <1>0, LostStaysLost
<1>2. jobs[d[1]].status \in Held /\ jobs'[d[1]].status \in Held
  BY <1>0, <1>1 DEF IInv, RowInv, LeaseColumnsAgree
<1>3. jobs[d[1]].lease_expires_at \in Nat \cup {Expired}
  BY <1>0, <1>2, HeldExpiry
<1>4. jobs'[d[1]].lease_expires_at \in Nat \cup {Expired}
  BY <1>0, <1>2 DEF IInv, RowInv, LeaseColumnsAgree, TypeOK, Row
<1> QED BY <1>1, <1>2, <1>3, <1>4

\* What is covered stays covered, whoever writes the row,
LEMMA CoveredStays ==
  ASSUME SdkInv, SdkInv', [SdkNext]_vars,
         RowStep \/ \E j \in Job : GrabAndSend(j),
         NEW d \in Dispatch, d[2] <= minted[d[1]],
         NEW instant \in Nat \cup {Expired}, Covered(d, instant),
         ServesBeat(d) /\ jobs[d[1]].lease_token = d[2]
           => instant <= LeaseExtend + Slack
  PROVE  StillCovered(d, instant)
<1>0. /\ AckGrace \in Nat /\ Lease \in Nat /\ LeaseExtend \in Nat /\ IInv
      /\ d[1] \in Job /\ instant \in Int /\ Slack \in Nat
  BY ExtendIsNat, RepositoryAssumption, DispatchType, SlackIsLoss DEF SdkInv, Expired
<1> SUFFICES ASSUME jobs'[d[1]].lease_token = d[2]
             PROVE  /\ instant <= jobs'[d[1]].lease_expires_at + Slack
                    /\ jobs'[d[1]].status = "dispatching" => instant <= AckGrace
  BY DEF StillCovered
<1>1. /\ jobs[d[1]].lease_token = d[2]
      /\ jobs'[d[1]].status \in Held
      /\ jobs[d[1]].lease_expires_at \in Nat \cup {Expired}
  BY StillHeld
<1>2. /\ instant <= jobs[d[1]].lease_expires_at + Slack
      /\ jobs[d[1]].status = "dispatching" => instant <= AckGrace
  BY <1>1 DEF Covered
<1>3. CASE jobs'[d[1]] = jobs[d[1]]
  BY <1>2, <1>3
<1>4. CASE RowStep
  <2>1. Unextended(d[1]) \/ (ServesBeat(d) /\ Extended(d[1]))
    BY <1>1, <1>4, TableExpiry
  <2>2. CASE /\ jobs[d[1]].status = "dispatching"
             /\ jobs'[d[1]].status = "running"
             /\ jobs'[d[1]].lease_expires_at = Lease
    BY <1>0, <1>2, <2>2, SlackIsLoss
  <2>3. CASE ServesBeat(d) /\ Extended(d[1])
    BY <1>0, <1>1, <2>3 DEF Extended
  <2> QED BY <1>1, <1>3, <2>1, <2>2, <2>3 DEF Unextended
<1>5. ASSUME NEW j \in Job, GrabAndSend(j)
      PROVE  jobs'[d[1]] = jobs[d[1]]
  <2>1. d[2] # minted[d[1]] + 1
    BY <1>0, DispatchType DEF IInv, TypeOK
  <2> QED BY <1>0, <1>5, <2>1, GrabExpiry
<1> QED BY <1>3, <1>4, <1>5

\* and as time passes.
LEMMA CoveredLater ==
  ASSUME SdkInv, TimePasses, NEW d \in Dispatch,
         NEW instant \in Nat \cup {Expired}, Covered(d, instant)
  PROVE  StillCovered(d, Later(instant))
<1>0. /\ LeaseExtend \in Nat /\ AckGrace \in Nat /\ Slack \in Nat /\ NULL \notin Int
      /\ IInv /\ d[1] \in Job /\ d[2] \in Nat /\ d[2] # NULL
  BY ExtendIsNat, RepositoryAssumption, SlackIsLoss, DispatchType DEF SdkInv
<1>1. /\ jobs'[d[1]].status = jobs[d[1]].status
      /\ jobs'[d[1]].lease_token = jobs[d[1]].lease_token
      /\ jobs'[d[1]].lease_expires_at = Later(jobs[d[1]].lease_expires_at)
  BY <1>0, TickExpiry DEF TimePasses
<1> SUFFICES ASSUME jobs[d[1]].lease_token = d[2]
             PROVE  StillCovered(d, Later(instant))
  BY <1>1 DEF StillCovered
<1>2. jobs[d[1]].lease_expires_at \in Nat \cup {Expired}
  BY <1>0, HeldExpiry
<1>3. /\ instant <= jobs[d[1]].lease_expires_at + Slack
      /\ jobs[d[1]].status = "dispatching" => instant <= AckGrace
  BY DEF Covered
<1>4. Later(instant) <= instant /\ Later(instant) \in Nat \cup {Expired}
  BY <1>0 DEF Later, Expired
<1>5. Later(instant) <= Later(jobs[d[1]].lease_expires_at) + Slack
  BY <1>0, <1>2, <1>3 DEF Later, Expired
<1> QED BY <1>0, <1>1, <1>3, <1>4, <1>5 DEF StillCovered, Expired

\* A worker believes what it believed or what an answer said, and an answer says
\* what it said or what is read in the table now.
LEMMA BeliefsAreTold ==
  ASSUME SdkInv, NEW d \in Dispatch, DispatchStep(d)
  PROVE  /\ \/ leaseExpiresAt'[d] = leaseExpiresAt[d]
            \/ \E s \in Slot : /\ beats[d][s].expiry # NULL
                               /\ leaseExpiresAt'[d] = beats[d][s].expiry
         /\ \A s \in Slot :
              \/ beats'[d][s].expiry \in {beats[d][s].expiry, NULL}
              \/ /\ beats'[d][s].expiry = ToISO(jobs[d[1]].lease_expires_at)
                 /\ UNCHANGED repoVars
                 /\ BeatRead(d, s)
<1> DEFINE Told == \/ leaseExpiresAt'[d] = leaseExpiresAt[d]
                   \/ \E s \in Slot : /\ beats[d][s].expiry # NULL
                                      /\ leaseExpiresAt'[d] = beats[d][s].expiry
           Said == \A s \in Slot :
                     \/ beats'[d][s].expiry \in {beats[d][s].expiry, NULL}
                     \/ /\ beats'[d][s].expiry = ToISO(jobs[d[1]].lease_expires_at)
                        /\ UNCHANGED repoVars
                        /\ BeatRead(d, s)
<1>0. BeatsTyped
  BY DEF SdkInv, SdkTypeOK
<1>1. ASSUME NEW s \in Slot, NEW stage, NEW expiry, Beat(d, s, stage, expiry),
             \/ expiry = NULL
             \/ expiry = ToISO(jobs[d[1]].lease_expires_at) /\ UNCHANGED repoVars
                /\ BeatRead(d, s)
      PROVE  Said
  <2>1. /\ beats'[d][s] = [stage |-> stage, expiry |-> expiry]
        /\ \A u \in Slot : u # s => beats'[d][u] = beats[d][u]
    BY <1>0, <1>1, BeatWrites
  <2> QED BY <1>1, <2>1
<1>2. CASE HeartbeatStep(d)
  <2>1. CASE Fire(d)
    BY <1>1, <2>1 DEF Fire
  <2>2. ASSUME NEW s \in Slot, BeatUpdate(d, s)
        PROVE  Told /\ Said
    BY <1>1, <2>2 DEF BeatUpdate
  <2>3. ASSUME NEW s \in Slot, BeatRead(d, s)
        PROVE  Told /\ Said
    BY <1>1, <2>3 DEF BeatRead
  <2>4. ASSUME NEW s \in Slot, BeatFails(d, s)
        PROVE  Told /\ Said
    BY <1>1, <2>4 DEF BeatFails
  <2>5. ASSUME NEW s \in Slot, BeatAnswered(d, s)
        PROVE  Told /\ Said
    <3>1. Said
      BY <1>1, <2>5 DEF BeatAnswered
    <3>2. Told
      BY <1>0, <2>5 DEF BeatAnswered, Believe, SdkInv, SdkTypeOK, BeatsTyped
    <3> QED BY <3>1, <3>2
  <2> QED BY <1>2, <2>1, <2>2, <2>3, <2>4, <2>5 DEF HeartbeatStep
<1>3. CASE DispatchStep(d) /\ ~HeartbeatStep(d)
  BY <1>3 DEF DispatchStep, ResultStep, Finish, ResultServed, ResultAnswered, ResultFails,
              Acquire, Stop, Die, Answer, LateBeat, LateResult
<1> QED BY <1>2, <1>3

\* What a heartbeat reads of its own lease is covered by it.
LEMMA ReadIsCovered ==
  ASSUME SdkInv, UpdatesAreKept, NEW d \in Dispatch, NEW s \in Slot, BeatRead(d, s)
  PROVE  StillCovered(d, ToISO(jobs[d[1]].lease_expires_at))
<1>0. /\ LeaseExtend \in Nat /\ Slack \in Nat /\ IInv /\ NULL \notin Int
      /\ d[1] \in Job /\ d[2] \in Nat
  BY ExtendIsNat, RepositoryAssumption, SlackIsLoss, DispatchType DEF SdkInv
<1>1. beats[d][s].stage = "updated" /\ jobs' = jobs
  BY DEF BeatRead, repoVars
<1> SUFFICES ASSUME jobs[d[1]].lease_token = d[2]
             PROVE  StillCovered(d, ToISO(jobs[d[1]].lease_expires_at))
  BY <1>1 DEF StillCovered
<1>2. jobs[d[1]].status = "running" /\ jobs[d[1]].lease_expires_at <= LeaseExtend
  BY <1>1 DEF UpdatesAreKept
<1>3. jobs[d[1]].lease_expires_at \in Nat \cup {Expired}
  BY <1>0, <1>2, HeldExpiry DEF Held
<1>4. ToISO(jobs[d[1]].lease_expires_at) = jobs[d[1]].lease_expires_at
  BY <1>0, <1>3 DEF ToISO, Expired
<1> QED BY <1>0, <1>1, <1>2, <1>3, <1>4 DEF StillCovered, Expired

\* What a worker believes, and what is on its way to it, is covered after the step.
WorkerCovered(d) ==
  /\ state'[d] = "working" => leaseExpiresAt'[d] # NULL
  /\ leaseExpiresAt'[d] # NULL => StillCovered(d, leaseExpiresAt'[d])
  /\ \A s \in Slot :
       beats'[d][s].expiry # NULL => StillCovered(d, beats'[d][s].expiry)

\* Every step sees to that,
LEMMA PromisesStep ==
  ASSUME SdkInv, SdkInv', BeliefInv, [SdkNext]_vars, NEW d \in Dispatch
  PROVE  WorkerCovered(d)
<1>0. /\ SdkTypeOK /\ UpdatesAreKept /\ NULL \notin Int /\ AckGrace \in Nat
      /\ Slack \in Nat
  BY SlackIsLoss, RepositoryAssumption DEF SdkInv, BeliefInv
<1>1. /\ state[d] = "working" => leaseExpiresAt[d] # NULL
      /\ leaseExpiresAt[d] # NULL => /\ leaseExpiresAt[d] \in Nat \cup {Expired}
                                     /\ Covered(d, leaseExpiresAt[d])
                                     /\ d[2] <= minted[d[1]]
  <2>1. leaseExpiresAt[d] \in Instants
    BY DEF SdkInv, SdkTypeOK
  <2>2. leaseExpiresAt[d] # NULL => d[2] <= minted[d[1]]
    BY DEF SdkInv, OnlySent, Blank
  <2> QED BY <2>1, <2>2 DEF BeliefInv, PromisesCovered, Instants
<1>2. ASSUME NEW s \in Slot, beats[d][s].expiry # NULL
      PROVE  /\ beats[d][s].expiry \in Nat \cup {Expired}
             /\ Covered(d, beats[d][s].expiry)
             /\ d[2] <= minted[d[1]]
  <2>1. beats[d][s].stage = "ok" /\ beats[d][s].expiry \in Instants
    BY <1>2 DEF SdkInv, SdkTypeOK, BeatsTyped
  <2> QED BY <1>2, <2>1
          DEF BeliefInv, PromisesCovered, SdkInv, OnlySent, Blank, Instants
<1>3. ASSUME RowStep \/ \E j \in Job : GrabAndSend(j)
      PROVE  /\ leaseExpiresAt[d] # NULL => StillCovered(d, leaseExpiresAt[d])
             /\ \A s \in Slot :
                  beats[d][s].expiry # NULL => StillCovered(d, beats[d][s].expiry)
  <2>1. ASSUME ServesBeat(d), jobs[d[1]].lease_token = d[2], leaseExpiresAt[d] # NULL
        PROVE  leaseExpiresAt[d] <= LeaseExtend + Slack
    <3>1. ~BeforeBeats(d)
      BY <2>1 DEF ServesBeat, LateBeat, BeatUpdate, BeforeBeats
    <3> QED BY <2>1, <3>1 DEF BeliefInv, BeatsComeNear
  <2>2. ASSUME NEW s \in Slot, beats[d][s].expiry # NULL, jobs[d[1]].lease_token = d[2]
        PROVE  beats[d][s].expiry <= LeaseExtend + Slack
    <3>1. beats[d][s].expiry \in Int /\ beats[d][s].expiry <= LeaseExtend
      BY <1>2, <2>2 DEF BeliefInv, BeatsComeNear, Expired
    <3> QED BY <1>0, <3>1, ExtendIsNat
  <2> QED BY <1>0, <1>1, <1>2, <1>3, <2>1, <2>2, CoveredStays
<1>4. ASSUME SameWorker(d), RowStep
      PROVE  WorkerCovered(d)
  BY <1>1, <1>3, <1>4 DEF SameWorker, WorkerCovered
<1>5. CASE DispatchStep(d)
  <2>1. RowStep
    BY <1>5 DEF RowStep
  <2>2. state'[d] = "working" => state[d] = "working" \/ Acquire(d)
    BY <1>0, <1>5 DEF DispatchStep, HeartbeatStep, Fire, BeatUpdate, BeatRead, BeatAnswered,
         BeatFails, AbortIfExpired, Abort, ResultStep, Finish, ResultServed,
         ResultAnswered, ResultFails, Stop, Die, Answer, LateBeat, LateResult, SdkTypeOK
  <2>3. /\ \/ leaseExpiresAt'[d] = leaseExpiresAt[d]
           \/ \E s \in Slot : /\ beats[d][s].expiry # NULL
                              /\ leaseExpiresAt'[d] = beats[d][s].expiry
        /\ \A s \in Slot :
             \/ beats'[d][s].expiry \in {beats[d][s].expiry, NULL}
             \/ /\ beats'[d][s].expiry = ToISO(jobs[d[1]].lease_expires_at)
                /\ BeatRead(d, s)
    BY <1>5, BeliefsAreTold
  <2>4. state'[d] = "working" => leaseExpiresAt'[d] # NULL
    BY <1>1, <2>2, <2>3 DEF Acquire
  <2>5. leaseExpiresAt'[d] # NULL => StillCovered(d, leaseExpiresAt'[d])
    BY <1>3, <2>1, <2>3
  <2>6. ASSUME NEW s \in Slot, beats'[d][s].expiry # NULL
        PROVE  StillCovered(d, beats'[d][s].expiry)
    <3>1. CASE beats'[d][s].expiry = beats[d][s].expiry
      BY <1>3, <2>1, <2>6, <3>1
    <3>2. CASE /\ beats'[d][s].expiry = ToISO(jobs[d[1]].lease_expires_at)
               /\ BeatRead(d, s)
      BY <1>0, <3>2, ReadIsCovered DEF SdkInv
    <3> QED BY <2>3, <2>6, <3>1, <3>2
  <2> QED BY <2>4, <2>5, <2>6 DEF WorkerCovered
<1>6. ASSUME NEW e \in Dispatch, DispatchStep(e), e # d
      PROVE  WorkerCovered(d)
  BY <1>0, <1>4, <1>6, OthersAlone DEF RowStep
<1>7. ASSUME NEW j \in Job, GrabAndSend(j)
      PROVE  WorkerCovered(d)
  <2>1. CASE d = <<j, minted[j] + 1>>
    <3>1. d[1] = j /\ d[2] = minted[j] + 1 /\ minted[j] \in Nat
      BY <2>1 DEF SdkInv, IInv, TypeOK
    <3>2. ~(d[2] <= minted[d[1]])
      BY <3>1
    <3>3. /\ state'[d] = state[d] /\ beats'[d] = beats[d]
          /\ leaseExpiresAt'[d] = AckGrace
      BY <1>7, <2>1, GrabSends
    <3>4. jobs'[d[1]].lease_expires_at = AckGrace
      BY <1>7, <3>1, GrabExpiry DEF SdkInv
    <3>5. StillCovered(d, AckGrace)
      BY <1>0, <3>4 DEF StillCovered
    <3> QED BY <1>0, <1>2, <3>2, <3>3, <3>5 DEF WorkerCovered
  <2>2. CASE d # <<j, minted[j] + 1>>
    BY <1>1, <1>3, <1>7, <2>2, GrabSends DEF WorkerCovered
  <2> QED BY <2>1, <2>2
<1>8. CASE TimePasses
  <2>1. /\ state'[d] = state[d] /\ leaseExpiresAt'[d] = Later(leaseExpiresAt[d])
        /\ \A s \in Slot : beats'[d][s].expiry = Later(beats[d][s].expiry)
    BY <1>0, <1>8, ClockNears
  <2>2. /\ Later(NULL) = NULL
        /\ \A instant \in Nat \cup {Expired} : Later(instant) # NULL
    BY <1>0 DEF Later, Expired
  <2>3. leaseExpiresAt[d] # NULL => StillCovered(d, leaseExpiresAt'[d])
    BY <1>1, <1>8, <2>1, CoveredLater
  <2>4. ASSUME NEW s \in Slot, beats[d][s].expiry # NULL
        PROVE  StillCovered(d, beats'[d][s].expiry)
    BY <1>2, <1>8, <2>1, <2>4, CoveredLater
  <2> QED BY <1>1, <2>1, <2>2, <2>3, <2>4 DEF WorkerCovered
<1>9. CASE Environment \/ UNCHANGED vars
  BY <1>4, <1>9, ElseAlone DEF RowStep
<1> QED BY <1>5, <1>6, <1>7, <1>8, <1>9 DEF SdkNext

\* A heartbeat that has updated the row finds it as it left it, or lost, ...
UpdateKept(d, s) ==
  beats'[d][s].stage = "updated" /\ jobs'[d[1]].lease_token = d[2] =>
    /\ jobs'[d[1]].status = "running"
    /\ jobs'[d[1]].lease_expires_at <= LeaseExtend

\* when it does so,
LEMMA BeatUpdateKeeps ==
  ASSUME SdkInv, NEW d \in Dispatch, NEW s \in Slot, BeatUpdate(d, s)
  PROVE  UpdateKept(d, s)
<1>0. /\ IInv /\ BeatsTyped /\ d[1] \in Job /\ jobs[d[1]] \in Row /\ LeaseExtend \in Nat
      /\ jobs \in [Job -> Row] /\ d[2] \in Nat /\ d[2] # NULL
  BY ExtendIsNat, DispatchType, RepositoryAssumption DEF SdkInv, SdkTypeOK, IInv, TypeOK
<1>1. CASE Holds(d[1], d[2], Held)
  <2>1. jobs' = [jobs EXCEPT ![d[1]] = [jobs[d[1]] EXCEPT !.status = "running",
                                          !.lease_expires_at = LeaseExtend]]
    BY <1>1 DEF BeatUpdate, Heartbeat, Update
  <2>2. jobs'[d[1]] = [jobs[d[1]] EXCEPT !.status = "running",
                                         !.lease_expires_at = LeaseExtend]
    BY <1>0, <2>1
  <2> QED BY <1>0, <2>2 DEF UpdateKept, Row
<1>2. CASE ~Holds(d[1], d[2], Held)
  <2>1. beats'[d][s] = [stage |-> "gone", expiry |-> NULL]
    BY <1>0, <1>2, BeatWrites DEF BeatUpdate
  <2> QED BY <2>1 DEF UpdateKept
<1> QED BY <1>1, <1>2

\* and from then on.
LEMMA UpdatesStep ==
  ASSUME SdkInv, SdkInv', UpdatesAreKept, [SdkNext]_vars, NEW d \in Dispatch, NEW s \in Slot
  PROVE  UpdateKept(d, s)
<1>0. /\ IInv /\ SdkTypeOK /\ BeatsTyped /\ d[1] \in Job /\ LeaseExtend \in Nat
  BY ExtendIsNat, DispatchType DEF SdkInv, SdkTypeOK
<1> SUFFICES ASSUME beats'[d][s].stage = "updated", jobs'[d[1]].lease_token = d[2],
                    ~BeatUpdate(d, s)
             PROVE  UpdateKept(d, s)
  BY BeatUpdateKeeps DEF UpdateKept
<1>1. beats[d][s].stage = "updated"
  <2>1. ASSUME NEW u \in Slot, NEW stage, NEW expiry, Beat(d, u, stage, expiry),
               u = s => stage # "updated"
        PROVE  beats[d][s].stage = "updated"
    <3>1. /\ beats'[d][u] = [stage |-> stage, expiry |-> expiry]
          /\ \A w \in Slot : w # u => beats'[d][w] = beats[d][w]
      BY <1>0, <2>1, BeatWrites
    <3> QED BY <2>1, <3>1
  <2>2. CASE HeartbeatStep(d)
    <3>1. CASE Fire(d)
      BY <2>1, <3>1 DEF Fire
    <3>2. ASSUME NEW u \in Slot, BeatUpdate(d, u)
          PROVE  beats[d][s].stage = "updated"
      BY <2>1, <3>2 DEF BeatUpdate
    <3>3. ASSUME NEW u \in Slot, BeatRead(d, u) \/ BeatAnswered(d, u) \/ BeatFails(d, u)
          PROVE  beats[d][s].stage = "updated"
      BY <2>1, <3>3 DEF BeatRead, BeatAnswered, BeatFails
    <3> QED BY <2>2, <3>1, <3>2, <3>3 DEF HeartbeatStep
  <2>3. CASE DispatchStep(d) /\ ~HeartbeatStep(d)
    BY <2>3 DEF DispatchStep, ResultStep, Finish, ResultServed, ResultAnswered, ResultFails,
                Acquire, Stop, Die, Answer, LateBeat, LateResult
  <2>4. ASSUME NEW e \in Dispatch, DispatchStep(e), e # d
        PROVE  beats'[d] = beats[d]
    BY <1>0, <2>4, OthersAlone DEF SameWorker
  <2>5. ASSUME NEW j \in Job, GrabAndSend(j)
        PROVE  beats'[d] = beats[d]
    BY <2>5 DEF GrabAndSend
  <2>6. CASE TimePasses
    BY <1>0, <2>6, ClockNears
  <2>7. CASE Environment \/ UNCHANGED vars
    BY <2>7, ElseAlone DEF SameWorker
  <2> QED BY <2>2, <2>3, <2>4, <2>5, <2>6, <2>7 DEF SdkNext
<1>2. d[2] <= minted[d[1]]
  BY <1>1 DEF SdkInv, OnlySent, Blank
<1>3. /\ jobs[d[1]].lease_token = d[2]
      /\ jobs[d[1]].status \in Held /\ jobs'[d[1]].status \in Held
      /\ jobs[d[1]].lease_expires_at \in Nat \cup {Expired}
  BY <1>2, StillHeld
<1>4. jobs[d[1]].status = "running" /\ jobs[d[1]].lease_expires_at <= LeaseExtend
  BY <1>1, <1>3 DEF UpdatesAreKept
<1>5. CASE RowStep
  <2>1. Unextended(d[1]) \/ Extended(d[1])
    BY <1>3, <1>5, TableExpiry
  <2> QED BY <1>0, <1>3, <1>4, <2>1 DEF Unextended, Extended, UpdateKept
<1>6. ASSUME NEW j \in Job, GrabAndSend(j)
      PROVE  UpdateKept(d, s)
  <2>1. d[2] # minted[d[1]] + 1
    BY <1>0, <1>2, DispatchType DEF IInv, TypeOK
  <2> QED BY <1>0, <1>4, <1>6, <2>1, GrabExpiry DEF UpdateKept
<1>7. CASE TimePasses
  <2>1. /\ jobs'[d[1]].status = jobs[d[1]].status
        /\ jobs'[d[1]].lease_expires_at = Later(jobs[d[1]].lease_expires_at)
    BY <1>0, <1>7, TickExpiry DEF TimePasses
  <2> QED BY <1>0, <1>3, <1>4, <2>1, RepositoryAssumption DEF UpdateKept, Later, Expired
<1> QED BY <1>5, <1>6, <1>7 DEF SdkNext, RowStep

\* No later than a worker relies on when its first heartbeat is due, after the step.
Near(d) ==
  leaseExpiresAt'[d] # NULL =>
    leaseExpiresAt'[d] <= LeaseExtend + Slack \/ BeforeBeats(d)'

\* A worker that sends its first heartbeat relies on no more than FirstBeat.
LEMMA OwnStepIsNear ==
  ASSUME SdkInv, NEW d \in Dispatch, DispatchStep(d), leaseExpiresAt[d] # NULL,
         leaseExpiresAt[d] <= LeaseExtend + Slack \/ BeforeBeats(d),
         \A s \in Slot : beats[d][s].expiry # NULL => beats[d][s].expiry <= LeaseExtend
  PROVE  Near(d)
<1>0. /\ SdkTypeOK /\ BeatsTyped /\ LeaseExtend \in Nat /\ Slack \in Nat
      /\ FirstBeat \in Int /\ FirstBeat <= LeaseExtend + Slack
      /\ leaseExpiresAt[d] \in Nat \cup {Expired} /\ due[d] \in Nat
  BY ExtendIsNat, SlackIsLoss DEF SdkInv, SdkTypeOK, Instants
<1>1. ASSUME NEW s \in Slot, beats[d][s].expiry # NULL
      PROVE  beats[d][s].expiry <= LeaseExtend + Slack
  <2>1. beats[d][s].expiry \in Nat \cup {Expired}
    BY <1>0, <1>1 DEF BeatsTyped, Instants
  <2> QED BY <1>0, <1>1, <2>1 DEF Expired
<1>2. \/ leaseExpiresAt'[d] = leaseExpiresAt[d]
      \/ \E s \in Slot : /\ beats[d][s].expiry # NULL
                         /\ leaseExpiresAt'[d] = beats[d][s].expiry
  BY BeliefsAreTold
<1>3. CASE leaseExpiresAt'[d] # leaseExpiresAt[d]
  BY <1>1, <1>2, <1>3 DEF Near
<1>4. CASE leaseExpiresAt[d] <= LeaseExtend + Slack
  BY <1>3, <1>4 DEF Near
<1>5. CASE leaseExpiresAt'[d] = leaseExpiresAt[d] /\ BeforeBeats(d)
  <2>1. \A s \in Slot : beats[d][s] = Idle
    <3>1. ASSUME NEW s \in Slot
          PROVE  beats[d][s] = Idle
      <4>1. /\ beats[d][s] \in [stage : Stages, expiry : Instants]
            /\ beats[d][s].stage = "idle" /\ beats[d][s].expiry = NULL
        BY <1>0, <1>5 DEF BeforeBeats, BeatsTyped, Stages
      <4> QED BY <4>1 DEF Idle
    <3> QED BY <3>1
  <2>2. CASE Fire(d)
    <3>1. leaseExpiresAt[d] <= FirstBeat
      BY <1>0, <1>5, <2>2 DEF Fire, BeforeBeats, Expired
    <3> QED BY <1>0, <1>4, <3>1 DEF Expired
  <2>3. CASE Acquire(d)
    <3>1. due'[d] = Interval(leaseExpiresAt[d])
      BY <1>0, <2>3 DEF Acquire, SdkTypeOK
    <3>2. leaseExpiresAt[d] - Interval(leaseExpiresAt[d]) <= FirstBeat
      BY <1>0, <1>5, LaterIsLess DEF BeforeBeats
    <3> QED BY <1>5, <2>3, <3>1, <3>2 DEF Acquire, BeforeBeats, Near
  <2>4. ~(\E s \in Slot : \/ BeatUpdate(d, s) \/ BeatRead(d, s)
                          \/ BeatAnswered(d, s) \/ BeatFails(d, s))
    BY <2>1 DEF Idle, BeatUpdate, BeatRead, BeatAnswered, BeatFails
  <2>5. CASE ResultStep(d)
    BY <1>5, <2>5 DEF ResultStep, Finish, ResultServed, ResultAnswered, ResultFails,
         BeforeBeats, Near
  <2>6. CASE Stop(d) \/ Die(d) \/ Answer(d)
    BY <1>0, <1>5, <2>6 DEF Stop, Die, Answer, BeforeBeats, Near, SdkTypeOK
  <2>7. CASE LateResult(d)
    BY <1>5, <2>7 DEF LateResult, BeforeBeats, Near
  <2>8. ~LateBeat(d)
    BY <1>5 DEF LateBeat, BeforeBeats
  <2> QED BY <2>2, <2>3, <2>4, <2>5, <2>6, <2>7, <2>8 DEF DispatchStep, HeartbeatStep
<1> QED BY <1>3, <1>4, <1>5

\* No step brings a worker that has the job beyond that.
LEMMA NearStep ==
  ASSUME SdkInv, SdkInv', BeatsComeNear, [SdkNext]_vars, NEW d \in Dispatch,
         jobs'[d[1]].lease_token = d[2]
  PROVE  Near(d)
<1>0. SdkTypeOK /\ LeaseExtend \in Nat /\ Slack \in Nat /\ AckGrace \in Nat
      /\ FirstBeat \in Int /\ NULL \notin Int
  BY ExtendIsNat, SlackIsLoss, RepositoryAssumption DEF SdkInv
<1>1. CASE leaseExpiresAt[d] # NULL
  <2>1. d[2] <= minted[d[1]]
    BY <1>1 DEF SdkInv, OnlySent, Blank
  <2>2. jobs[d[1]].lease_token = d[2]
    BY <2>1, StillHeld
  <2>3. /\ leaseExpiresAt[d] <= LeaseExtend + Slack \/ BeforeBeats(d)
        /\ \A s \in Slot : beats[d][s].expiry # NULL => beats[d][s].expiry <= LeaseExtend
    BY <1>1, <2>2 DEF BeatsComeNear
  <2>4. ASSUME SameWorker(d)
        PROVE  Near(d)
    BY <2>3, <2>4 DEF SameWorker, BeforeBeats, Near
  <2>5. CASE DispatchStep(d)
    BY <1>1, <2>3, <2>5, OwnStepIsNear
  <2>6. ASSUME NEW e \in Dispatch, DispatchStep(e), e # d
        PROVE  Near(d)
    BY <1>0, <2>4, <2>6, OthersAlone
  <2>7. ASSUME NEW j \in Job, GrabAndSend(j)
        PROVE  Near(d)
    <3>1. d # <<j, minted[j] + 1>>
      <4> SUFFICES ASSUME d = <<j, minted[j] + 1>>
                   PROVE  FALSE
        OBVIOUS
      <4>1. d[1] = j /\ d[2] = minted[j] + 1 /\ minted[j] \in Nat
        BY DEF SdkInv, IInv, TypeOK
      <4> QED BY <2>1, <4>1
    <3> QED BY <2>4, <2>7, <3>1, GrabSends DEF SameWorker
  <2>8. CASE TimePasses
    <3>1. /\ leaseExpiresAt[d] \in Nat \cup {Expired} /\ due[d] \in Nat
      BY <1>0, <1>1 DEF SdkTypeOK, Instants
    <3>2. /\ state'[d] = state[d] /\ late' = late
          /\ leaseExpiresAt'[d] = Later(leaseExpiresAt[d])
          /\ due'[d] = IF due[d] > 0 THEN due[d] - 1 ELSE 0
          /\ \A s \in Slot : beats'[d][s].stage = beats[d][s].stage
      BY <1>0, <2>8, ClockNears
    <3>3. CASE leaseExpiresAt[d] = Expired \/ leaseExpiresAt[d] <= LeaseExtend + Slack
      BY <1>0, <3>1, <3>2, <3>3 DEF Near, Later, Expired
    <3>4. CASE leaseExpiresAt[d] # Expired /\ BeforeBeats(d)
      <4>1. leaseExpiresAt'[d] = leaseExpiresAt[d] - 1
        BY <1>0, <3>1, <3>2, <3>4 DEF Later
      <4>2. leaseExpiresAt'[d] <= AckGrace
        BY <1>0, <3>1, <3>4, <4>1 DEF BeforeBeats, Expired
      <4>3. state'[d] = "working" => leaseExpiresAt'[d] - due'[d] <= FirstBeat
        BY <1>0, <3>1, <3>2, <3>4, <4>1 DEF BeforeBeats, Expired
      <4> QED BY <3>2, <3>4, <4>2, <4>3 DEF BeforeBeats, Near
    <3> QED BY <2>3, <3>3, <3>4
  <2>9. CASE Environment \/ UNCHANGED vars
    BY <2>4, <2>9, ElseAlone
  <2> QED BY <2>5, <2>6, <2>7, <2>8, <2>9 DEF SdkNext
<1>2. CASE leaseExpiresAt[d] = NULL
  <2>1. ASSUME leaseExpiresAt'[d] = leaseExpiresAt[d]
        PROVE  Near(d)
    BY <1>2, <2>1 DEF Near
  <2>2. CASE DispatchStep(d)
    <3>1. leaseExpiresAt'[d] # leaseExpiresAt[d] =>
            \E s \in Slot : /\ beats[d][s].expiry # NULL
                           /\ leaseExpiresAt'[d] = beats[d][s].expiry
      BY <2>2, BeliefsAreTold
    <3>2. ASSUME NEW s \in Slot, beats[d][s].expiry # NULL
          PROVE  beats[d][s].expiry <= LeaseExtend + Slack
      <4>1. beats[d][s].expiry \in Nat \cup {Expired} /\ beats[d][s].stage = "ok"
        BY <1>0, <3>2 DEF SdkTypeOK, BeatsTyped, Instants
      <4>2. d[2] <= minted[d[1]]
        BY <4>1 DEF SdkInv, OnlySent, Blank
      <4>3. jobs[d[1]].lease_token = d[2]
        BY <4>2, StillHeld
      <4>4. beats[d][s].expiry <= LeaseExtend
        BY <3>2, <4>3 DEF BeatsComeNear
      <4> QED BY <1>0, <4>1, <4>4 DEF Expired
    <3> QED BY <2>1, <3>1, <3>2 DEF Near
  <2>3. ASSUME NEW e \in Dispatch, DispatchStep(e), e # d
        PROVE  Near(d)
    BY <1>0, <2>1, <2>3, OthersAlone DEF SameWorker
  <2>4. ASSUME NEW j \in Job, GrabAndSend(j)
        PROVE  Near(d)
    <3>1. CASE d = <<j, minted[j] + 1>>
      <4>1. d[1] = j /\ d[2] = minted[j] + 1 /\ minted[j] \in Nat
        BY <3>1 DEF SdkInv, IInv, TypeOK
      <4>2. Blank(d)
        BY <4>1 DEF SdkInv, OnlySent
      <4>3. /\ state'[d] = state[d] /\ beats'[d] = beats[d] /\ late' = late
            /\ leaseExpiresAt'[d] = AckGrace
        BY <2>4, <3>1, GrabSends
      <4> QED BY <1>0, <4>2, <4>3 DEF Blank, BeforeBeats, Near
    <3>2. CASE d # <<j, minted[j] + 1>>
      BY <2>1, <2>4, <3>2, GrabSends
    <3> QED BY <3>1, <3>2
  <2>5. CASE TimePasses
    <3>1. leaseExpiresAt'[d] = Later(leaseExpiresAt[d])
      BY <1>0, <2>5, ClockNears
    <3> QED BY <1>2, <2>1, <3>1 DEF Later
  <2>6. CASE Environment \/ UNCHANGED vars
    BY <2>1, <2>6, ElseAlone DEF SameWorker
  <2> QED BY <2>2, <2>3, <2>4, <2>5, <2>6 DEF SdkNext
<1> QED BY <1>1, <1>2

\* No answer carries more than a heartbeat sets.
LEMMA AnswersComeNear ==
  ASSUME SdkInv, SdkInv', BeatsComeNear, UpdatesAreKept, [SdkNext]_vars,
         NEW d \in Dispatch, NEW s \in Slot,
         jobs'[d[1]].lease_token = d[2], beats'[d][s].expiry # NULL
  PROVE  beats'[d][s].expiry <= LeaseExtend
<1>0. SdkTypeOK /\ LeaseExtend \in Nat /\ NULL \notin Int
  BY ExtendIsNat, RepositoryAssumption DEF SdkInv
<1>1. ASSUME beats[d][s].expiry # NULL
      PROVE  /\ beats[d][s].expiry \in Nat \cup {Expired}
             /\ beats[d][s].expiry <= LeaseExtend
  <2>1. beats[d][s].expiry \in Nat \cup {Expired} /\ beats[d][s].stage = "ok"
    BY <1>0, <1>1 DEF SdkTypeOK, BeatsTyped, Instants
  <2>2. d[2] <= minted[d[1]]
    BY <2>1 DEF SdkInv, OnlySent, Blank
  <2>3. jobs[d[1]].lease_token = d[2]
    BY <2>2, StillHeld
  <2> QED BY <1>1, <2>1, <2>3 DEF BeatsComeNear
<1>2. ASSUME beats'[d] = beats[d]
      PROVE  beats'[d][s].expiry <= LeaseExtend
  BY <1>1, <1>2
<1>3. CASE DispatchStep(d)
  <2>1. CASE beats'[d][s].expiry = beats[d][s].expiry
    BY <1>1, <2>1
  <2>2. CASE /\ beats'[d][s].expiry = ToISO(jobs[d[1]].lease_expires_at)
             /\ UNCHANGED repoVars
             /\ BeatRead(d, s)
    <3>1. beats[d][s].stage = "updated" /\ jobs' = jobs
      BY <2>2 DEF BeatRead, repoVars
    <3>2. jobs[d[1]].status = "running" /\ jobs[d[1]].lease_expires_at <= LeaseExtend
      BY <3>1 DEF UpdatesAreKept
    <3>3. jobs[d[1]].lease_expires_at \in Nat \cup {Expired}
      BY <3>2, HeldExpiry, DispatchType DEF Held, SdkInv
    <3> QED BY <1>0, <2>2, <3>2, <3>3 DEF ToISO, Expired
  <2> QED BY <1>3, <2>1, <2>2, BeliefsAreTold
<1>4. ASSUME NEW e \in Dispatch, DispatchStep(e), e # d
      PROVE  beats'[d] = beats[d]
  BY <1>0, <1>4, OthersAlone DEF SameWorker
<1>5. ASSUME NEW j \in Job, GrabAndSend(j)
      PROVE  beats'[d] = beats[d]
  BY <1>5 DEF GrabAndSend
<1>6. CASE TimePasses
  <2>1. beats'[d][s].expiry = Later(beats[d][s].expiry)
    BY <1>0, <1>6, ClockNears
  <2>2. beats[d][s].expiry # NULL
    BY <2>1 DEF Later
  <2> QED BY <1>0, <1>1, <2>1, <2>2 DEF Later, Expired
<1>7. CASE Environment \/ UNCHANGED vars
  BY <1>2, <1>7, ElseAlone DEF SameWorker
<1> QED BY <1>2, <1>3, <1>4, <1>5, <1>6, <1>7 DEF SdkNext

\* So the invariant is preserved,
LEMMA BeliefStep ==
  ASSUME SdkInv, SdkInv', BeliefInv, [SdkNext]_vars
  PROVE  BeliefInv'
<1>1. PromisesCovered'
  BY PromisesStep DEF WorkerCovered, StillCovered, PromisesCovered, Covered
<1>2. UpdatesAreKept'
  BY UpdatesStep DEF UpdateKept, UpdatesAreKept, BeliefInv
<1>3. BeatsComeNear'
  BY NearStep, AnswersComeNear DEF Near, BeatsComeNear, BeliefInv
<1> QED BY <1>1, <1>2, <1>3 DEF BeliefInv

\* and it holds at first.
LEMMA BeliefStart == SdkInit => BeliefInv
BY DEF SdkInit, BeliefInv, PromisesCovered, BeatsComeNear, UpdatesAreKept, Idle

\* Whatever the timers are, all that is told to a worker, or on its way to it, is
\* covered by the table but for Slack,
THEOREM BeliefInvariance == SdkSpec => []BeliefInv
<1>1. SdkInit => SdkInv /\ BeliefInv
  BY SdkStart, BeliefStart
<1>2. SdkInv /\ BeliefInv /\ [SdkNext]_vars => SdkInv' /\ BeliefInv'
  BY SdkStep, BeliefStep
<1> QED BY <1>1, <1>2, PTL DEF SdkSpec

\* and no worker that has the job believes in an expiry that is later by more than
\* Slack than the one in the table, however its heartbeats and their answers are
\* lost or overtake each other.
THEOREM BeliefHolds == SdkSpec => []BeliefIsCovered
<1>1. BeliefInv => BeliefIsCovered
  BY DEF BeliefInv, PromisesCovered, Covered, BeliefIsCovered
<1> QED BY <1>1, BeliefInvariance, PTL
-----------------------------------------------------------------------------
(* A success was reported *)

\* What a worker has posted, or given up posting, it has posted.
LEMMA PostedStays ==
  ASSUME SdkInv, [SdkNext]_vars, NEW d \in Dispatch, report[d].stage # "none"
  PROVE  report'[d].stage # "none" /\ report'[d].good = report[d].good
<1>1. CASE ResultStep(d)
  BY <1>1 DEF ResultStep, Finish, ResultServed, ResultAnswered, ResultFails, Reporting,
              SdkInv, SdkTypeOK
<1>2. CASE DispatchStep(d) /\ ~ResultStep(d)
  BY <1>2 DEF DispatchStep, HeartbeatStep, Fire, BeatUpdate, BeatRead, BeatAnswered,
              BeatFails, Acquire, Stop, Die, Answer, LateBeat, LateResult
<1>3. ASSUME NEW e \in Dispatch, DispatchStep(e), e # d
      PROVE  report'[d] = report[d]
  BY <1>3, OthersAlone DEF SdkInv, SameWorker
<1>4. ASSUME NEW j \in Job, GrabAndSend(j)
      PROVE  report'[d] = report[d]
  BY <1>4 DEF GrabAndSend
<1>5. CASE TimePasses
  BY <1>5 DEF TimePasses
<1>6. CASE Environment \/ UNCHANGED vars
  BY <1>6, ElseAlone DEF SameWorker
<1> QED BY <1>1, <1>2, <1>3, <1>4, <1>5, <1>6 DEF SdkNext

\* A result is under way only once it was posted.
LEMMA LateStep ==
  ASSUME SdkInv, LateIsPosted, [SdkNext]_vars
  PROVE  LateIsPosted'
<1> SUFFICES ASSUME NEW d \in Dispatch, <<"result", d>> \in late'
             PROVE  report'[d].stage # "none"
  BY DEF LateIsPosted
<1>1. <<"result", d>> \in late \/ report[d].stage # "none"
  <2>1. ASSUME NEW e \in Dispatch, DispatchStep(e)
        PROVE  \/ late' \subseteq late \cup {<<"beat", e>>}
               \/ late' \subseteq late \cup {<<"result", e>>} /\ report[e].stage = "posted"
    BY <2>1 DEF DispatchStep, HeartbeatStep, Fire, BeatUpdate, BeatRead, BeatAnswered,
         BeatFails, ResultStep, Finish, ResultServed, ResultAnswered, ResultFails,
         Acquire, Stop, Die, Answer, LateBeat, LateResult
  <2>2. ASSUME NEW j \in Job, GrabAndSend(j)
        PROVE  late' = late
    BY <2>2 DEF GrabAndSend
  <2>3. CASE TimePasses \/ Environment \/ UNCHANGED vars
    BY <2>3 DEF TimePasses, Environment, vars, sdkVars
  <2> QED BY <2>1, <2>2, <2>3 DEF SdkNext
<1>2. report[d].stage # "none"
  BY <1>1 DEF LateIsPosted
<1> QED BY <1>2, PostedStays

\* The result of a dispatch, on its way in time or late.
Posted(d) == Result(d) /\ (report[d].stage = "posted" \/ <<"result", d>> \in late)

\* Besides results, no step completes a job.
LEMMA SuccessByResult ==
  ASSUME SdkInv, [SdkNext]_vars, NEW k \in Job, NewSuccess(k)
  PROVE  \E d \in Dispatch : Posted(d)
<1>0. IInv
  BY DEF SdkInv
<1>1. ASSUME NEW d \in Dispatch, DispatchStep(d)
      PROVE  Posted(d)
  <2>0. d[1] \in Job
    BY DispatchType
  <2>1. \/ jobs' = jobs
        \/ Heartbeat(d[1], d[2], LeaseExtend)
        \/ Ack(d[1], d[2]) \/ Nack(d[1], d[2]) \/ Reject(d[1], d[2])
        \/ Posted(d)
    BY <1>1 DEF DispatchStep, HeartbeatStep, Fire, BeatUpdate, BeatRead, BeatAnswered,
         BeatFails, ResultStep, Finish, ResultServed, ResultAnswered, ResultFails,
         Acquire, Stop, Die, Answer, LateBeat, LateResult, Posted, repoVars
  <2>2. CASE jobs' = jobs
    BY <2>2 DEF NewSuccess
  <2>3. CASE Heartbeat(d[1], d[2], LeaseExtend)
    <3>1. Kept(jobs'[k], jobs[k])
      BY <1>0, <2>0, <2>3, HeartbeatSteps, SameIsKept DEF Others
    <3> QED BY <3>1, NoVerdict
  <2>4. CASE Ack(d[1], d[2])
    <3>1. Kept(jobs'[k], jobs[k])
      BY <1>0, <2>0, <2>4, AckSteps, SameIsKept DEF Others
    <3> QED BY <3>1, NoVerdict
  <2>5. CASE Nack(d[1], d[2])
    BY <1>0, <2>0, <2>5, NackVerdict DEF Unforced
  <2>6. CASE Reject(d[1], d[2])
    BY <1>0, <2>0, <2>6, RejectVerdict
  <2> QED BY <2>1, <2>2, <2>3, <2>4, <2>5, <2>6
<1>2. ASSUME NEW j \in Job, GrabAndSend(j)
      PROVE  FALSE
  <2>1. PICK q \in Queue : Grab(j, q)
    BY <1>2 DEF GrabAndSend
  <2> QED BY <1>0, <2>1, GrabSteps, NoVerdict DEF Others
<1>3. ASSUME NEW j \in Job, Client(j)
      PROVE  FALSE
  <2>1. Others(j) /\ \/ \E m : Inserted(jobs'[j], jobs[j], m)
                     \/ Kept(jobs'[j], jobs[j])
                     \/ Withdrawn(jobs'[j], jobs[j])
    BY <1>0, <1>3, EnqueueSteps, CancelSteps DEF Client
  <2> QED BY <2>1, NoVerdict DEF Others
<1>4. ASSUME NEW r \in Reaper, Reap(r)
      PROVE  FALSE
  BY <1>0, <1>4, ReapVerdict DEF Unforced
<1>5. CASE TimePasses
  BY <1>0, <1>5, TickSteps, NoVerdict DEF TimePasses
<1>6. CASE UNCHANGED vars
  BY <1>6 DEF vars, repoVars, NewSuccess
<1> QED BY <1>1, <1>2, <1>3, <1>4, <1>5, <1>6 DEF SdkNext, Environment

\* So a new success is that of the last dispatch, which has reported it.
LEMMA SuccessIsPosted ==
  ASSUME SdkInv, LateIsPosted, [SdkNext]_vars, NEW k \in Job, NewSuccess(k)
  PROVE  /\ <<k, minted[k]>> \in Dispatch
         /\ report[<<k, minted[k]>>].stage # "none"
         /\ report[<<k, minted[k]>>].good
<1>1. PICK d \in Dispatch : Posted(d)
  BY SuccessByResult
<1>2. IInv /\ d[1] \in Job /\ d = <<d[1], d[2]>>
  BY DispatchType DEF SdkInv
<1>3. report[d].good
  <2>1. report[d].good \/ Fail(d[1], d[2], TRUE)
    BY <1>1 DEF Posted, Result
  <2> QED BY <1>2, <2>1, RetryVerdict DEF Unforced
<1>4. k = d[1] /\ d[2] = minted[k]
  <2>1. Succeed(d[1], d[2])
    BY <1>1, <1>3 DEF Posted, Result
  <2> QED BY <1>2, <2>1, SucceedVerdict
<1>5. report[d].stage # "none"
  BY <1>1 DEF Posted, LateIsPosted
<1> QED BY <1>2, <1>3, <1>4, <1>5

\* A job that is settled is handed out no more.
LEMMA SettledIsNotGrabbed ==
  ASSUME SdkInv, [SdkNext]_vars, NEW k \in Job, jobs'[k].status = "succeeded"
  PROVE  minted'[k] = minted[k]
<1>0. minted \in [Job -> Nat] /\ jobs \in [Job -> Row]
  BY DEF SdkInv, IInv, TypeOK
<1>1. CASE TableStep
  BY <1>1 DEF TableStep, Client, Enqueue, Cancel, Write, Ack, Nack, Reject, Succeed,
              Fail, Heartbeat, Reap, ReapRequeue, ReapFail, ReapAbort, repoVars
<1>2. ASSUME NEW j \in Job, GrabAndSend(j)
      PROVE  minted'[k] = minted[k]
  <2>1. j # k
    BY <1>2, GrabSteps DEF GrabAndSend, Grabbed, SdkInv
  <2> QED BY <1>0, <1>2, <2>1 DEF GrabAndSend, Grab
<1>3. CASE TimePasses
  BY <1>3 DEF TimePasses, Tick
<1> QED BY <1>1, <1>2, <1>3, StepKinds

LEMMA ReportStep ==
  ASSUME SdkInv, ReportInv, [SdkNext]_vars
  PROVE  ReportInv'
<1>1. ASSUME NEW k \in Job, jobs'[k].status = "succeeded"
      PROVE  /\ report'[<<k, minted'[k]>>].stage # "none"
             /\ report'[<<k, minted'[k]>>].good
  <2>1. minted'[k] = minted[k]
    BY <1>1, SettledIsNotGrabbed
  <2>2. /\ <<k, minted[k]>> \in Dispatch
        /\ report[<<k, minted[k]>>].stage # "none"
        /\ report[<<k, minted[k]>>].good
    <3>1. CASE NewSuccess(k)
      BY <3>1, SuccessIsPosted DEF ReportInv
    <3>2. CASE jobs[k].status = "succeeded"
      <4>1. minted[k] \in Nat /\ minted[k] >= 1 /\ minted[k] <= MaxRetries + 1
        BY <3>2, RepositoryAssumption
        DEF SdkInv, IInv, RowInv, AttemptsCounted, Row
      <4>2. <<k, minted[k]>> \in Dispatch
        BY <4>1, RepositoryAssumption DEF Dispatch
      <4> QED BY <3>2, <4>2 DEF ReportInv, SucceededIsReported
    <3> QED BY <1>1, <3>1, <3>2 DEF NewSuccess
  <2> QED BY <2>1, <2>2, PostedStays
<1>2. SucceededIsReported'
  BY <1>1 DEF SucceededIsReported
<1> QED BY <1>2, LateStep DEF ReportInv

\* What is under way was posted, and what is succeeded was reported so,
THEOREM ReportInvariance == SdkSpec => []ReportInv
<1>1. SdkInit => ReportInv
  BY DEF SdkInit, Init, AbsentRow, ReportInv, LateIsPosted, SucceededIsReported
<1>2. SdkInv /\ ReportInv /\ [SdkNext]_vars => ReportInv'
  BY ReportStep
<1> QED BY <1>1, <1>2, SdkInvariance, PTL DEF SdkSpec

\* by the worker of the last dispatch, whichever try of its POST was served.
THEOREM SuccessWasReported == SdkSpec => []SucceededIsReported
BY ReportInvariance, PTL DEF ReportInv
=============================================================================

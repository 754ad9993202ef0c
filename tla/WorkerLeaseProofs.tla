-------------------------- MODULE WorkerLeaseProofs -------------------------
(***************************************************************************)
(* Theorems about WorkerLease, for any number of jobs, dispatches, retries *)
(* and heartbeats in flight and any timer values: how long a worker goes   *)
(* on in the belief of having a job that was given up.                     *)
(***************************************************************************)
EXTENDS WorkerLease, WorkerSdkProofs

-----------------------------------------------------------------------------
(* The memory restrains nothing *)

\* Every behaviour of LeaseSpec is one of SdkSpec, so what is true there is here.
THEOREM LeaseIsSdk == LeaseSpec => SdkSpec
<1>1. LeaseInit => SdkInit
  BY DEF LeaseInit
<1>2. [LeaseNext]_leaseVars => [SdkNext]_vars
  BY DEF LeaseNext, leaseVars
<1> QED BY <1>1, <1>2, PTL DEF LeaseSpec, SdkSpec

\* A worker that was misled is not forgotten, nor one that reads another's row.
LEMMA MisledGrows ==
  ASSUME [LeaseNext]_leaseVars
  PROVE  /\ misled \subseteq misled'
         /\ \A d \in Dispatch : ~UNCHANGED vars /\ ReadsAnothers(d) => d \in misled'
         /\ misled \subseteq Dispatch => misled' \subseteq Dispatch
BY DEF LeaseNext, leaseVars

-----------------------------------------------------------------------------
(* What is over *)

\* A dispatch that was given up has not got its job.
LEMMA GivenUpIsLost ==
  ASSUME SdkInv, NEW d \in Dispatch, GivenUp(d)
  PROVE  jobs[d[1]].lease_token # d[2] /\ d[2] <= minted[d[1]]
<1>1. /\ d[1] \in Job /\ d[2] \in Nat /\ d[2] # NULL /\ GivenUp(d)
      /\ minted[d[1]] \in Nat /\ RowInv(jobs[d[1]], minted[d[1]])
  BY DispatchType, RepositoryAssumption DEF SdkInv, IInv, TypeOK
<1>2. CASE jobs[d[1]].status \in Held
  BY <1>1, <1>2 DEF GivenUp, RowInv, LeaseColumnsAgree, Held
<1>3. CASE jobs[d[1]].status \notin Held
  BY <1>1, <1>3 DEF GivenUp, RowInv, LeaseColumnsAgree
<1> QED BY <1>2, <1>3

\* acquire() takes up no dispatch that it has refused, stopped or aborted.
LEMMA LeftStaysLeft ==
  ASSUME SdkInv, [SdkNext]_vars, NEW d \in Dispatch, state[d] \notin {"none", "working"}
  PROVE  state'[d] \notin {"none", "working"}
<1>1. CASE DispatchStep(d)
  BY <1>1 DEF DispatchStep, HeartbeatStep, Fire, BeatUpdate, BeatRead, BeatAnswered,
       BeatFails, AbortIfExpired, Abort, ResultStep, Finish, ResultServed,
       ResultAnswered, ResultFails, Acquire, Stop, Die, Answer, LateBeat, LateResult,
       SdkInv, SdkTypeOK
<1>2. ASSUME NEW e \in Dispatch, DispatchStep(e), e # d
      PROVE  state'[d] = state[d]
  BY <1>2, OthersAlone DEF SdkInv, SameWorker
<1>3. ASSUME NEW j \in Job, GrabAndSend(j)
      PROVE  state'[d] = state[d]
  BY <1>3 DEF GrabAndSend
<1>4. CASE TimePasses
  BY <1>4 DEF TimePasses
<1>5. CASE Environment \/ UNCHANGED vars
  BY <1>5, ElseAlone DEF SameWorker
<1> QED BY <1>1, <1>2, <1>3, <1>4, <1>5 DEF SdkNext

\* An instant that is NULL, or less than Slack away.
Short(instant) == instant # NULL => instant < Slack

\* All that the worker of d was told of its lease, or is being told, ends within Slack.
RunsOut(d) ==
  /\ Short(leaseExpiresAt[d])
  /\ \A s \in Slot : Short(beats[d][s].expiry)

\* Time shortens what is short.
LEMMA ShortLater ==
  ASSUME NEW instant \in Instants, Short(instant)
  PROVE  Short(Later(instant))
BY SlackIsLoss, RepositoryAssumption DEF Short, Later, Instants, Expired

\* What the row of a job says that nobody has is short: there is no expiry in it.
LEMMA NobodysIsShort ==
  ASSUME IInv, NEW k \in Job, jobs[k].lease_token = NULL
  PROVE  Short(ToISO(jobs[k].lease_expires_at))
<1>1. jobs[k].lease_expires_at = NULL
  BY RepositoryAssumption DEF IInv, RowInv, LeaseColumnsAgree, TypeOK, Row
<1> QED BY <1>1, SlackIsLoss, RepositoryAssumption DEF ToISO, Short, Expired

\* A worker that lost its job is told of no later end, unless it is misled.
LEMMA RunsOutStays ==
  ASSUME SdkInv, [LeaseNext]_leaseVars, NEW d \in Dispatch, RunsOut(d),
         jobs[d[1]].lease_token # d[2], d[2] <= minted[d[1]]
  PROVE  RunsOut(d)' \/ d \in misled'
<1>0. [SdkNext]_vars /\ IInv /\ d[1] \in Job
  BY DispatchType DEF LeaseNext, leaseVars, SdkInv
<1>1. ASSUME SameWorker(d)
      PROVE  RunsOut(d)'
  BY <1>1 DEF SameWorker, RunsOut, Short
<1>2. CASE DispatchStep(d)
  <2>1. /\ \/ leaseExpiresAt'[d] = leaseExpiresAt[d]
           \/ \E s \in Slot : leaseExpiresAt'[d] = beats[d][s].expiry
        /\ \A s \in Slot :
             \/ beats'[d][s].expiry \in {beats[d][s].expiry, NULL}
             \/ /\ beats'[d][s].expiry = ToISO(jobs[d[1]].lease_expires_at)
                /\ BeatRead(d, s)
    BY <1>2, BeliefsAreTold
  <2>2. CASE d \in misled'
    BY <2>2
  <2>3. ASSUME d \notin misled', NEW s \in Slot, BeatRead(d, s)
        PROVE  jobs[d[1]].lease_token = NULL
    <3>1. beats'[d][s] = [stage |-> "ok", expiry |-> ToISO(jobs[d[1]].lease_expires_at)]
      BY <2>3, BeatWrites DEF BeatRead, SdkInv, SdkTypeOK
    <3>2. beats[d][s].stage = "updated"
      BY <2>3 DEF BeatRead
    <3>3. ~UNCHANGED vars
      BY <3>1, <3>2 DEF vars, sdkVars
    <3> QED BY <2>3, <3>3, MisledGrows DEF ReadsAnothers
  <2>4. ASSUME d \notin misled', NEW s \in Slot
        PROVE  Short(beats'[d][s].expiry)
    BY <1>0, <2>1, <2>3, <2>4, NobodysIsShort DEF RunsOut, Short
  <2>5. Short(leaseExpiresAt'[d])
    BY <2>1 DEF RunsOut
  <2> QED BY <2>4, <2>5 DEF RunsOut, Short
<1>3. ASSUME NEW e \in Dispatch, DispatchStep(e), e # d
      PROVE  RunsOut(d)'
  BY <1>1, <1>3, OthersAlone DEF SdkInv
<1>4. ASSUME NEW j \in Job, GrabAndSend(j)
      PROVE  RunsOut(d)'
  <2>1. d # <<j, minted[j] + 1>>
    <3> SUFFICES ASSUME d = <<j, minted[j] + 1>>
                 PROVE  FALSE
      OBVIOUS
    <3>1. d[1] = j /\ d[2] = minted[j] + 1 /\ minted[j] \in Nat
      BY DEF SdkInv, IInv, TypeOK
    <3> QED BY <3>1
  <2> QED BY <1>4, <2>1, GrabSends DEF RunsOut, Short
<1>5. CASE TimePasses
  <2>1. /\ leaseExpiresAt'[d] = Later(leaseExpiresAt[d])
        /\ \A s \in Slot : beats'[d][s].expiry = Later(beats[d][s].expiry)
    BY <1>5, ClockNears DEF SdkInv
  <2>2. /\ leaseExpiresAt[d] \in Instants
        /\ \A s \in Slot : beats[d][s].expiry \in Instants
    BY DEF SdkInv, SdkTypeOK, BeatsTyped
  <2>3. Short(leaseExpiresAt'[d]) /\ \A s \in Slot : Short(beats'[d][s].expiry)
    BY <2>1, <2>2, ShortLater DEF RunsOut
  <2> QED BY <2>3 DEF RunsOut, Short
<1>6. CASE Environment \/ UNCHANGED vars
  BY <1>1, <1>6, ElseAlone
<1> QED BY <1>0, <1>2, <1>3, <1>4, <1>5, <1>6 DEF SdkNext

\* So what is over stays over.
LEMMA OverStays ==
  ASSUME SdkInv, [LeaseNext]_leaseVars, NEW d \in Dispatch, Over(d),
         jobs[d[1]].lease_token # d[2], d[2] <= minted[d[1]]
  PROVE  Over(d)'
<1>0. [SdkNext]_vars
  BY DEF LeaseNext, leaseVars
<1>1. CASE report[d].stage # "none"
  BY <1>0, <1>1, PostedStays DEF Over
<1>2. CASE state[d] \notin {"none", "working"}
  BY <1>0, <1>2, LeftStaysLeft DEF Over
<1>3. CASE d \in misled
  BY <1>3, MisledGrows DEF Over
<1>4. CASE RunsOut(d)
  BY <1>4, RunsOutStays DEF Over, RunsOut, Short
<1> QED BY <1>1, <1>2, <1>3, <1>4 DEF Over, RunsOut, Short

\* An expired lease runs out for its worker too: what it was told is covered.
LEMMA ExpiredRunsOut ==
  ASSUME SdkInv, BeliefInv, NEW d \in Dispatch,
         jobs[d[1]].lease_token = d[2], jobs[d[1]].lease_expires_at = Expired
  PROVE  RunsOut(d)
<1>1. ASSUME NEW instant \in Instants, instant # NULL => Covered(d, instant)
      PROVE  Short(instant)
  BY <1>1, SlackIsLoss DEF Covered, Short, Instants, Expired
<1>2. leaseExpiresAt[d] \in Instants
  BY DEF SdkInv, SdkTypeOK
<1>3. ASSUME NEW s \in Slot
      PROVE  beats[d][s].expiry \in Instants
  BY DEF SdkInv, SdkTypeOK, BeatsTyped
<1> QED BY <1>1, <1>2, <1>3 DEF BeliefInv, PromisesCovered, RunsOut

\* A call by a dispatch that does not hold the job does not touch it.
LEMMA StrangersTouchNothing ==
  ASSUME IInv, NEW j \in Job, NEW t, NEW k \in Job,
         Write(j, t) \/ Heartbeat(j, t, LeaseExtend)
  PROVE  jobs'[k] = jobs[k] \/ (k = j /\ Holds(j, t, Held))
<1>1. CASE Write(j, t)
  <2>1. ASSUME NEW retryable \in BOOLEAN, Fail(j, t, retryable)
        PROVE  Others(j)
    BY <2>1, FailSteps
  <2>2. Others(j)
    BY <1>1, <2>1, AckSteps, NackSteps, RejectSteps, SucceedSteps DEF Write
  <2>3. ~Holds(j, t, Held) => ~Holds(j, t, {"dispatching"})
    BY DEF Holds, Held
  <2>4. ~Holds(j, t, Held) => jobs' = jobs
    BY <1>1, <2>3 DEF Write, Ack, Nack, Reject, Succeed, Fail, Update
  <2> QED BY <2>2, <2>4 DEF Others
<1>2. CASE Heartbeat(j, t, LeaseExtend)
  <2>1. Others(j)
    BY <1>2, HeartbeatSteps
  <2>2. ~Holds(j, t, Held) => jobs' = jobs
    BY <1>2 DEF Heartbeat, Update
  <2> QED BY <2>1, <2>2 DEF Others
<1> QED BY <1>1, <1>2

\* A job that goes back to the queue is over for the worker that had it: the worker
\* refused or reported it, or the reaper found its lease expired.
LEMMA RequeuedIsOver ==
  ASSUME SdkInv, BeliefInv, LateIsPosted, [SdkNext]_vars, NEW d \in Dispatch,
         d[2] = minted[d[1]],
         jobs[d[1]].status \in Held, jobs'[d[1]].status = "queued"
  PROVE  Over(d)'
<1> DEFINE k == d[1]
<1>0. /\ IInv /\ k \in Job /\ d = <<k, d[2]>> /\ jobs[k].lease_token = d[2]
      /\ jobs[k].status # "queued"
  BY DispatchType DEF SdkInv, IInv, RowInv, LeaseColumnsAgree, Held
<1>1. ASSUME NEW e \in Dispatch, DispatchStep(e)
      PROVE  Over(d)'
  <2>1. \/ jobs' = jobs
        \/ Heartbeat(e[1], e[2], LeaseExtend)
        \/ Ack(e[1], e[2])
        \/ Posted(e)
        \/ /\ Nack(e[1], e[2]) \/ Reject(e[1], e[2])
           /\ state' = [state EXCEPT ![e] = "refused"]
    BY <1>1 DEF DispatchStep, HeartbeatStep, Fire, BeatUpdate, BeatRead, BeatAnswered,
         BeatFails, ResultStep, Finish, ResultServed, ResultAnswered, ResultFails,
         Acquire, Stop, Die, Answer, LateBeat, LateResult, Posted, repoVars
  <2>2. jobs' # jobs
    BY <1>0
  <2>3. e = d
    <3>1. Write(e[1], e[2]) \/ Heartbeat(e[1], e[2], LeaseExtend)
      BY <2>1, <2>2 DEF Posted, Result, Write
    <3>2. e[1] = k /\ Holds(k, e[2], Held)
      BY <1>0, <3>1, DispatchType, StrangersTouchNothing
    <3> QED BY <1>0, <3>2, DispatchType DEF Holds
  <2>4. CASE Heartbeat(k, d[2], LeaseExtend) \/ Ack(k, d[2])
    BY <1>0, <2>4, HeartbeatSteps, AckSteps DEF Kept
  <2>5. CASE Posted(d)
    <3>1. report[d].stage # "none"
      BY <2>5 DEF Posted, LateIsPosted
    <3> QED BY <3>1, PostedStays DEF Over
  <2>6. CASE state' = [state EXCEPT ![d] = "refused"]
    BY <2>6 DEF SdkInv, SdkTypeOK, Over
  <2> QED BY <2>1, <2>2, <2>3, <2>4, <2>5, <2>6
<1>2. ASSUME NEW r \in Reaper, Reap(r), UNCHANGED sdkVars
      PROVE  Over(d)'
  <2>1. jobs[k].lease_expires_at = Expired
    BY <1>0, <1>2 DEF Reap, ReapRequeue, ReapFail, ReapAbort, LeaseExpired
  <2>2. RunsOut(d)
    BY <1>0, <2>1, ExpiredRunsOut
  <2> QED BY <1>2, <2>2 DEF RunsOut, Short, Over, sdkVars
<1>3. ASSUME NEW j \in Job, Client(j)
      PROVE  FALSE
  <2>1. Others(j) /\ \/ \E m : Inserted(jobs'[j], jobs[j], m)
                     \/ Kept(jobs'[j], jobs[j])
                     \/ Withdrawn(jobs'[j], jobs[j])
    BY <1>0, <1>3, EnqueueSteps, CancelSteps DEF Client
  <2> QED BY <1>0, <2>1 DEF Others, Inserted, Kept, Withdrawn, Held
<1>4. ASSUME NEW j \in Job, GrabAndSend(j)
      PROVE  FALSE
  BY <1>0, <1>4, GrabSteps DEF GrabAndSend, Others, Grabbed
<1>5. CASE TimePasses
  BY <1>0, <1>5, TickExpiry DEF TimePasses
<1>6. CASE UNCHANGED vars
  BY <1>0, <1>6 DEF vars, repoVars
<1> QED BY <1>1, <1>2, <1>3, <1>4, <1>5, <1>6 DEF SdkNext, Environment

\* A token is handed out to a job in the queue, which is then not in it.
LEMMA MintedStep ==
  ASSUME SdkInv, [SdkNext]_vars, NEW k \in Job
  PROVE  \/ minted'[k] = minted[k]
         \/ /\ minted'[k] = minted[k] + 1
            /\ jobs[k].status = "queued" /\ jobs'[k].status = "dispatching"
<1>0. minted \in [Job -> Nat] /\ IInv
  BY DEF SdkInv, IInv, TypeOK
<1>1. CASE TableStep
  BY <1>1 DEF TableStep, Client, Enqueue, Cancel, Write, Ack, Nack, Reject, Succeed,
              Fail, Heartbeat, Reap, ReapRequeue, ReapFail, ReapAbort, repoVars
<1>2. ASSUME NEW j \in Job, GrabAndSend(j)
      PROVE  \/ minted'[k] = minted[k]
             \/ /\ minted'[k] = minted[k] + 1
                /\ jobs[k].status = "queued" /\ jobs'[k].status = "dispatching"
  <2>1. /\ minted' = [minted EXCEPT ![j] = @ + 1]
        /\ Grabbed(jobs'[j], jobs[j], minted[j])
    BY <1>0, <1>2, GrabSteps DEF GrabAndSend, Grab
  <2> QED BY <1>0, <2>1 DEF Grabbed
<1>3. CASE TimePasses
  BY <1>3 DEF TimePasses, Tick
<1> QED BY <1>1, <1>2, <1>3, StepKinds

\* So every dispatch that was given up, then or before, is over after a step.
LEMMA OverrunStep ==
  ASSUME SdkInv, BeliefInv, LateIsPosted, OverrunInv, [LeaseNext]_leaseVars
  PROVE  OverrunInv'
<1>a. [SdkNext]_vars
  BY DEF LeaseNext, leaseVars
<1>b. misled' \subseteq Dispatch
  BY MisledGrows DEF OverrunInv
<1> SUFFICES ASSUME NEW d \in Dispatch, GivenUp(d)'
             PROVE  Over(d)'
  BY <1>b DEF OverrunInv
<1> DEFINE k == d[1]
<1>0. IInv /\ k \in Job /\ d[2] \in Nat /\ d[2] >= 1 /\ minted[k] \in Nat
  BY DispatchType DEF SdkInv, IInv, TypeOK
<1>1. ASSUME GivenUp(d)
      PROVE  Over(d)'
  BY <1>1, GivenUpIsLost, OverStays DEF OverrunInv
<1>2. CASE minted'[k] = minted[k] + 1 /\ jobs[k].status = "queued"
           /\ jobs'[k].status = "dispatching"
  BY <1>0, <1>1, <1>2 DEF GivenUp
<1>3. CASE minted'[k] = minted[k] /\ d[2] < minted[k]
  BY <1>1, <1>3 DEF GivenUp
<1>4. CASE minted'[k] = minted[k] /\ d[2] = minted[k] /\ jobs'[k].status = "queued"
  <2>1. CASE jobs[k].status = "queued"
    BY <1>1, <1>4, <2>1 DEF GivenUp
  <2>2. CASE jobs[k].status \in Held
    BY <1>a, <1>4, <2>2, RequeuedIsOver
  <2>3. CASE jobs[k].status \in Terminal
    BY <1>a, <1>0, <1>4, <2>3, ClientStep, TerminalStep DEF Terminal
  <2>4. jobs[k].status # "absent"
    BY <1>0, <1>4 DEF IInv, RowInv, AttemptsCounted
  <2>5. jobs[k].status \in {"absent"} \cup Live \cup Terminal
    BY <1>0 DEF IInv, TypeOK, Row
  <2> QED BY <2>1, <2>2, <2>3, <2>4, <2>5 DEF Live, Held
<1> QED BY <1>a, <1>0, <1>2, <1>3, <1>4, MintedStep DEF GivenUp

-----------------------------------------------------------------------------
(* The theorems *)

\* Whatever is given up is over for its worker.
THEOREM OverrunInvariance == LeaseSpec => []OverrunInv
<1>1. LeaseInit => OverrunInv
  <2>1. AbsentRow.status = "absent"
    BY DEF AbsentRow
  <2> QED BY <2>1, DispatchType DEF LeaseInit, SdkInit, Init, OverrunInv, GivenUp
<1>2. /\ SdkInv /\ BeliefInv /\ ReportInv /\ OverrunInv /\ [LeaseNext]_leaseVars
      => OverrunInv'
  BY OverrunStep DEF ReportInv
<1> QED BY <1>1, <1>2, LeaseIsSdk, SdkInvariance, BeliefInvariance, ReportInvariance, PTL
    DEF LeaseSpec

\* A worker whose job was given up believes for less than Slack that it has it,
\* unless a heartbeat told it of the lease of another.
THEOREM OverrunHolds == LeaseSpec => []OverrunIsBounded
<1>1. OverrunInv /\ BeliefInv => OverrunIsBounded
  BY DEF OverrunInv, BeliefInv, PromisesCovered, OverrunIsBounded, Over, Believes
<1> QED BY <1>1, OverrunInvariance, LeaseIsSdk, BeliefInvariance, PTL
=============================================================================

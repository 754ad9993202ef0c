--------------------------- MODULE EnduroqProofs ---------------------------
(***************************************************************************)
(* Theorems about Enduroq, for any number of loops, jobs, reapers and      *)
(* retries and any timer values: the system is a client of JobRepository,  *)
(* so that the theorems about it hold here too, and its verdicts are the   *)
(* workers' own.                                                           *)
(***************************************************************************)
EXTENDS Enduroq, JobRepositoryProofs

-----------------------------------------------------------------------------
(* The system is a client of the repository *)

\* A loop in the middle of a tick has a job and a token handed out for it.
LEMMA LeaseTypes ==
  ASSUME EnduroqInv, NEW l \in Loop, pc[l] # "poll"
  PROVE  /\ lease[l] = <<lease[l][1], lease[l][2]>>
         /\ lease[l][1] \in Job
         /\ lease[l][2] \in Token
         /\ lease[l][2] \in 1 .. minted[lease[l][1]]
<1>1. lease[l] \in Job \X Token
  BY DEF EnduroqInv, EnduroqTypeOK
<1>2. minted[lease[l][1]] \in Nat /\ lease[l][2] <= minted[lease[l][1]]
  BY <1>1 DEF EnduroqInv, IInv, TypeOK, LoopsApart
<1> QED BY <1>1, <1>2, RepositoryAssumption DEF Token

\* A worker only ever has a token that was handed out.
LEMMA SentIsMinted ==
  ASSUME EnduroqInv, NEW j \in Job, NEW t \in Token, work[j][t] # "none"
  PROVE  t \in 1 .. minted[j]
<1>1. minted[j] \in Nat
  BY DEF EnduroqInv, IInv, TypeOK
<1> QED BY <1>1, RepositoryAssumption DEF EnduroqInv, WorkIsSent, Token

\* Every step of the system is a step of the repository, or leaves it alone.
LEMMA RepositoryStep ==
  ASSUME EnduroqInv, [EnduroqNext]_vars
  PROVE  [Next]_repoVars
<1>1. ASSUME NEW l \in Loop, LoopStep(l)
      PROVE  [Next]_repoVars
  <2>1. CASE LoopGrab(l)
    BY <2>1, LoopAssumption DEF LoopGrab, Next
  <2>2. CASE Post(l)
    BY <2>2 DEF Post
  <2>3. CASE HearAnswer(l) \/ FetchFails(l)
    BY <2>3 DEF HearAnswer, FetchFails, Conclude
  <2>4. CASE Settle(l)
    <3> DEFINE j == lease[l][1]
               t == lease[l][2]
    <3>1. j \in Job /\ t \in 1 .. minted[j]
      BY <2>4, LeaseTypes DEF Settle
    <3>2. \/ Ack(j, t) \/ Succeed(j, t) \/ Nack(j, t) \/ Reject(j, t)
          \/ \E retryable \in BOOLEAN : Fail(j, t, retryable)
          \/ UNCHANGED repoVars
      BY <2>4 DEF Settle
    <3> HIDE DEF j, t
    <3> QED BY <3>1, <3>2 DEF Next, Write
  <2>5. CASE LoopAborts(l)
    BY <2>5 DEF LoopAborts
  <2> QED BY <1>1, <2>1, <2>2, <2>3, <2>4, <2>5 DEF LoopStep
<1>2. ASSUME NEW j \in Job, NEW t \in Token, WorkerStep(j, t)
      PROVE  [Next]_repoVars
  <2>1. CASE Receive(j, t) \/ Finish(j, t) \/ Die(j, t)
    BY <2>1 DEF Receive, Finish, Die
  <2>2. CASE Beat(j, t)
    <3>1. t \in 1 .. minted[j]
      BY <2>2, SentIsMinted DEF Beat
    <3> QED BY <2>2, <3>1 DEF Beat, Next
  <2>3. CASE Report(j, t)
    <3>1. t \in 1 .. minted[j]
      BY <2>3, SentIsMinted DEF Report
    <3>2. Succeed(j, t) \/ \E retryable \in BOOLEAN : Fail(j, t, retryable)
      BY <2>3 DEF Report, ApiRetryable
    <3> QED BY <3>1, <3>2 DEF Next, Write
  <2> QED BY <1>2, <2>1, <2>2, <2>3 DEF WorkerStep
<1>3. CASE Environment
  BY <1>3 DEF Environment, Next
<1>4. CASE UNCHANGED vars
  BY <1>4 DEF vars
<1> QED BY <1>1, <1>2, <1>3, <1>4 DEF EnduroqNext

\* Tokens are only handed out to loops, for queued jobs.
LEMMA MintedStep ==
  ASSUME EnduroqInv, [EnduroqNext]_vars, NEW k \in Job
  PROVE  \/ minted'[k] = minted[k]
         \/ jobs[k].status = "queued" /\ minted'[k] = minted[k] + 1
<1>1. ASSUME NEW j \in Job, NEW q, Grab(j, q)
      PROVE  \/ minted'[k] = minted[k]
             \/ jobs[k].status = "queued" /\ minted'[k] = minted[k] + 1
  BY <1>1 DEF Grab, EnduroqInv, IInv, TypeOK
<1>2. CASE minted' = minted
  BY <1>2
<1>3. [Next]_repoVars
  BY RepositoryStep
<1>4. \/ minted' = minted
      \/ \E j \in Job, q \in Queue : Grab(j, q)
  <2>1. ASSUME NEW j \in Job, Client(j)
        PROVE  minted' = minted
    BY <2>1 DEF Client, Enqueue, Cancel
  <2>2. ASSUME NEW j, NEW t, Write(j, t) \/ Extension(j, t)
        PROVE  minted' = minted
    BY <2>2 DEF Write, Extension, Ack, Nack, Reject, Succeed, Fail, Heartbeat
  <2>3. ASSUME NEW r \in Reaper, Reap(r)
        PROVE  minted' = minted
    BY <2>3 DEF Reap, ReapRequeue, ReapFail, ReapAbort
  <2>4. CASE Tick \/ UNCHANGED repoVars
    BY <2>4 DEF Tick, repoVars
  <2> QED BY <1>3, <2>1, <2>2, <2>3, <2>4 DEF Next
<1> QED BY <1>1, <1>2, <1>4

-----------------------------------------------------------------------------
(* What a step does to the workers and to the loops *)

Stages == {"none", "sent", "working", "dead", "stopped"} \cup Refusals \cup Verdicts

\* The stages of a dispatch, named.
LEMMA WorkTypes ==
  ASSUME EnduroqTypeOK
  PROVE  work \in [Job -> [Token -> Stages]]
BY DEF EnduroqTypeOK, Stages

\* A change of one dispatch leaves the others alone.
LEMMA WorksOne ==
  ASSUME EnduroqTypeOK, NEW j \in Job, NEW t \in Token, NEW w \in Stages, Works(j, t, w)
  PROVE  /\ work' \in [Job -> [Token -> Stages]]
         /\ \A k \in Job, u \in Token :
              work'[k][u] = IF k = j /\ u = t THEN w ELSE work[k][u]
BY WorkTypes DEF Works

\* A dispatch is sent once, by the loop that has it; it is then in the hands of
\* its worker, who says at most one thing.
WorkMoves(j, t) ==
  \/ work'[j][t] = work[j][t]
  \/ work[j][t] \in {"sent", "working"} /\ work'[j][t] \notin {"none", "sent"}
  \/ \E l \in Loop : /\ pc[l] = "post" /\ lease[l] = <<j, t>>
                     /\ pc'[l] = "fetch"
                     /\ work[j][t] = "none"

\* The request goes out: only the dispatch of this loop changes.
LEMMA PostWork ==
  ASSUME EnduroqInv, NEW l \in Loop, Post(l)
  PROVE  /\ work' \in [Job -> [Token -> Stages]]
         /\ \A j \in Job, t \in Token : WorkMoves(j, t)
<1> DEFINE i == lease[l][1]
           n == lease[l][2]
<1>1. i \in Job /\ n \in Token /\ lease[l] = <<i, n>>
  BY LeaseTypes DEF Post
<1>2. pc[l] = "post" /\ pc'[l] = "fetch" /\ work[i][n] = "none" /\ Works(i, n, "sent")
  BY DEF Post, EnduroqInv, EnduroqTypeOK, WorkIsSent
<1>3. "sent" \in Stages /\ EnduroqTypeOK
  BY DEF Stages, EnduroqInv
<1> HIDE DEF i, n
<1>4. /\ work' \in [Job -> [Token -> Stages]]
      /\ \A k \in Job, u \in Token :
           work'[k][u] = IF k = i /\ u = n THEN "sent" ELSE work[k][u]
  BY <1>1, <1>2, <1>3, WorksOne
<1> QED BY <1>1, <1>2, <1>4 DEF WorkMoves

\* A worker moves only its own dispatch.
LEMMA WorkerWork ==
  ASSUME EnduroqInv, NEW j \in Job, NEW t \in Token, WorkerStep(j, t)
  PROVE  /\ work' \in [Job -> [Token -> Stages]]
         /\ \A k \in Job, u \in Token : WorkMoves(k, u)
<1>1. CASE work' = work
  BY <1>1, WorkTypes DEF EnduroqInv, WorkMoves
<1>2. \/ work' = work
      \/ /\ work[j][t] \in {"sent", "working"}
         /\ \E w \in Stages \ {"none", "sent"} : Works(j, t, w)
  BY DEF WorkerStep, Receive, Finish, Die, Beat, Report, Stages, Refusals, Verdicts
<1>3. ASSUME work[j][t] \in {"sent", "working"},
             NEW w \in Stages \ {"none", "sent"}, Works(j, t, w)
      PROVE  /\ work' \in [Job -> [Token -> Stages]]
             /\ \A k \in Job, u \in Token : WorkMoves(k, u)
  <2>1. /\ work' \in [Job -> [Token -> Stages]]
        /\ \A k \in Job, u \in Token :
             work'[k][u] = IF k = j /\ u = t THEN w ELSE work[k][u]
    BY <1>3, WorksOne DEF EnduroqInv
  <2> QED BY <1>3, <2>1 DEF WorkMoves
<1> QED BY <1>1, <1>2, <1>3

\* So any step moves each dispatch as WorkMoves says, or leaves it.
LEMMA WorkStep ==
  ASSUME EnduroqInv, [EnduroqNext]_vars
  PROVE  /\ work' \in [Job -> [Token -> Stages]]
         /\ \A j \in Job, t \in Token : WorkMoves(j, t)
<1>1. CASE work' = work
  BY <1>1, WorkTypes DEF EnduroqInv, WorkMoves
<1>2. ASSUME NEW l \in Loop, LoopStep(l)
      PROVE  work' = work \/ Post(l)
  BY <1>2 DEF LoopStep, LoopGrab, HearAnswer, FetchFails, Conclude, Settle, LoopAborts, Poll
<1> QED BY <1>1, <1>2, PostWork, WorkerWork DEF EnduroqNext, Environment, vars

\* What a worker has said, it does not take back.
LEMMA VerdictsStay ==
  ASSUME EnduroqInv, [EnduroqNext]_vars, NEW j \in Job, NEW t \in Token,
         work[j][t] \in Verdicts \cup Refusals
  PROVE  work'[j][t] = work[j][t]
BY WorkStep DEF WorkMoves, Verdicts, Refusals

\* An outcome that settles a job for good is what the worker said.
Heard(l, o) ==
  LET w == work[lease[l][1]][lease[l][2]]
  IN /\ o = "success" => w = "ok"
     /\ o = "fatal" => w = "fatal"
     /\ o = "reject" => w = "rejected"

\* DispatchOutcome reads every answer for what the worker said.
LEMMA AnswersAreHeard ==
  ASSUME NEW l \in Loop, NEW answer \in Answers(work[lease[l][1]][lease[l][2]])
  PROVE  Heard(l, DispatchOutcome(answer)) /\ DispatchOutcome(answer) \in Outcomes
<1> DEFINE w == work[lease[l][1]][lease[l][2]]
<1>1. CASE answer = "200 success"
  BY <1>1 DEF Answers, Heard, DispatchOutcome, Outcomes
<1>2. CASE answer = "200 fatal"
  BY <1>2 DEF Answers, Heard, DispatchOutcome, Outcomes
<1>3. CASE answer = "4xx"
  BY <1>3 DEF Answers, Heard, DispatchOutcome, Outcomes
<1>4. CASE answer \notin {"200 success", "200 fatal", "4xx"}
  <2>1. DispatchOutcome(answer) \in Outcomes \ {"success", "fatal", "reject"}
    BY <1>4 DEF DispatchOutcome, Outcomes
  <2> QED BY <2>1 DEF Heard, Outcomes
<1> QED BY <1>1, <1>2, <1>3, <1>4

\* What one step of the system may do to a loop.
Stays(l)  == pc'[l] = pc[l] /\ lease'[l] = lease[l] /\ outcome'[l] = outcome[l]
Grabs(l)  == /\ pc[l] = "poll" /\ pc'[l] = "post" /\ outcome'[l] = outcome[l]
             /\ \E j \in Job : /\ lease'[l] = <<j, minted[j] + 1>>
                               /\ jobs[j].status = "queued"
                               /\ minted'[j] = minted[j] + 1
Sends(l)  == /\ pc[l] = "post" /\ pc'[l] = "fetch"
             /\ lease'[l] = lease[l] /\ outcome'[l] = outcome[l]
Hears(l)  == /\ pc[l] = "fetch" /\ pc'[l] = "settle" /\ lease'[l] = lease[l]
             /\ outcome'[l] \in Outcomes
             /\ Heard(l, outcome'[l])
Ends(l)   == pc'[l] = "poll" /\ lease'[l] = NULL /\ outcome'[l] = NULL

LoopMoves(l) == Grabs(l) \/ Sends(l) \/ Hears(l) \/ Ends(l)

\* A loop moves through its tick and leaves the other loops alone.
LEMMA LoopShape ==
  ASSUME EnduroqInv, NEW l \in Loop, LoopStep(l)
  PROVE  /\ LoopMoves(l)
         /\ \A m \in Loop : m # l => Stays(m)
<1> USE DEF LoopMoves
<1>1. /\ pc = [m \in Loop |-> pc[m]]
      /\ lease = [m \in Loop |-> lease[m]]
      /\ outcome = [m \in Loop |-> outcome[m]]
  BY DEF EnduroqInv, EnduroqTypeOK
<1>2. CASE LoopGrab(l)
  <2>1. PICK j \in Job : /\ Grab(j, QueueOf[l])
                         /\ lease' = [lease EXCEPT ![l] = <<j, minted'[j]>>]
    BY <1>2 DEF LoopGrab
  <2>2. jobs[j].status = "queued" /\ minted'[j] = minted[j] + 1
    BY <2>1 DEF Grab, EnduroqInv, IInv, TypeOK
  <2>3. pc[l] = "poll" /\ pc' = [pc EXCEPT ![l] = "post"] /\ outcome' = outcome
    BY <1>2 DEF LoopGrab
  <2>4. Grabs(l)
    BY <1>1, <2>1, <2>2, <2>3 DEF Grabs
  <2>5. \A m \in Loop : m # l => Stays(m)
    BY <1>1, <2>1, <2>3 DEF Stays
  <2> QED BY <2>4, <2>5
<1>3. CASE Post(l)
  BY <1>1, <1>3 DEF Post, Sends, Stays
<1>4. ASSUME NEW o \in Outcomes, Heard(l, o), Conclude(l, o)
      PROVE  Hears(l) /\ \A m \in Loop : m # l => Stays(m)
  BY <1>1, <1>4 DEF Conclude, Hears, Stays
<1>5. CASE HearAnswer(l)
  <2>1. PICK answer \in Answers(work[lease[l][1]][lease[l][2]]) :
          Conclude(l, DispatchOutcome(answer))
    BY <1>5 DEF HearAnswer
  <2> QED BY <2>1, <1>4, AnswersAreHeard
<1>6. CASE FetchFails(l)
  <2>1. Heard(l, "unknown") /\ "unknown" \in Outcomes
    BY DEF Heard, Outcomes
  <2> QED BY <1>4, <1>6, <2>1 DEF FetchFails
<1>7. CASE Poll(l)
  BY <1>1, <1>7 DEF Poll, Ends, Stays
<1> QED BY <1>2, <1>3, <1>5, <1>6, <1>7 DEF LoopStep, Settle, LoopAborts

\* At most one loop moves in a step.
LEMMA LoopsStep ==
  ASSUME EnduroqInv, [EnduroqNext]_vars
  PROVE  \/ \A m \in Loop : Stays(m)
         \/ \E l \in Loop : LoopMoves(l) /\ \A m \in Loop : m # l => Stays(m)
<1>1. ASSUME UNCHANGED <<pc, lease, outcome>>
      PROVE  \A m \in Loop : Stays(m)
  BY <1>1 DEF Stays
<1>2. ASSUME NEW j \in Job, NEW t \in Token, WorkerStep(j, t)
      PROVE  UNCHANGED <<pc, lease, outcome>>
  BY <1>2 DEF WorkerStep, Receive, Finish, Die, Beat, Report
<1> QED BY <1>1, <1>2, LoopShape DEF EnduroqNext, Environment, vars

-----------------------------------------------------------------------------
(* The inductive invariant *)

\* A row in the queue has a token left to be handed out.
LEMMA NextTokenType ==
  ASSUME EnduroqInv, NEW j \in Job, jobs[j].status = "queued"
  PROVE  minted[j] + 1 \in Token
<1>1. RowInv(jobs[j], minted[j])
  BY DEF EnduroqInv, IInv
<1>2. minted[j] \in Nat /\ minted[j] <= jobs[j].max_retries
  BY <1>1 DEF RowInv, AttemptsCounted
<1>3. jobs[j].max_retries \in 0 .. MaxRetries
  BY <1>1 DEF RowInv, Row
<1> QED BY <1>2, <1>3, RepositoryAssumption DEF Token

\* The loops' variables keep their types.
LEMMA LoopTypeStep ==
  ASSUME EnduroqInv, NEW l \in Loop, LoopStep(l)
  PROVE  /\ pc' \in [Loop -> {"poll", "post", "fetch", "settle"}]
         /\ lease' \in [Loop -> (Job \X Token) \cup {NULL}]
         /\ outcome' \in [Loop -> Outcomes \cup {NULL}]
<1>1. /\ pc \in [Loop -> {"poll", "post", "fetch", "settle"}]
      /\ lease \in [Loop -> (Job \X Token) \cup {NULL}]
      /\ outcome \in [Loop -> Outcomes \cup {NULL}]
  BY DEF EnduroqInv, EnduroqTypeOK
<1>2. CASE LoopGrab(l)
  <2>1. PICK j \in Job : /\ Grab(j, QueueOf[l])
                         /\ lease' = [lease EXCEPT ![l] = <<j, minted'[j]>>]
    BY <1>2 DEF LoopGrab
  <2>2. jobs[j].status = "queued" /\ minted'[j] = minted[j] + 1
    BY <2>1 DEF Grab, EnduroqInv, IInv, TypeOK
  <2>3. minted'[j] \in Token
    BY <2>2, NextTokenType
  <2> QED BY <1>1, <1>2, <2>1, <2>3 DEF LoopGrab
<1>3. CASE Post(l)
  BY <1>1, <1>3 DEF Post
<1>4. ASSUME NEW o \in Outcomes, Conclude(l, o)
      PROVE  /\ pc' \in [Loop -> {"poll", "post", "fetch", "settle"}]
             /\ lease' \in [Loop -> (Job \X Token) \cup {NULL}]
             /\ outcome' \in [Loop -> Outcomes \cup {NULL}]
  BY <1>1, <1>4 DEF Conclude
<1>5. CASE HearAnswer(l)
  BY <1>4, <1>5, AnswersAreHeard DEF HearAnswer
<1>6. CASE FetchFails(l)
  BY <1>4, <1>6 DEF FetchFails, Outcomes
<1>7. CASE Poll(l)
  BY <1>1, <1>7 DEF Poll
<1> QED BY <1>2, <1>3, <1>5, <1>6, <1>7 DEF LoopStep, Settle, LoopAborts

\* The type invariant is preserved.
LEMMA TypeStep ==
  ASSUME EnduroqInv, [EnduroqNext]_vars
  PROVE  EnduroqTypeOK'
<1>1. TypeOK'
  BY RepositoryStep, NextInv DEF EnduroqInv, IInv
<1>2. ASSUME UNCHANGED <<pc, lease, outcome>>
      PROVE  /\ pc' \in [Loop -> {"poll", "post", "fetch", "settle"}]
             /\ lease' \in [Loop -> (Job \X Token) \cup {NULL}]
             /\ outcome' \in [Loop -> Outcomes \cup {NULL}]
  BY <1>2 DEF EnduroqInv, EnduroqTypeOK
<1>3. ASSUME NEW j \in Job, NEW t \in Token, WorkerStep(j, t)
      PROVE  UNCHANGED <<pc, lease, outcome>>
  BY <1>3 DEF WorkerStep, Receive, Finish, Die, Beat, Report
<1>4. /\ pc' \in [Loop -> {"poll", "post", "fetch", "settle"}]
      /\ lease' \in [Loop -> (Job \X Token) \cup {NULL}]
      /\ outcome' \in [Loop -> Outcomes \cup {NULL}]
  BY <1>2, <1>3, LoopTypeStep DEF EnduroqNext, Environment, vars
<1>5. ASSUME NEW l \in Loop
      PROVE  /\ pc'[l] = "poll" <=> lease'[l] = NULL
             /\ pc'[l] = "settle" <=> outcome'[l] # NULL
  <2>1. /\ pc[l] = "poll" <=> lease[l] = NULL
        /\ pc[l] = "settle" <=> outcome[l] # NULL
    BY DEF EnduroqInv, EnduroqTypeOK
  <2>2. CASE Stays(l)
    BY <2>1, <2>2 DEF Stays
  <2>3. CASE Grabs(l)
    <3>1. PICK j \in Job : /\ lease'[l] = <<j, minted[j] + 1>>
                           /\ jobs[j].status = "queued"
      BY <2>3 DEF Grabs
    <3>2. lease'[l] # NULL
      BY <3>1, NextTokenType, LoopAssumption
    <3> QED BY <2>1, <2>3, <3>2 DEF Grabs
  <2>4. CASE Sends(l)
    BY <2>1, <2>4 DEF Sends
  <2>5. CASE Hears(l)
    <3>1. outcome'[l] # NULL
      BY <2>5, LoopAssumption DEF Hears
    <3> QED BY <2>1, <2>5, <3>1 DEF Hears
  <2>6. CASE Ends(l)
    BY <2>6 DEF Ends
  <2> QED BY <2>2, <2>3, <2>4, <2>5, <2>6, LoopsStep DEF LoopMoves
<1>6. work' \in [Job -> [Token -> Stages]]
  BY WorkStep
<1> QED BY <1>1, <1>4, <1>5, <1>6 DEF EnduroqTypeOK, Stages

\* What a loop has after a step, it had before, or has just grabbed.
LEMMA LeaseStep ==
  ASSUME EnduroqInv, [EnduroqNext]_vars, NEW l \in Loop, pc'[l] # "poll"
  PROVE  \/ pc[l] # "poll" /\ lease'[l] = lease[l]
         \/ Grabs(l)
<1>1. Stays(l) \/ LoopMoves(l)
  BY LoopsStep
<1> QED BY <1>1 DEF Stays, LoopMoves, Sends, Hears, Ends

\* Tokens are never taken back.
LEMMA MintedGrows ==
  ASSUME EnduroqInv, [EnduroqNext]_vars, NEW j \in Job
  PROVE  minted[j] \in Nat /\ minted'[j] \in Nat /\ minted[j] <= minted'[j]
<1>1. minted[j] \in Nat
  BY DEF EnduroqInv, IInv, TypeOK
<1> QED BY <1>1, MintedStep

\* A fresh token is greater than any that another loop has.
LEMMA ApartStep ==
  ASSUME EnduroqInv, [EnduroqNext]_vars
  PROVE  LoopsApart'
<1>1. ASSUME NEW l \in Loop, pc'[l] # "poll"
      PROVE  lease'[l][2] <= minted'[lease'[l][1]]
  <2>1. CASE pc[l] # "poll" /\ lease'[l] = lease[l]
    <3>1. /\ lease[l][1] \in Job
          /\ lease[l][2] \in 1 .. minted[lease[l][1]]
      BY <2>1, LeaseTypes
    <3>2. lease[l][2] <= minted'[lease[l][1]]
      BY <3>1, MintedGrows
    <3> QED BY <2>1, <3>2
  <2>2. CASE Grabs(l)
    <3>1. PICK j \in Job : /\ lease'[l] = <<j, minted[j] + 1>>
                           /\ minted'[j] = minted[j] + 1
      BY <2>2 DEF Grabs
    <3>2. lease'[l][1] = j /\ lease'[l][2] = minted'[j]
      BY <3>1
    <3> QED BY <3>2, MintedGrows
  <2> QED BY <1>1, <2>1, <2>2, LeaseStep
<1>2. ASSUME NEW l \in Loop, NEW m \in Loop, l # m, Grabs(l), Stays(m), pc[m] # "poll"
      PROVE  lease'[l] # lease'[m]
  <2>1. PICK j \in Job : lease'[l] = <<j, minted[j] + 1>>
    BY <1>2 DEF Grabs
  <2>2. lease[m][2] \in 1 .. minted[lease[m][1]] /\ lease[m][1] \in Job
    BY <1>2, LeaseTypes
  <2>3. lease[m] # <<j, minted[j] + 1>>
    BY <2>2, MintedGrows
  <2> QED BY <1>2, <2>1, <2>3 DEF Stays
<1>3. ASSUME NEW l \in Loop, NEW m \in Loop, l # m, pc'[l] # "poll"
      PROVE  lease'[l] # lease'[m]
  <2>1. CASE pc'[m] = "poll"
    BY <1>3, <2>1, TypeStep DEF EnduroqTypeOK
  <2>2. CASE pc'[m] # "poll"
    <3>1. \/ pc[l] # "poll" /\ lease'[l] = lease[l]
          \/ Grabs(l)
      BY <1>3, LeaseStep
    <3>2. \/ pc[m] # "poll" /\ lease'[m] = lease[m]
          \/ Grabs(m)
      BY <2>2, LeaseStep
    <3>3. Stays(l) \/ Stays(m)
      BY <1>3, LoopsStep
    <3>4. CASE Grabs(l)
      <4>1. Stays(m) /\ pc[m] # "poll"
        BY <2>2, <3>3, <3>4 DEF Grabs, Stays
      <4> QED BY <1>2, <1>3, <3>4, <4>1
    <3>5. CASE Grabs(m)
      <4>1. Stays(l) /\ pc[l] # "poll"
        BY <1>3, <3>3, <3>5 DEF Grabs, Stays
      <4> QED BY <1>2, <1>3, <3>5, <4>1
    <3>6. CASE /\ pc[l] # "poll" /\ lease'[l] = lease[l]
               /\ pc[m] # "poll" /\ lease'[m] = lease[m]
      BY <1>3, <3>6 DEF EnduroqInv, LoopsApart
    <3> QED BY <3>1, <3>2, <3>4, <3>5, <3>6
  <2> QED BY <2>1, <2>2
<1> QED BY <1>1, <1>3 DEF LoopsApart

\* A fresh token was never heard of; only its loop sends it.
LEMMA SentStep ==
  ASSUME EnduroqInv, [EnduroqNext]_vars
  PROVE  WorkIsSent'
<1>1. ASSUME NEW j \in Job, NEW t \in Token, minted[j] < t
      PROVE  work'[j][t] = "none"
  <2>1. work[j][t] = "none"
    BY <1>1 DEF EnduroqInv, WorkIsSent
  <2>2. ~\E l \in Loop : pc[l] = "post" /\ lease[l] = <<j, t>>
    <3> SUFFICES ASSUME NEW l \in Loop, pc[l] = "post", lease[l] = <<j, t>>
                 PROVE  FALSE
      OBVIOUS
    <3>1. lease[l][2] \in 1 .. minted[lease[l][1]]
      BY LeaseTypes
    <3>2. t \in 1 .. minted[j]
      BY <3>1
    <3> QED BY <1>1, <3>2, MintedGrows
  <2> QED BY <2>1, <2>2, WorkStep DEF WorkMoves
<1>2. ASSUME NEW j \in Job, NEW t \in Token, minted'[j] < t
      PROVE  work'[j][t] = "none"
  <2>1. minted[j] < t
    BY <1>2, MintedGrows, RepositoryAssumption DEF Token
  <2> QED BY <1>1, <2>1
<1>3. ASSUME NEW l \in Loop, pc'[l] = "post"
      PROVE  work'[lease'[l][1]][lease'[l][2]] = "none"
  <2>1. Stays(l) \/ Grabs(l)
    BY <1>3, LoopsStep DEF LoopMoves, Sends, Hears, Ends
  <2>2. CASE Stays(l)
    <3> DEFINE j == lease[l][1]
               t == lease[l][2]
    <3>1. pc[l] = "post" /\ lease'[l] = lease[l]
      BY <1>3, <2>2 DEF Stays
    <3>2. j \in Job /\ t \in Token /\ lease[l] = <<j, t>>
      BY <3>1, LeaseTypes
    <3>3. work[j][t] = "none"
      BY <3>1 DEF EnduroqInv, WorkIsSent
    <3>4. \A m \in Loop : pc[m] = "post" /\ lease[m] = <<j, t>> => m = l
      BY <3>2 DEF EnduroqInv, LoopsApart
    <3> HIDE DEF j, t
    <3>5. work'[j][t] = "none"
      BY <1>3, <3>2, <3>3, <3>4, WorkStep DEF WorkMoves
    <3> QED BY <3>1, <3>5 DEF j, t
  <2>3. CASE Grabs(l)
    <3>1. PICK j \in Job : /\ lease'[l] = <<j, minted[j] + 1>>
                           /\ jobs[j].status = "queued"
      BY <2>3 DEF Grabs
    <3>2. minted[j] + 1 \in Token /\ minted[j] < minted[j] + 1
      BY <3>1, NextTokenType, MintedGrows
    <3> QED BY <1>1, <3>1, <3>2
  <2> QED BY <2>1, <2>2, <2>3
<1> QED BY <1>2, <1>3 DEF WorkIsSent

\* What a loop has heard stays what the worker said.
LEMMA HeardStep ==
  ASSUME EnduroqInv, [EnduroqNext]_vars
  PROVE  OutcomesAreHeard'
<1> SUFFICES ASSUME NEW l \in Loop, pc'[l] = "settle"
             PROVE  LET w == work'[lease'[l][1]][lease'[l][2]]
                    IN /\ outcome'[l] = "success" => w = "ok"
                       /\ outcome'[l] = "fatal" => w = "fatal"
                       /\ outcome'[l] = "reject" => w = "rejected"
  BY DEF OutcomesAreHeard
<1> DEFINE j == lease[l][1]
           t == lease[l][2]
<1>1. Stays(l) \/ Hears(l)
  BY LoopsStep DEF LoopMoves, Grabs, Sends, Ends
<1>2. lease'[l] = lease[l] /\ pc[l] \in {"fetch", "settle"}
  BY <1>1 DEF Stays, Hears
<1>3. j \in Job /\ t \in Token
  BY <1>2, LeaseTypes
<1>4. /\ outcome'[l] = "success" => work[j][t] = "ok"
      /\ outcome'[l] = "fatal" => work[j][t] = "fatal"
      /\ outcome'[l] = "reject" => work[j][t] = "rejected"
  BY <1>1 DEF Stays, Hears, Heard, EnduroqInv, OutcomesAreHeard
<1>5. work[j][t] \in {"ok", "fatal", "rejected"} => work'[j][t] = work[j][t]
  BY <1>3, VerdictsStay DEF Verdicts, Refusals
<1> QED BY <1>2, <1>4, <1>5

-----------------------------------------------------------------------------
(* The verdicts are the workers' own *)

\* A new success, or a new failure that no lack of retries explains, came with
\* the last token of the job, from the worker that said so.
Justified(k) ==
  /\ NewSuccess(k) => /\ minted[k] \in Token
                      /\ work[k][minted[k]] = "ok"
  /\ NewFailure(k) => \/ OutOfRetries(jobs'[k])
                      \/ /\ minted[k] \in Token
                         /\ work[k][minted[k]] \in {"rejected", "fatal"}

\* The dispatcher's verdicts.
LEMMA SettleVerdict ==
  ASSUME EnduroqInv, NEW l \in Loop, Settle(l), NEW k \in Job
  PROVE  Justified(k)
<1> DEFINE j == lease[l][1]
           t == lease[l][2]
           o == outcome[l]
<1>1. IInv /\ j \in Job /\ t \in Token
  BY LeaseTypes DEF Settle, EnduroqInv
<1>2. /\ o = "success" => work[j][t] = "ok"
      /\ o = "fatal" => work[j][t] = "fatal"
      /\ o = "reject" => work[j][t] = "rejected"
  BY DEF Settle, EnduroqInv, OutcomesAreHeard
<1>3. \/ Ack(j, t)
      \/ o = "success" /\ Succeed(j, t)
      \/ Fail(j, t, TRUE)
      \/ o = "fatal" /\ Fail(j, t, FALSE)
      \/ Nack(j, t)
      \/ o = "reject" /\ Reject(j, t)
      \/ UNCHANGED repoVars
  <2>1. CASE o = "failure"
    <3>1. (o = "failure") = TRUE
      BY <2>1
    <3> QED BY <2>1, <3>1 DEF Settle
  <2>2. CASE o = "fatal"
    <3>1. (o = "failure") = FALSE
      BY <2>2
    <3> QED BY <2>2, <3>1 DEF Settle
  <2>3. CASE o \notin {"failure", "fatal"}
    BY <2>3 DEF Settle
  <2> QED BY <2>1, <2>2, <2>3
<1> HIDE DEF j, t, o
<1>4. CASE Ack(j, t)
  <2>1. Kept(jobs'[k], jobs[k])
    BY <1>1, <1>4, AckSteps, SameIsKept DEF Others
  <2> QED BY <2>1, NoVerdict DEF Justified
<1>5. CASE o = "success" /\ Succeed(j, t)
  BY <1>1, <1>2, <1>5, SucceedVerdict DEF Justified
<1>6. CASE Fail(j, t, TRUE)
  BY <1>1, <1>6, RetryVerdict DEF Unforced, Justified
<1>7. CASE o = "fatal" /\ Fail(j, t, FALSE)
  BY <1>1, <1>2, <1>7, FatalVerdict DEF Justified
<1>8. CASE Nack(j, t)
  BY <1>1, <1>8, NackVerdict DEF Unforced, Justified
<1>9. CASE o = "reject" /\ Reject(j, t)
  BY <1>1, <1>2, <1>9, RejectVerdict DEF Justified
<1>10. CASE UNCHANGED repoVars
  BY <1>10, NoVerdict DEF repoVars, Justified
<1> QED BY <1>3, <1>4, <1>5, <1>6, <1>7, <1>8, <1>9, <1>10

\* The callbacks' verdicts.
LEMMA WorkerVerdict ==
  ASSUME EnduroqInv, NEW j \in Job, NEW t \in Token, WorkerStep(j, t), NEW k \in Job
  PROVE  Justified(k)
<1>1. IInv
  BY DEF EnduroqInv
<1>2. \/ jobs' = jobs
      \/ Extension(j, t)
      \/ work[j][t] = "ok" /\ Succeed(j, t)
      \/ Fail(j, t, TRUE)
  BY DEF WorkerStep, Receive, Finish, Die, Beat, Report, ApiRetryable, repoVars
<1>3. CASE jobs' = jobs
  BY <1>3, NoVerdict DEF Justified
<1>4. CASE Extension(j, t)
  <2>1. Kept(jobs'[k], jobs[k])
    BY <1>1, <1>4, HeartbeatSteps, SameIsKept DEF Others, Extension
  <2> QED BY <2>1, NoVerdict DEF Justified
<1>5. CASE work[j][t] = "ok" /\ Succeed(j, t)
  BY <1>1, <1>5, SucceedVerdict DEF Justified
<1>6. CASE Fail(j, t, TRUE)
  BY <1>1, <1>6, RetryVerdict DEF Unforced, Justified
<1> QED BY <1>2, <1>3, <1>4, <1>5, <1>6

\* All verdicts: those of the others are out of retries.
LEMMA VerdictStep ==
  ASSUME EnduroqInv, [EnduroqNext]_vars, NEW k \in Job
  PROVE  Justified(k)
<1>1. IInv
  BY DEF EnduroqInv
<1>2. CASE jobs' = jobs
  BY <1>2, NoVerdict DEF Justified
<1>3. ASSUME NEW j \in Job, NEW q \in Queue, Grab(j, q)
      PROVE  Justified(k)
  BY <1>1, <1>3, GrabSteps, NoVerdict DEF Others, Justified
<1>4. ASSUME NEW l \in Loop, LoopStep(l)
      PROVE  jobs' = jobs \/ Settle(l) \/ \E j \in Job : Grab(j, QueueOf[l])
  BY <1>4 DEF LoopStep, LoopGrab, Post, HearAnswer, FetchFails, Conclude, LoopAborts, repoVars
<1>5. ASSUME NEW j \in Job, Client(j)
      PROVE  Justified(k)
  <2>1. Others(j) /\ \/ \E m : Inserted(jobs'[j], jobs[j], m)
                     \/ Kept(jobs'[j], jobs[j])
                     \/ Withdrawn(jobs'[j], jobs[j])
    BY <1>1, <1>5, EnqueueSteps, CancelSteps DEF Client
  <2> QED BY <2>1, NoVerdict DEF Others, Justified
<1>6. ASSUME NEW r \in Reaper, Reap(r)
      PROVE  Justified(k)
  BY <1>1, <1>6, ReapVerdict DEF Unforced, Justified
<1>7. CASE Tick
  BY <1>1, <1>7, TickSteps, NoVerdict DEF Justified
<1> QED BY <1>2, <1>3, <1>4, <1>5, <1>6, <1>7, SettleVerdict, WorkerVerdict, LoopAssumption
    DEF EnduroqNext, Environment, vars, repoVars

\* The token under which a job got its verdict stays its last.
LEMMA SettledToken ==
  ASSUME EnduroqInv, [EnduroqNext]_vars, NEW k \in Job,
         jobs'[k].status \in {"succeeded", "failed"}
  PROVE  minted'[k] = minted[k] /\ minted'[k] \in Token
<1>1. RowInv(jobs'[k], minted'[k])
  BY RepositoryStep, NextInv DEF EnduroqInv, IInv
<1>2. minted'[k] \in Nat /\ minted'[k] >= 1
  BY <1>1 DEF RowInv, AttemptsCounted
<1>3. minted'[k] <= jobs'[k].max_retries + 1 /\ jobs'[k].max_retries \in 0 .. MaxRetries
  BY <1>1 DEF RowInv, AttemptsCounted, Row
<1>4. minted'[k] \in Token
  BY <1>2, <1>3, RepositoryAssumption DEF Token
<1>5. jobs[k].status = "queued" => minted'[k] = minted[k]
  <2>1. IInv /\ [Next]_repoVars
    BY RepositoryStep DEF EnduroqInv
  <2>2. jobs[k].status = "queued" => \/ jobs'[k].status = "queued"
                                     \/ jobs'[k].status = "dispatching"
                                     \/ jobs'[k].status = "cancelled"
    BY <2>1, StepShape
    DEF AllKept, Others, OneRowStep, SomeGivenBack, SomeClosed, Kept, Inserted,
        Grabbed, GivenBack, Closed, Withdrawn, Completed, Held
  <2> QED BY <2>2
<1> QED BY <1>4, <1>5, MintedStep

\* A success, new or old, is earned.
LEMMA EarnedStep ==
  ASSUME EnduroqInv, [EnduroqNext]_vars
  PROVE  SucceededIsEarned'
<1> SUFFICES ASSUME NEW k \in Job, jobs'[k].status = "succeeded"
             PROVE  jobs'[k].result = minted'[k] /\ work'[k][minted'[k]] = "ok"
  BY DEF SucceededIsEarned
<1>1. RowInv(jobs'[k], minted'[k])
  BY RepositoryStep, NextInv DEF EnduroqInv, IInv
<1>2. jobs'[k].result = minted'[k]
  BY <1>1 DEF RowInv, ResultStored
<1>3. minted'[k] = minted[k] /\ minted[k] \in Token
  BY SettledToken
<1>4. work[k][minted[k]] = "ok"
  BY VerdictStep DEF Justified, NewSuccess, EnduroqInv, SucceededIsEarned
<1>5. work'[k][minted[k]] = "ok"
  BY <1>3, <1>4, VerdictsStay DEF Verdicts
<1> QED BY <1>2, <1>3, <1>5

\* A failure, new or old, is justified.
LEMMA JustifiedStep ==
  ASSUME EnduroqInv, [EnduroqNext]_vars
  PROVE  FailedIsJustified'
<1> SUFFICES ASSUME NEW k \in Job, jobs'[k].status = "failed"
             PROVE  \/ jobs'[k].attempt > jobs'[k].max_retries
                    \/ work'[k][minted'[k]] \in {"rejected", "fatal"}
  BY DEF FailedIsJustified
<1>1. minted'[k] = minted[k] /\ minted[k] \in Token
  BY SettledToken
<1>2. \/ OutOfRetries(jobs'[k])
      \/ work[k][minted[k]] \in {"rejected", "fatal"}
  <2>1. CASE NewFailure(k)
    BY <2>1, VerdictStep DEF Justified
  <2>2. CASE ~NewFailure(k)
    <3>1. jobs[k].status = "failed"
      BY <2>2 DEF NewFailure
    <3>2. \/ jobs[k].attempt > jobs[k].max_retries
          \/ work[k][minted[k]] \in {"rejected", "fatal"}
      BY <3>1 DEF EnduroqInv, FailedIsJustified
    <3>3. jobs'[k] = jobs[k] \/ Kept(jobs'[k], jobs[k])
      <4>1. IInv /\ [Next]_repoVars
        BY RepositoryStep DEF EnduroqInv
      <4> QED BY <3>1, <4>1, StepShape
          DEF AllKept, Others, OneRowStep, SomeGivenBack, SomeClosed, Inserted,
              Grabbed, GivenBack, Closed, Withdrawn, Completed, Held, Live
    <3> QED BY <3>2, <3>3 DEF Kept, SameTally, OutOfRetries
  <2> QED BY <2>1, <2>2
<1>3. work[k][minted[k]] \in {"rejected", "fatal"} =>
        work'[k][minted[k]] = work[k][minted[k]]
  BY <1>1, VerdictsStay DEF Verdicts, Refusals
<1> QED BY <1>1, <1>2, <1>3 DEF OutOfRetries

-----------------------------------------------------------------------------
(* The theorems *)

\* The invariant holds at the start,
LEMMA EnduroqInitInv == EnduroqInit => EnduroqInv
<1> SUFFICES ASSUME EnduroqInit
             PROVE  EnduroqInv
  OBVIOUS
<1>1. IInv /\ \A j \in Job : jobs[j].status = "absent"
  BY InitInv DEF EnduroqInit, Init, AbsentRow
<1>2. EnduroqTypeOK
  BY <1>1 DEF EnduroqInit, EnduroqTypeOK, IInv
<1>3. LoopsApart /\ OutcomesAreHeard /\ WorkIsSent
  BY DEF EnduroqInit, LoopsApart, OutcomesAreHeard, WorkIsSent
<1>4. SucceededIsEarned /\ FailedIsJustified
  BY <1>1 DEF SucceededIsEarned, FailedIsJustified
<1> QED BY <1>1, <1>2, <1>3, <1>4 DEF EnduroqInv

\* and every step preserves it.
LEMMA EnduroqNextInv == EnduroqInv /\ [EnduroqNext]_vars => EnduroqInv'
<1> SUFFICES ASSUME EnduroqInv, [EnduroqNext]_vars
             PROVE  EnduroqInv'
  OBVIOUS
<1>1. IInv'
  BY RepositoryStep, NextInv DEF EnduroqInv
<1> QED BY <1>1, TypeStep, ApartStep, SentStep, HeardStep, EarnedStep, JustifiedStep
    DEF EnduroqInv

\* Dispatches are never shared between loops, answers are never misread, and the
\* table agrees with them, in every state of the system.
THEOREM EnduroqInvariance == EnduroqSpec => []EnduroqInv
BY EnduroqInitInv, EnduroqNextInv, PTL DEF EnduroqSpec

\* The variables of the system keep their types, and a loop has a lease exactly
\* while it is in a tick, an outcome exactly while it is to write one.
THEOREM EnduroqTypes == EnduroqSpec => []EnduroqTypeOK
<1>1. EnduroqInv => EnduroqTypeOK
  BY DEF EnduroqInv
<1> QED BY <1>1, EnduroqInvariance, PTL

\* A job succeeds only if the worker it was last dispatched to has finished it,
\* whatever requests, answers, servers and workers are lost or late.
THEOREM SuccessIsEarned == EnduroqSpec => []SucceededIsEarned
<1>1. EnduroqInv => SucceededIsEarned
  BY DEF EnduroqInv
<1> QED BY <1>1, EnduroqInvariance, PTL

\* A job fails for good only out of retries, or on its last worker's word.
THEOREM FailureIsJustified == EnduroqSpec => []FailedIsJustified
<1>1. EnduroqInv => FailedIsJustified
  BY DEF EnduroqInv
<1> QED BY <1>1, EnduroqInvariance, PTL

\* No dispatch is sent twice, and what its worker has said stands.
LEMMA AskedOnceStep ==
  ASSUME EnduroqInv, [EnduroqNext]_vars, NEW j \in Job, NEW t \in Token
  PROVE  /\ work[j][t] # "none" =>
              work'[j][t] = work[j][t] \/ work'[j][t] \notin {"none", "sent"}
         /\ work[j][t] \in Refusals \cup Verdicts => work'[j][t] = work[j][t]
<1>1. WorkMoves(j, t)
  BY WorkStep
<1> QED BY <1>1, VerdictsStay DEF WorkMoves

\* A request that was lost or timed out is never sent again under its token: the
\* retry is a new dispatch.
THEOREM DispatchIsAskedOnce == EnduroqSpec => AskedOnce
<1>1. EnduroqInv /\ [EnduroqNext]_vars =>
        [\A j \in Job, t \in Token :
           /\ work[j][t] # "none" =>
                work'[j][t] = work[j][t] \/ work'[j][t] \notin {"none", "sent"}
           /\ work[j][t] \in Refusals \cup Verdicts => work'[j][t] = work[j][t]]_vars
  BY AskedOnceStep
<1> QED BY <1>1, EnduroqInvariance, PTL DEF EnduroqSpec, AskedOnce

\* A write that a dispatcher makes when it ends a tick finds a running job no
\* longer dispatching, and leaves its lease alone, or takes the job away.
LEMMA SettleSparesRunning ==
  ASSUME EnduroqInv, NEW l \in Loop, Settle(l), NEW k \in Job,
         jobs[k].status = "running", jobs'[k].status = "running"
  PROVE  jobs'[k] = jobs[k]
<1> DEFINE j == lease[l][1]
           t == lease[l][2]
<1>1. IInv /\ j \in Job /\ t \in Token
  BY LeaseTypes DEF Settle, EnduroqInv
<1>2. \/ Ack(j, t) \/ Succeed(j, t) \/ Nack(j, t) \/ Reject(j, t)
      \/ \E retryable \in BOOLEAN : Fail(j, t, retryable)
      \/ UNCHANGED repoVars
  BY DEF Settle
<1> HIDE DEF j, t
<1>3. CASE k # j
  BY <1>1, <1>2, <1>3, AckSteps, SucceedSteps, NackSteps, RejectSteps, FailSteps
  DEF Others, repoVars
<1>4. CASE k = j /\ (Ack(j, t) \/ Nack(j, t) \/ Reject(j, t))
  BY <1>4 DEF Ack, Nack, Reject, Update, Holds
<1>5. CASE k = j /\ (Succeed(j, t) \/ \E retryable \in BOOLEAN : Fail(j, t, retryable))
  <2>1. CASE ~Holds(j, t, Held)
    BY <1>5, <2>1 DEF Succeed, Fail, Update
  <2>2. CASE Holds(j, t, Held) /\ Succeed(j, t)
    <3>1. jobs[j] \in Row /\ jobs \in [Job -> Row]
      BY <1>1 DEF IInv, TypeOK
    <3>2. jobs'[j].status = "succeeded"
      BY <1>1, <2>2, <3>1 DEF Succeed, Update, Released, Row
    <3> QED BY <1>5, <3>2
  <2>3. CASE Holds(j, t, Held) /\ \E retryable \in BOOLEAN : Fail(j, t, retryable)
    <3>1. jobs[j] \in Row /\ jobs \in [Job -> Row]
      BY <1>1 DEF IInv, TypeOK
    <3>2. jobs'[j].status \in {"queued", "failed"}
      BY <1>1, <2>3, <3>1 DEF Fail, Update, Released, Row
    <3> QED BY <1>5, <3>2
  <2> QED BY <1>5, <2>1, <2>2, <2>3
<1>6. CASE UNCHANGED repoVars
  BY <1>6 DEF repoVars
<1> QED BY <1>2, <1>3, <1>4, <1>5, <1>6

\* A tick ends by its own loop's step.
LEMMA TickEnds ==
  ASSUME EnduroqInv, [EnduroqNext]_vars, NEW l \in Loop, pc[l] = "settle", pc'[l] = "poll"
  PROVE  Settle(l) \/ jobs' = jobs
<1>1. ASSUME NEW m \in Loop, LoopStep(m)
      PROVE  m = l
  <2>1. m # l => Stays(l)
    BY <1>1, LoopShape
  <2> QED BY <2>1 DEF Stays
<1>2. LoopStep(l) => Settle(l) \/ jobs' = jobs
  BY DEF LoopStep, LoopGrab, Post, HearAnswer, FetchFails, Conclude, LoopAborts, repoVars
<1>3. ASSUME NEW j \in Job, NEW t \in Token, WorkerStep(j, t)
      PROVE  FALSE
  BY <1>3 DEF WorkerStep, Receive, Finish, Die, Beat, Report
<1> QED BY <1>1, <1>2, <1>3 DEF EnduroqNext, Environment, vars

\* The writes of the dispatcher never touch the lease of a running job: a
\* heartbeat that comes before the ack keeps what it was granted.
THEOREM AckSparesHeartbeat == EnduroqSpec => AckKeepsHeartbeat
<1>1. EnduroqInv /\ [EnduroqNext]_vars =>
        [\A l \in Loop, j \in Job :
           /\ pc[l] = "settle"
           /\ pc'[l] = "poll"
           /\ jobs[j].status = "running"
           /\ jobs'[j].status = "running"
           => jobs'[j].lease_expires_at = jobs[j].lease_expires_at]_vars
  BY TickEnds, SettleSparesRunning
<1> QED BY <1>1, EnduroqInvariance, PTL DEF EnduroqSpec, AckKeepsHeartbeat

\* Dispatcher, HTTP API, workers and reapers are clients of the repository: what
\* is proved of it for every client holds of the running system.
THEOREM SystemIsAClient == EnduroqSpec => Spec
<1>1. EnduroqInit => Init
  BY DEF EnduroqInit
<1>2. EnduroqInv /\ [EnduroqNext]_vars => [Next]_repoVars
  BY RepositoryStep
<1> QED BY <1>1, <1>2, EnduroqInvariance, PTL DEF EnduroqSpec, Spec

\* So the system as a whole takes jobs through the lifecycle.
THEOREM SystemRefinement == EnduroqSpec => ImplementsLifecycle
BY SystemIsAClient, Refinement, PTL
=============================================================================

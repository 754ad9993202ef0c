------------------------------ MODULE Enduroq ------------------------------
(***************************************************************************)
(* The running system: the dispatcher's loops, the workers they POST jobs  *)
(* to, the callbacks those make through the HTTP API, the clients and the  *)
(* reapers, all of them over the table of JobRepository.                   *)
(*                                                                         *)
(* A dispatch request is identified by its job and lease token.  Requests  *)
(* may be lost or arrive after the dispatcher gave up on them, answers may *)
(* be lost, workers may die, and every callback may be repeated or come    *)
(* arbitrarily late.                                                       *)
(***************************************************************************)
EXTENDS JobRepository

CONSTANTS
  Loop,          \* the dispatcher loops, ENDUROQ_WORKERS_PER_QUEUE per queue
  QueueOf        \* the queue that each loop serves

VARIABLES
  pc,        \* where each loop's tick() stands
  lease,     \* the <<job, token>> that a loop has grabbed, or NULL
  outcome,   \* the DispatchOutcome that a loop is about to write
  work       \* what became of the dispatch of job j under token t

vars == <<repoVars, pc, lease, outcome, work>>

Token == 1 .. (MaxRetries + 1)

Refusals == {"busy", "rejected", "broken"}
Verdicts == {"ok", "error", "fatal"}   \* fatal: a failure not to be retried
Outcomes == {"accepted", "success", "failure", "fatal", "busy", "reject", "unknown"}

ASSUME LoopAssumption ==
  /\ QueueOf \in [Loop -> Queue]
  /\ NULL \notin Job \X Token
  /\ NULL \notin Outcomes

EnduroqTypeOK ==
  /\ TypeOK
  /\ pc \in [Loop -> {"poll", "post", "fetch", "settle"}]
  /\ lease \in [Loop -> (Job \X Token) \cup {NULL}]
  /\ outcome \in [Loop -> Outcomes \cup {NULL}]
  /\ work \in [Job -> [Token ->
       {"none", "sent", "working", "dead", "stopped"} \cup Refusals \cup Verdicts]]
  /\ \A l \in Loop : pc[l] = "poll" <=> lease[l] = NULL
  /\ \A l \in Loop : pc[l] = "settle" <=> outcome[l] # NULL

EnduroqInit ==
  /\ Init
  /\ pc = [l \in Loop |-> "poll"]
  /\ lease = [l \in Loop |-> NULL]
  /\ outcome = [l \in Loop |-> NULL]
  /\ work = [j \in Job |-> [t \in Token |-> "none"]]

Works(j, t, w) == work' = [work EXCEPT ![j][t] = w]

-----------------------------------------------------------------------------
(* Dispatcher *)

\* Mutant of LoopGrab: it takes the token from the row as it was selected.
LoopGrabOldRow(l) ==
  /\ pc[l] = "poll"
  /\ \E j \in Job :
       /\ Grab(j, QueueOf[l])
       /\ lease' = [lease EXCEPT ![l] = <<j, minted[j]>>]
  /\ pc' = [pc EXCEPT ![l] = "post"]
  /\ UNCHANGED <<outcome, work>>

\* tick() grabs a job of the loop's queue.
LoopGrab(l) ==
  /\ pc[l] = "poll"
  /\ \E j \in Job :
       /\ Grab(j, QueueOf[l])
       /\ lease' = [lease EXCEPT ![l] = <<j, minted'[j]>>]
  /\ pc' = [pc EXCEPT ![l] = "post"]
  /\ UNCHANGED <<outcome, work>>

\* dispatch() sends the request.
Post(l) ==
  /\ pc[l] = "post"
  /\ Works(lease[l][1], lease[l][2], "sent")
  /\ pc' = [pc EXCEPT ![l] = "fetch"]
  /\ UNCHANGED <<repoVars, lease, outcome>>

\* The answers a worker can give in each stage of its work.  "200" has no
\* readable body with a status: an older worker's, or one cut off on the way.
Answers(w) ==
  CASE w = "working"  -> {"202", "200"}
    [] w = "ok"       -> {"202", "200", "200 success"}
    [] w = "error"    -> {"202", "200", "200 failure"}
    [] w = "fatal"    -> {"202", "200", "200 fatal"}
    [] w = "busy"     -> {"503"}
    [] w = "rejected" -> {"4xx"}
    [] w = "broken"   -> {"5xx"}
    [] OTHER          -> {}

\* Mutant of DispatchOutcome: any 2xx but 202 counts as done.
OkIsSuccess(answer) ==
  CASE answer = "202"         -> "accepted"
    [] answer \in {"200", "200 success"} -> "success"
    [] answer = "200 failure" -> "failure"
    [] answer = "200 fatal"   -> "fatal"
    [] answer = "503"         -> "busy"
    [] answer = "4xx"         -> "reject"
    [] OTHER                  -> "unknown"

\* Mutant of DispatchOutcome: every error status rejects the job.
ErrorIsReject(answer) ==
  CASE answer \in {"202", "200"} -> "accepted"
    [] answer = "200 success"    -> "success"
    [] answer = "200 failure"    -> "failure"
    [] answer = "200 fatal"      -> "fatal"
    [] answer = "503"            -> "busy"
    [] OTHER                     -> "reject"

\* dispatch() reads the answer: what each one means for the job.
DispatchOutcome(answer) ==
  CASE answer \in {"202", "200"} -> "accepted"
    [] answer = "200 success"    -> "success"
    [] answer = "200 failure"    -> "failure"
    [] answer = "200 fatal"      -> "fatal"
    [] answer = "503"            -> "busy"
    [] answer = "4xx"            -> "reject"
    [] OTHER                     -> "unknown"

Conclude(l, o) ==
  /\ pc[l] = "fetch"
  /\ outcome' = [outcome EXCEPT ![l] = o]
  /\ pc' = [pc EXCEPT ![l] = "settle"]
  /\ UNCHANGED <<repoVars, lease, work>>

HearAnswer(l) ==
  /\ pc[l] = "fetch"
  /\ \E answer \in Answers(work[lease[l][1]][lease[l][2]]) :
       Conclude(l, DispatchOutcome(answer))

\* Mutant of FetchFails: a request that failed is sent again.
FetchRetries(l) ==
  /\ pc[l] = "fetch"
  /\ pc' = [pc EXCEPT ![l] = "post"]
  /\ UNCHANGED <<repoVars, lease, outcome, work>>

\* The request times out, or the connection breaks before the status line.
FetchFails(l) == Conclude(l, "unknown")

Poll(l) ==
  /\ pc' = [pc EXCEPT ![l] = "poll"]
  /\ lease' = [lease EXCEPT ![l] = NULL]
  /\ outcome' = [outcome EXCEPT ![l] = NULL]
  /\ UNCHANGED work

\* tick() writes the outcome; no one looks at whether the row still matched.
Settle(l) ==
  /\ pc[l] = "settle"
  /\ LET j == lease[l][1]
         t == lease[l][2]
         o == outcome[l]
     IN \/ o = "accepted" /\ Ack(j, t)
        \/ o = "success" /\ Succeed(j, t)
        \/ o \in {"failure", "fatal"} /\ Fail(j, t, o = "failure")
        \/ o = "busy" /\ Nack(j, t)
        \/ o = "reject" /\ Reject(j, t)
        \/ o = "unknown" /\ UNCHANGED repoVars
  /\ Poll(l)

\* The tick throws (loop() catches it) or the server dies: the grab stays in
\* the table, the rest is forgotten.
LoopAborts(l) ==
  /\ pc[l] # "poll"
  /\ Poll(l)
  /\ UNCHANGED repoVars

LoopStep(l) ==
  LoopGrab(l) \/ Post(l) \/ HearAnswer(l) \/ FetchFails(l) \/ Settle(l) \/ LoopAborts(l)

-----------------------------------------------------------------------------
(* Workers *)

\* A request comes in: the worker starts, or turns it down.
Receive(j, t) ==
  /\ work[j][t] = "sent"
  /\ \E w \in {"working"} \cup Refusals : Works(j, t, w)
  /\ UNCHANGED <<repoVars, pc, lease, outcome>>

Finish(j, t) ==
  /\ work[j][t] = "working"
  /\ \E w \in Verdicts : Works(j, t, w)
  /\ UNCHANGED <<repoVars, pc, lease, outcome>>

Die(j, t) ==
  /\ work[j][t] = "working"
  /\ Works(j, t, "dead")
  /\ UNCHANGED <<repoVars, pc, lease, outcome>>

\* POST /jobs/:id/heartbeat; a worker that is told 409 stops.
Beat(j, t) ==
  /\ work[j][t] = "working"
  /\ Extension(j, t)
  /\ IF Holds(j, t, Held) THEN UNCHANGED work ELSE Works(j, t, "stopped")
  /\ UNCHANGED <<pc, lease, outcome>>

\* body.retryable ? Boolean(body.retryable) : true, for a boolean
ApiRetryable(retryable) == IF retryable THEN retryable ELSE TRUE

\* POST /jobs/:id/result, as often as the worker likes.
Report(j, t) ==
  /\ \/ work[j][t] = "ok" /\ Succeed(j, t)
     \/ work[j][t] = "error" /\ Fail(j, t, ApiRetryable(TRUE))
     \/ work[j][t] = "fatal" /\ Fail(j, t, ApiRetryable(FALSE))
  /\ UNCHANGED <<pc, lease, outcome, work>>

WorkerStep(j, t) ==
  Receive(j, t) \/ Finish(j, t) \/ Die(j, t) \/ Beat(j, t) \/ Report(j, t)

-----------------------------------------------------------------------------

Environment ==
  /\ \/ \E j \in Job : Client(j)
     \/ \E r \in Reaper : Reap(r)
     \/ Tick
  /\ UNCHANGED <<pc, lease, outcome, work>>

EnduroqNext ==
  \/ \E l \in Loop : LoopStep(l)
  \/ \E j \in Job, t \in Token : WorkerStep(j, t)
  \/ Environment

EnduroqSpec == EnduroqInit /\ [][EnduroqNext]_vars

\* Time passes; a loop never stays in a tick (fetch has a timeout) and polls
\* while it does not; a worker does not run forever; the reaper's interval keeps
\* firing, and its second statement cannot fail every time.
Fairness ==
  /\ WF_vars(Tick /\ UNCHANGED <<pc, lease, outcome, work>>)
  /\ \A l \in Loop : WF_vars(LoopStep(l))
  /\ \A j \in Job, t \in Token : WF_vars(Finish(j, t) \/ Die(j, t))
  /\ \A r \in Reaper :
       /\ WF_vars(ReapRequeue(r) /\ UNCHANGED <<pc, lease, outcome, work>>)
       /\ SF_vars(ReapFail(r) /\ UNCHANGED <<pc, lease, outcome, work>>)

FairEnduroqSpec == EnduroqSpec /\ Fairness

-----------------------------------------------------------------------------
(* Properties *)

\* A job is succeeded only if the worker it was last dispatched to has finished
\* it, never because an answer was misread, an outcome was written for another
\* dispatch, or an earlier worker came back.
SucceededIsEarned ==
  \A j \in Job : jobs[j].status = "succeeded" =>
    /\ jobs[j].result = minted[j]
    /\ work[j][minted[j]] = "ok"

\* A job fails for good only when its retries are used up, or when the worker it
\* was last dispatched to refused it with a 4xx or declared the failure final:
\* no crash, timeout, lost answer or late callback fails a job that has retries.
FailedIsJustified ==
  \A j \in Job : jobs[j].status = "failed" =>
    \/ jobs[j].attempt > jobs[j].max_retries
    \/ work[j][minted[j]] \in {"rejected", "fatal"}

\* The dispatcher's own writes never touch the lease of a running job: an ack
\* that comes after the worker's first heartbeat does not cut short the lease
\* which that heartbeat was granted.
AckKeepsHeartbeat ==
  [][\A l \in Loop, j \in Job :
       /\ pc[l] = "settle"
       /\ pc'[l] = "poll"
       /\ jobs[j].status = "running"
       /\ jobs'[j].status = "running"
       => jobs'[j].lease_expires_at = jobs[j].lease_expires_at]_vars

\* Every dispatch is sent at most once, by the one loop that has it, and what a
\* worker has said of it stands: whatever is retried is a new dispatch, under a
\* new token.
AskedOnce ==
  [][\A j \in Job, t \in Token :
       /\ work[j][t] # "none" => work'[j][t] = work[j][t] \/ work'[j][t] \notin {"none", "sent"}
       /\ work[j][t] \in Refusals \cup Verdicts => work'[j][t] = work[j][t]]_vars

\* No job is lost: whatever crashes, hangs or goes missing, every job that was
\* enqueued is settled in the end.
EventuallySettled ==
  \A j \in Job : jobs[j].status \in Live ~> jobs[j].status \in Terminal

\* The inductive invariant behind the verdicts.  No two loops have the same
\* dispatch, and each has one that was really handed out;
LoopsApart ==
  /\ \A l \in Loop : pc[l] # "poll" => lease[l][2] <= minted[lease[l][1]]
  /\ \A l, m \in Loop : l # m /\ pc[l] # "poll" => lease[l] # lease[m]

\* nothing is heard of a dispatch that was not handed out or not sent yet;
WorkIsSent ==
  /\ \A j \in Job, t \in Token : minted[j] < t => work[j][t] = "none"
  /\ \A l \in Loop : pc[l] = "post" => work[lease[l][1]][lease[l][2]] = "none"

\* an outcome that settles a job for good is what the worker said.
OutcomesAreHeard ==
  \A l \in Loop : pc[l] = "settle" =>
    LET w == work[lease[l][1]][lease[l][2]]
    IN /\ outcome[l] = "success" => w = "ok"
       /\ outcome[l] = "fatal" => w = "fatal"
       /\ outcome[l] = "reject" => w = "rejected"

EnduroqInv ==
  /\ EnduroqTypeOK
  /\ IInv
  /\ LoopsApart
  /\ WorkIsSent
  /\ OutcomesAreHeard
  /\ SucceededIsEarned
  /\ FailedIsJustified

\* What the README says of 503: it does not consume a retry, so 503 answers
\* alone never fail a job.
BusyConsumesNoRetry ==
  \A j \in Job : jobs[j].status = "failed" =>
    \E t \in 1 .. minted[j] : work[j][t] # "busy"

\* What the README says of results: a failure reported as not retryable fails
\* the job.
FatalReportFails ==
  [][\A j \in Job, t \in Token :
       /\ work[j][t] = "fatal"
       /\ Report(j, t)
       /\ Holds(j, t, Held)
       => jobs'[j].status = "failed"]_vars
=============================================================================

--------------------------- MODULE JobRepository ---------------------------
(***************************************************************************)
(* The jobs table of MySQL and the methods of class JobRepository that     *)
(* change it, one action per statement or transaction.  Any caller may     *)
(* present any lease token ever handed out for a job, at any moment and    *)
(* any number of times: Next is the most general client of the class, so   *)
(* what holds here holds for every dispatcher, worker and API client.      *)
(*                                                                         *)
(* Time is relative: run_after and lease_expires_at hold the ticks left    *)
(* until that instant, and Tick lets one pass for every row.  A row is due *)
(* once run_after has reached 0, which is where it stays; a lease has      *)
(* expired (lease_expires_at < NOW) once it has gone below 0.              *)
(***************************************************************************)
EXTENDS FiniteSets, Backoff

CONSTANTS
  NULL,         \* SQL NULL
  Job,          \* the ids AUTO_INCREMENT may assign
  Queue,        \* ENDUROQ_QUEUES
  Reaper,       \* the reaper timers, one per replica of the server
  MaxRetries,   \* bound on max_retries, which the client chooses
  RunAfter,     \* the delays a client may ask for with run_after
  AckGrace,     \* ENDUROQ_ACK_GRACE_IN_SEC
  Lease,        \* ENDUROQ_LEASE_IN_SEC
  Extend,       \* the extend_seconds a heartbeat may carry
  NackBackoff,  \* ENDUROQ_NACK_BACKOFF_IN_SEC
  ReapBatch     \* the batch that reapExpired is called with

ASSUME RepositoryAssumption ==
  /\ NULL \notin Int
  /\ NULL \notin Queue
  /\ MaxRetries \in Nat
  /\ RunAfter \subseteq Nat
  /\ AckGrace \in Nat
  /\ Lease \in Nat
  /\ Extend \subseteq Nat
  /\ NackBackoff \in Nat
  /\ ReapBatch \in Nat

VARIABLES
  jobs,     \* the table; a row not inserted yet has status "absent"
  minted,   \* how many lease tokens v4() has produced for each job
  reaping   \* the reapers that are between the two statements of a pass

repoVars == <<jobs, minted, reaping>>

Live     == {"queued", "dispatching", "running"}
Held     == {"dispatching", "running"}
Terminal == {"succeeded", "failed", "cancelled"}

Expired == -1

Row ==
  [ name             : Queue \cup {NULL},
    status           : {"absent"} \cup Live \cup Terminal,
    attempt          : Nat,
    max_retries      : 0 .. MaxRetries,
    run_after        : Nat,
    lease_token      : Nat \cup {NULL},
    lease_expires_at : Nat \cup {Expired, NULL},
    result           : Nat \cup {NULL} ]  \* the token its output came with

AbsentRow ==
  [ name |-> NULL, status |-> "absent", attempt |-> 0, max_retries |-> 0,
    run_after |-> 0, lease_token |-> NULL, lease_expires_at |-> NULL,
    result |-> NULL ]

TypeOK ==
  /\ jobs \in [Job -> Row]
  /\ minted \in [Job -> Nat]
  /\ reaping \subseteq Reaper

Init ==
  /\ jobs = [j \in Job |-> AbsentRow]
  /\ minted = [j \in Job |-> 0]
  /\ reaping = {}

-----------------------------------------------------------------------------
(* What the statements are built from *)

\* Mutant of Released: the expiry is forgotten.
ReleasedTokenOnly(row) == [row EXCEPT !.lease_token = NULL]

\* SET lease_token = NULL, lease_expires_at = NULL
Released(row) == [row EXCEPT !.lease_token = NULL, !.lease_expires_at = NULL]

\* Mutant of RetriesLeft: one too many.
RetriesLeftOffByOne(row) == row.attempt <= row.max_retries + 1

\* attempt <= max_retries: another attempt is allowed.
RetriesLeft(row) == row.attempt <= row.max_retries

\* Mutant of Holds: the WHERE clause does not compare the token.
HoldsAnyToken(j, t, statuses) == jobs[j].status \in statuses

\* WHERE id = j AND status IN statuses AND lease_token = t
Holds(j, t, statuses) ==
  /\ jobs[j].status \in statuses
  /\ jobs[j].lease_token = t

\* UPDATE jobs SET ... WHERE id = j AND where: without a match nothing changes.
Update(j, where, row) ==
  jobs' = IF where THEN [jobs EXCEPT ![j] = row] ELSE jobs

\* Mutant of LeaseExpired: the reaper forgets the jobs no worker has accepted.
ExpiredWhileRunning(row) ==
  /\ row.status = "running"
  /\ row.lease_expires_at = Expired

\* Mutant of LeaseExpired: the reaper takes back leases that still run.
HeldIsExpired(row) == row.status \in Held

LeaseExpired(row) ==
  /\ row.status \in Held
  /\ row.lease_expires_at = Expired

\* What toISO makes of lease_expires_at: of NULL it makes 1970, a time gone by.
ToISO(expiry) == IF expiry = NULL THEN Expired ELSE expiry

-----------------------------------------------------------------------------
(* The methods *)

\* INSERT INTO jobs ...; a null run_after means now, a past one is due.
Enqueue(j, q, m, d) ==
  /\ jobs[j].status = "absent"
  /\ jobs' = [jobs EXCEPT ![j] =
       [AbsentRow EXCEPT !.name = q, !.status = "queued",
                         !.max_retries = m, !.run_after = d]]
  /\ UNCHANGED <<minted, reaping>>

\* Mutant of Grab: it takes over expired leases itself.
GrabTakesExpired(j, q) ==
  /\ jobs[j].status = "queued" \/ LeaseExpired(jobs[j])
  /\ jobs[j].name = q
  /\ jobs[j].run_after = 0
  /\ minted' = [minted EXCEPT ![j] = @ + 1]
  /\ jobs' = [jobs EXCEPT ![j] =
       [jobs[j] EXCEPT !.status = "dispatching",
                       !.attempt = jobs[j].attempt + 1,
                       !.lease_token = minted[j] + 1,
                       !.lease_expires_at = AckGrace]]
  /\ UNCHANGED reaping

\* Mutant of Grab: the lease of a dispatching job does not expire.
GrabWithoutGrace(j, q) ==
  /\ jobs[j].status = "queued"
  /\ jobs[j].name = q
  /\ jobs[j].run_after = 0
  /\ minted' = [minted EXCEPT ![j] = @ + 1]
  /\ jobs' = [jobs EXCEPT ![j] =
       [jobs[j] EXCEPT !.status = "dispatching",
                       !.attempt = jobs[j].attempt + 1,
                       !.lease_token = minted[j] + 1]]
  /\ UNCHANGED reaping

\* The transaction selects a due row of the queue, skipping the locked ones,
\* and writes a lease under a fresh token.
Grab(j, q) ==
  /\ jobs[j].status = "queued"
  /\ jobs[j].name = q
  /\ jobs[j].run_after = 0
  /\ minted' = [minted EXCEPT ![j] = @ + 1]
  /\ jobs' = [jobs EXCEPT ![j] =
       [jobs[j] EXCEPT !.status = "dispatching",
                       !.attempt = jobs[j].attempt + 1,
                       !.lease_token = minted[j] + 1,
                       !.lease_expires_at = AckGrace]]
  /\ UNCHANGED reaping

\* Mutant of Ack: it accepts running jobs too.
AckHeld(j, t) ==
  /\ Update(j, Holds(j, t, Held),
       [jobs[j] EXCEPT !.status = "running", !.lease_expires_at = Lease])
  /\ UNCHANGED <<minted, reaping>>

Ack(j, t) ==
  /\ Update(j, Holds(j, t, {"dispatching"}),
       [jobs[j] EXCEPT !.status = "running", !.lease_expires_at = Lease])
  /\ UNCHANGED <<minted, reaping>>

\* Mutant of Nack: without the IF.
NackAlwaysRequeues(j, t) ==
  /\ Update(j, Holds(j, t, {"dispatching"}),
       [Released(jobs[j]) EXCEPT !.status = "queued", !.run_after = NackBackoff])
  /\ UNCHANGED <<minted, reaping>>

Nack(j, t) ==
  /\ Update(j, Holds(j, t, {"dispatching"}),
       IF RetriesLeft(jobs[j])
       THEN [Released(jobs[j]) EXCEPT !.status = "queued",
                                      !.run_after = NackBackoff]
       ELSE [Released(jobs[j]) EXCEPT !.status = "failed"])
  /\ UNCHANGED <<minted, reaping>>

Reject(j, t) ==
  /\ Update(j, Holds(j, t, {"dispatching"}),
       [Released(jobs[j]) EXCEPT !.status = "failed"])
  /\ UNCHANGED <<minted, reaping>>

\* Mutant of Cancel: the status is not looked at.
CancelAny(j) ==
  /\ Update(j, jobs[j].status # "absent",
       [Released(jobs[j]) EXCEPT !.status = "cancelled"])
  /\ UNCHANGED <<minted, reaping>>

\* SELECT ... FOR UPDATE, then the update: the row is locked throughout.
Cancel(j) ==
  /\ Update(j, jobs[j].status \in Live,
       [Released(jobs[j]) EXCEPT !.status = "cancelled"])
  /\ UNCHANGED <<minted, reaping>>

\* The statement of heartbeat() that changes the table.
Heartbeat(j, t, e) ==
  /\ Update(j, Holds(j, t, Held),
       [jobs[j] EXCEPT !.status = "running", !.lease_expires_at = e])
  /\ UNCHANGED <<minted, reaping>>

Succeed(j, t) ==
  /\ Update(j, Holds(j, t, Held),
       [Released(jobs[j]) EXCEPT !.status = "succeeded", !.result = t])
  /\ UNCHANGED <<minted, reaping>>

\* SELECT ... FOR UPDATE, then one of the two updates.
Fail(j, t, retryable) ==
  /\ \E d \in BackoffDelays(jobs[j].attempt) :
       Update(j, Holds(j, t, Held),
         IF retryable /\ RetriesLeft(jobs[j])
         THEN [Released(jobs[j]) EXCEPT !.status = "queued", !.run_after = d]
         ELSE [Released(jobs[j]) EXCEPT !.status = "failed"])
  /\ UNCHANGED <<minted, reaping>>

\* reapExpired(), first statement: requeue up to ReapBatch expired leases, in
\* no particular order, each with a delay of its own.
ReapRequeue(r) ==
  LET expired == {j \in Job : LeaseExpired(jobs[j]) /\ RetriesLeft(jobs[j])}
  IN /\ r \notin reaping
     /\ \E batch \in SUBSET expired :
          /\ Cardinality(batch) = Least(ReapBatch, Cardinality(expired))
          /\ \E d \in [batch -> 0 .. (BackoffCap + BackoffJitter)] :
               /\ \A j \in batch : d[j] \in BackoffDelays(jobs[j].attempt)
               /\ jobs' = [j \in Job |->
                    IF j \in batch
                    THEN [Released(jobs[j]) EXCEPT !.status = "queued",
                                                   !.run_after = d[j]]
                    ELSE jobs[j]]
     /\ reaping' = reaping \cup {r}
     /\ UNCHANGED minted

\* reapExpired(), second statement: fail every expired lease without retries.
ReapFail(r) ==
  /\ r \in reaping
  /\ jobs' = [j \in Job |->
       IF LeaseExpired(jobs[j]) /\ ~RetriesLeft(jobs[j])
       THEN [Released(jobs[j]) EXCEPT !.status = "failed"]
       ELSE jobs[j]]
  /\ reaping' = reaping \ {r}
  /\ UNCHANGED minted

\* The second statement throws, or the server dies before it.
ReapAbort(r) ==
  /\ r \in reaping
  /\ reaping' = reaping \ {r}
  /\ UNCHANGED <<jobs, minted>>

Elapse(row) ==
  [row EXCEPT !.run_after = IF @ > 0 THEN @ - 1 ELSE @,
              !.lease_expires_at = IF @ \in {NULL, Expired} THEN @ ELSE @ - 1]

\* The database's clock, NOW(3).
Tick ==
  /\ jobs' = [j \in Job |-> Elapse(jobs[j])]
  /\ UNCHANGED <<minted, reaping>>

-----------------------------------------------------------------------------

Client(j) ==
  \/ \E q \in Queue, m \in 0 .. MaxRetries, d \in RunAfter : Enqueue(j, q, m, d)
  \/ Cancel(j)

\* The calls that present the token t of job j.
Write(j, t) ==
  \/ Ack(j, t)
  \/ Nack(j, t)
  \/ Reject(j, t)
  \/ Succeed(j, t)
  \/ \E retryable \in BOOLEAN : Fail(j, t, retryable)

Extension(j, t) == \E e \in Extend \cup {Lease} : Heartbeat(j, t, e)

Reap(r) == ReapRequeue(r) \/ ReapFail(r) \/ ReapAbort(r)

Next ==
  \/ \E j \in Job : Client(j)
  \/ \E j \in Job, q \in Queue : Grab(j, q)
  \/ \E j \in Job : \E t \in 1 .. minted[j] : Write(j, t) \/ Extension(j, t)
  \/ \E r \in Reaper : Reap(r)
  \/ Tick

Spec == Init /\ [][Next]_repoVars

\* The reaper's interval keeps firing, and its second statement does not fail
\* every time.
FairSpec ==
  /\ Spec
  /\ \A r \in Reaper : WF_repoVars(ReapRequeue(r)) /\ SF_repoVars(ReapFail(r))

-----------------------------------------------------------------------------
(* Safety *)

\* grab() never looks at max_retries, yet no job is dispatched more often than
\* once plus its retries: every path back to the queue checks the budget.
RetryBudget ==
  \A j \in Job : minted[j] <= jobs[j].max_retries + 1

\* The result stored with a succeeded job came with the token of its last
\* dispatch: a worker whose lease was reaped cannot complete the job for the
\* worker that has it now, whatever it sends and however late.
ResultOfLastLease ==
  \A j \in Job :
    /\ jobs[j].status = "succeeded" => jobs[j].result = minted[j]
    /\ jobs[j].status # "succeeded" => jobs[j].result = NULL

\* The inductive invariant behind the others.  The two lease columns change with
\* the status: a job is dispatching or running exactly when it has a token and
\* an expiry, so neither the reaper (which looks at the expiry) nor a callback
\* (which looks at the token) can meet half a lease; the token is the last one
\* handed out, a job that waits in the queue has an attempt left, and only a job
\* that was dispatched gets a verdict.
LeaseColumnsAgree(row, n) ==
  IF row.status \in Held
  THEN row.lease_token = n /\ row.lease_expires_at # NULL
  ELSE row.lease_token = NULL /\ row.lease_expires_at = NULL

AttemptsCounted(row, n) ==
  /\ row.attempt = n
  /\ n <= row.max_retries + 1
  /\ row.status = "queued" => n <= row.max_retries
  /\ row.status = "absent" => n = 0
  /\ row.status \in Held \cup {"succeeded", "failed"} => n >= 1

ResultStored(row, n) == row.result = IF row.status = "succeeded" THEN n ELSE NULL

RowInv(row, n) ==
  /\ row \in Row
  /\ n \in Nat
  /\ LeaseColumnsAgree(row, n)
  /\ AttemptsCounted(row, n)
  /\ ResultStored(row, n)

IInv ==
  /\ TypeOK
  /\ \A j \in Job : RowInv(jobs[j], minted[j])

\* succeeded, failed and cancelled are final: no late callback, dispatcher
\* write or reaper pass brings the job back or changes its verdict.
TerminalIsFinal ==
  [][\A j \in Job : jobs[j].status \in Terminal =>
       /\ jobs'[j].status = jobs[j].status
       /\ jobs'[j].result = jobs[j].result
       /\ jobs'[j].attempt = jobs[j].attempt
       /\ jobs'[j].lease_token = jobs[j].lease_token]_repoVars

\* A lease passes to another holder only through the queue, and only to a token
\* that no one held before: a token that has lost the job never gets it back.
LeaseIsNeverHandedOver ==
  [][\A j \in Job : jobs'[j].lease_token # jobs[j].lease_token =>
       \/ jobs'[j].lease_token = NULL
       \/ /\ jobs[j].lease_token = NULL
          /\ jobs'[j].lease_token > minted[j]]_repoVars

\* The status changes that a row has left at most, three for each attempt: its
\* grab, its ack and its end.
MovesLeft(row) ==
  LET attemptsLeft == row.max_retries + 1 - row.attempt
  IN CASE row.status \in Terminal      -> 0
       [] row.status = "queued"        -> 3 * attemptsLeft
       [] row.status = "dispatching"   -> 3 * attemptsLeft + 2
       [] OTHER                        -> 3 * attemptsLeft + 1

\* No job goes round forever between the queue, the workers and the reaper: every
\* change of its status, whoever makes it, leaves fewer to come, and everything
\* else (heartbeats, late calls, time) leaves as many.
EveryMoveCounts ==
  [][\A j \in Job : jobs[j].status # "absent" =>
       /\ 0 <= MovesLeft(jobs'[j])
       /\ IF jobs'[j].status = jobs[j].status
          THEN MovesLeft(jobs'[j]) = MovesLeft(jobs[j])
          ELSE MovesLeft(jobs'[j]) < MovesLeft(jobs[j])]_repoVars

\* No lease stays expired: although a pass requeues at most ReapBatch jobs, in no
\* particular order, and may fail halfway, every expired lease is taken back
\* (or extended or settled by its holder) in the end.
ExpiredIsReaped ==
  \A j \in Job : jobs[j].lease_expires_at = Expired ~>
                   jobs[j].lease_expires_at # Expired

-----------------------------------------------------------------------------
(* The table implements the lifecycle *)

Phase(row) ==
  CASE row.status = "absent" -> "none"
    [] row.status = "queued" -> "waiting"
    [] row.status \in Held  -> "trying"
    [] OTHER                -> row.status

Lifecycle == INSTANCE JobLifecycle WITH
  Budgets  <- 0 .. MaxRetries,
  NoOutput <- NULL,
  phase    <- [j \in Job |-> Phase(jobs[j])],
  budget   <- [j \in Job |-> jobs[j].max_retries],
  tries    <- [j \in Job |-> jobs[j].attempt],
  output   <- [j \in Job |-> jobs[j].result]

\* Whatever its callers do, and in whatever order, the class takes a job through
\* the lifecycle the README draws: bounded tries, one at a time, settled once,
\* and completed only by the try under way.
ImplementsLifecycle == Lifecycle!Spec
=============================================================================

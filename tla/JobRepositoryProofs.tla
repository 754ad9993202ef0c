------------------------ MODULE JobRepositoryProofs ------------------------
(***************************************************************************)
(* Theorems about JobRepository, for any number of jobs, queues, reapers   *)
(* and retries, any timer values and any client.                           *)
(***************************************************************************)
EXTENDS JobRepository, TLAPS

-----------------------------------------------------------------------------
(* What the statements do to one row *)

\* A job taken back with a retry left waits in the queue in good order.
LEMMA RequeueRow ==
  ASSUME NEW row, NEW n, RowInv(row, n), row.status \in Held, RetriesLeft(row),
         NEW d \in Nat
  PROVE  RowInv([Released(row) EXCEPT !.status = "queued", !.run_after = d], n)
BY RepositoryAssumption
DEF RowInv, Row, LeaseColumnsAgree, AttemptsCounted, ResultStored, Released,
    RetriesLeft, Held, Live, Terminal, Expired

\* So does one that is taken back for good.
LEMMA CloseRow ==
  ASSUME NEW row, NEW n, RowInv(row, n), row.status \in Live,
         NEW s \in {"failed", "cancelled"}, s = "failed" => row.status \in Held
  PROVE  RowInv([Released(row) EXCEPT !.status = s], n)
BY RepositoryAssumption
DEF RowInv, Row, LeaseColumnsAgree, AttemptsCounted, ResultStored, Released,
    Held, Live, Terminal, Expired

\* The holder's result completes the job.
LEMMA CompleteRow ==
  ASSUME NEW row, NEW n, RowInv(row, n), row.status \in Held, row.lease_token = n
  PROVE  RowInv([Released(row) EXCEPT !.status = "succeeded", !.result = n], n)
BY RepositoryAssumption
DEF RowInv, Row, LeaseColumnsAgree, AttemptsCounted, ResultStored, Released,
    Held, Live, Terminal, Expired

\* Ack and heartbeat.
LEMMA ExtendRow ==
  ASSUME NEW row, NEW n, RowInv(row, n), row.status \in Held, NEW e \in Nat
  PROVE  RowInv([row EXCEPT !.status = "running", !.lease_expires_at = e], n)
<1> DEFINE new == [row EXCEPT !.status = "running", !.lease_expires_at = e]
<1>1. row \in Row /\ n \in Nat
  BY DEF RowInv
<1>2. new \in Row
  BY <1>1 DEF Row, Live
<1>3. /\ new.status = "running"
      /\ new.lease_expires_at = e
      /\ new.lease_token = row.lease_token
      /\ new.attempt = row.attempt
      /\ new.max_retries = row.max_retries
      /\ new.result = row.result
  BY <1>1 DEF Row
<1>4. LeaseColumnsAgree(new, n)
  BY <1>3, RepositoryAssumption DEF LeaseColumnsAgree, RowInv, Held
<1>5. AttemptsCounted(new, n) /\ ResultStored(new, n)
  BY <1>3 DEF AttemptsCounted, ResultStored, RowInv, Held
<1> QED BY <1>1, <1>2, <1>4, <1>5 DEF RowInv

\* A lease under the next token.
LEMMA GrabRow ==
  ASSUME NEW row, NEW n, RowInv(row, n), row.status = "queued"
  PROVE  RowInv([row EXCEPT !.status = "dispatching", !.attempt = row.attempt + 1,
                            !.lease_token = n + 1, !.lease_expires_at = AckGrace],
                n + 1)
<1> DEFINE new == [row EXCEPT !.status = "dispatching", !.attempt = row.attempt + 1,
                              !.lease_token = n + 1, !.lease_expires_at = AckGrace]
<1>1. row \in Row /\ n \in Nat
  BY DEF RowInv
<1>0. row.attempt + 1 \in Nat /\ n + 1 \in Nat /\ AckGrace \in Nat
  BY <1>1, RepositoryAssumption DEF Row
<1>2. new \in Row
  BY <1>1, <1>0 DEF Row, Live
<1>3. /\ new.status = "dispatching"
      /\ new.attempt = row.attempt + 1
      /\ new.lease_token = n + 1
      /\ new.lease_expires_at = AckGrace
      /\ new.max_retries = row.max_retries
      /\ new.result = row.result
  BY <1>1 DEF Row
<1>4. LeaseColumnsAgree(new, n + 1)
  BY <1>3, RepositoryAssumption DEF LeaseColumnsAgree, Held
<1>5. AttemptsCounted(new, n + 1)
  BY <1>1, <1>3, RepositoryAssumption DEF AttemptsCounted, RowInv, Row
<1>6. ResultStored(new, n + 1)
  BY <1>3 DEF ResultStored, RowInv
<1> QED BY <1>1, <1>2, <1>4, <1>5, <1>6 DEF RowInv

\* A fresh row of a queue.
LEMMA NewRow ==
  ASSUME NEW q \in Queue, NEW m \in 0 .. MaxRetries, NEW d \in Nat
  PROVE  RowInv([AbsentRow EXCEPT !.name = q, !.status = "queued",
                                  !.max_retries = m, !.run_after = d], 0)
<1> DEFINE new == [AbsentRow EXCEPT !.name = q, !.status = "queued",
                                    !.max_retries = m, !.run_after = d]
<1>1. AbsentRow \in Row
  BY RepositoryAssumption DEF AbsentRow, Row
<1>2. new \in Row
  BY <1>1 DEF Row, Live
<1>3. /\ new.status = "queued"
      /\ new.attempt = 0
      /\ new.max_retries = m
      /\ new.lease_token = NULL
      /\ new.lease_expires_at = NULL
      /\ new.result = NULL
  BY DEF AbsentRow
<1>4. LeaseColumnsAgree(new, 0) /\ ResultStored(new, 0)
  BY <1>3 DEF LeaseColumnsAgree, ResultStored, Held
<1>5. AttemptsCounted(new, 0)
  BY <1>3 DEF AttemptsCounted, Held
<1> QED BY <1>2, <1>4, <1>5 DEF RowInv

\* A tick of the clock.
LEMMA ElapseRow ==
  ASSUME NEW row, NEW n, RowInv(row, n)
  PROVE  RowInv(Elapse(row), n)
<1> DEFINE new == Elapse(row)
<1>1. row \in Row /\ n \in Nat
  BY DEF RowInv
<1>2. /\ new.status = row.status
      /\ new.attempt = row.attempt
      /\ new.lease_token = row.lease_token
      /\ new.max_retries = row.max_retries
      /\ new.result = row.result
      /\ new.run_after = IF row.run_after > 0 THEN row.run_after - 1 ELSE row.run_after
      /\ new.lease_expires_at = IF row.lease_expires_at \in {NULL, Expired}
                                THEN row.lease_expires_at
                                ELSE row.lease_expires_at - 1
  BY <1>1 DEF Row, Elapse
<1>3. /\ new.run_after \in Nat
      /\ new.lease_expires_at \in Nat \cup {Expired, NULL}
      /\ row.lease_expires_at # NULL => new.lease_expires_at # NULL
      /\ row.lease_expires_at = NULL => new.lease_expires_at = NULL
  BY <1>1, <1>2, RepositoryAssumption DEF Row, Expired
<1>4. new \in Row
  BY <1>1, <1>3 DEF Row, Elapse
<1>5. LeaseColumnsAgree(new, n)
  BY <1>2, <1>3 DEF LeaseColumnsAgree, RowInv
<1>6. AttemptsCounted(new, n) /\ ResultStored(new, n)
  BY <1>2 DEF AttemptsCounted, ResultStored, RowInv
<1> QED BY <1>1, <1>4, <1>5, <1>6 DEF RowInv

-----------------------------------------------------------------------------
(* The inductive invariant *)

\* A step that leaves every row in good order preserves the invariant.
LEMMA RowByRow ==
  ASSUME jobs' = [k \in Job |-> jobs'[k]],
         minted' = [k \in Job |-> minted'[k]],
         \A k \in Job : RowInv(jobs'[k], minted'[k]),
         reaping' \subseteq Reaper
  PROVE  IInv'
BY DEF IInv, TypeOK, RowInv

\* So does one that writes one row, or none.
LEMMA OneRow ==
  ASSUME IInv, NEW j \in Job, NEW row, NEW where \in BOOLEAN,
         Update(j, where, row),
         where => RowInv(row, minted[j]),
         UNCHANGED <<minted, reaping>>
  PROVE  IInv'
<1>1. /\ jobs' = [k \in Job |-> jobs'[k]]
      /\ minted' = [k \in Job |-> minted'[k]]
      /\ reaping' \subseteq Reaper
  BY DEF IInv, TypeOK, Update
<1>2. ASSUME NEW k \in Job
      PROVE  RowInv(jobs'[k], minted'[k])
  BY DEF IInv, TypeOK, Update
<1> QED BY <1>1, <1>2, RowByRow

\* A backoff delay is a natural number.
LEMMA BackoffDelaysType ==
  ASSUME NEW attempt, NEW d \in BackoffDelays(attempt)
  PROVE  d \in Nat /\ d \in 0 .. (BackoffCap + BackoffJitter)
BY BackoffAssumption DEF BackoffDelays

\* Whoever presents a token that the row has, presents the last one.
LEMMA HolderHasLastToken ==
  ASSUME IInv, NEW j \in Job, NEW t, NEW statuses \in SUBSET Held, Holds(j, t, statuses)
  PROVE  /\ RowInv(jobs[j], minted[j])
         /\ jobs[j].status \in Held
         /\ t = minted[j]
BY DEF IInv, Holds, RowInv, LeaseColumnsAgree

\* The empty table.
LEMMA InitInv == Init => IInv
<1>1. AbsentRow \in Row
  BY RepositoryAssumption DEF AbsentRow, Row
<1>2. RowInv(AbsentRow, 0)
  BY <1>1 DEF RowInv, AbsentRow, LeaseColumnsAgree, AttemptsCounted, ResultStored, Held
<1> QED BY <1>1, <1>2 DEF Init, IInv, TypeOK

\* Each statement preserves the invariant: an insert,
LEMMA EnqueueInv ==
  ASSUME IInv, NEW j \in Job, NEW q \in Queue, NEW m \in 0 .. MaxRetries,
         NEW d \in RunAfter, Enqueue(j, q, m, d)
  PROVE  IInv'
<1> DEFINE row == [AbsentRow EXCEPT !.name = q, !.status = "queued",
                                    !.max_retries = m, !.run_after = d]
<1>1. minted[j] = 0
  BY DEF Enqueue, IInv, RowInv, AttemptsCounted
<1>2. RowInv(row, minted[j])
  BY <1>1, NewRow, RepositoryAssumption
<1>3. Update(j, TRUE, row) /\ UNCHANGED <<minted, reaping>>
  BY DEF Enqueue, Update
<1> QED BY <1>2, <1>3, OneRow

\* the grab of a due row,
LEMMA GrabInv ==
  ASSUME IInv, NEW j \in Job, NEW q \in Queue, Grab(j, q)
  PROVE  IInv'
<1>1. RowInv(jobs[j], minted[j]) /\ jobs[j].status = "queued"
  BY DEF IInv, Grab
<1>2. /\ jobs' = [k \in Job |-> jobs'[k]]
      /\ minted' = [k \in Job |-> minted'[k]]
      /\ reaping' \subseteq Reaper
  BY DEF IInv, TypeOK, Grab
<1>3. RowInv(jobs'[j], minted'[j])
  <2>1. /\ jobs'[j] = [jobs[j] EXCEPT !.status = "dispatching",
                                     !.attempt = jobs[j].attempt + 1,
                                     !.lease_token = minted[j] + 1,
                                     !.lease_expires_at = AckGrace]
        /\ minted'[j] = minted[j] + 1
    BY DEF IInv, TypeOK, Grab
  <2>2. RowInv([jobs[j] EXCEPT !.status = "dispatching",
                               !.attempt = jobs[j].attempt + 1,
                               !.lease_token = minted[j] + 1,
                               !.lease_expires_at = AckGrace],
               minted[j] + 1)
    BY <1>1, GrabRow
  <2> QED BY <2>1, <2>2
<1>4. ASSUME NEW k \in Job, k # j
      PROVE  RowInv(jobs'[k], minted'[k])
  BY <1>4 DEF IInv, TypeOK, Grab
<1> QED BY <1>2, <1>3, <1>4, RowByRow

\* an ack,
LEMMA AckInv ==
  ASSUME IInv, NEW j \in Job, NEW t, Ack(j, t)
  PROVE  IInv'
<1> DEFINE where == Holds(j, t, {"dispatching"})
<1>1. where => RowInv([jobs[j] EXCEPT !.status = "running", !.lease_expires_at = Lease],
                      minted[j])
  BY HolderHasLastToken, ExtendRow, RepositoryAssumption DEF Held
<1> QED BY <1>1, OneRow DEF Ack, Holds

\* a nack,
LEMMA NackInv ==
  ASSUME IInv, NEW j \in Job, NEW t, Nack(j, t)
  PROVE  IInv'
<1> DEFINE row == IF RetriesLeft(jobs[j])
                  THEN [Released(jobs[j]) EXCEPT !.status = "queued",
                                                 !.run_after = NackBackoff]
                  ELSE [Released(jobs[j]) EXCEPT !.status = "failed"]
<1>1. ASSUME Holds(j, t, {"dispatching"})
      PROVE  RowInv(row, minted[j])
  <2>1. RowInv(jobs[j], minted[j]) /\ jobs[j].status \in Held
    BY <1>1, HolderHasLastToken DEF Held
  <2>2. CASE RetriesLeft(jobs[j])
    BY <2>1, <2>2, RequeueRow, RepositoryAssumption
  <2>3. CASE ~RetriesLeft(jobs[j])
    BY <2>1, <2>3, CloseRow DEF Held, Live
  <2> QED BY <2>2, <2>3
<1> QED BY <1>1, OneRow DEF Nack, Holds

\* a reject,
LEMMA RejectInv ==
  ASSUME IInv, NEW j \in Job, NEW t, Reject(j, t)
  PROVE  IInv'
<1>1. ASSUME Holds(j, t, {"dispatching"})
      PROVE  RowInv([Released(jobs[j]) EXCEPT !.status = "failed"], minted[j])
  BY <1>1, HolderHasLastToken, CloseRow DEF Held, Live
<1> QED BY <1>1, OneRow DEF Reject, Holds

\* a cancellation,
LEMMA CancelInv ==
  ASSUME IInv, NEW j \in Job, Cancel(j)
  PROVE  IInv'
<1>1. ASSUME jobs[j].status \in Live
      PROVE  RowInv([Released(jobs[j]) EXCEPT !.status = "cancelled"], minted[j])
  BY <1>1, CloseRow DEF IInv
<1>2. (jobs[j].status \in Live) \in BOOLEAN
  OBVIOUS
<1> QED BY <1>1, <1>2, OneRow DEF Cancel

\* a heartbeat,
LEMMA HeartbeatInv ==
  ASSUME IInv, NEW j \in Job, NEW t, NEW e \in Nat, Heartbeat(j, t, e)
  PROVE  IInv'
<1>1. ASSUME Holds(j, t, Held)
      PROVE  RowInv([jobs[j] EXCEPT !.status = "running", !.lease_expires_at = e],
                    minted[j])
  BY <1>1, HolderHasLastToken, ExtendRow
<1> QED BY <1>1, OneRow DEF Heartbeat, Holds

\* a result,
LEMMA SucceedInv ==
  ASSUME IInv, NEW j \in Job, NEW t, Succeed(j, t)
  PROVE  IInv'
<1>1. ASSUME Holds(j, t, Held)
      PROVE  RowInv([Released(jobs[j]) EXCEPT !.status = "succeeded", !.result = t],
                    minted[j])
  <2>1. RowInv(jobs[j], minted[j]) /\ jobs[j].status \in Held /\ t = minted[j]
    BY <1>1, HolderHasLastToken
  <2>2. jobs[j].lease_token = minted[j]
    BY <2>1 DEF RowInv, LeaseColumnsAgree
  <2> QED BY <2>1, <2>2, CompleteRow
<1> QED BY <1>1, OneRow DEF Succeed, Holds

\* a failure,
LEMMA FailInv ==
  ASSUME IInv, NEW j \in Job, NEW t, NEW retryable \in BOOLEAN, Fail(j, t, retryable)
  PROVE  IInv'
<1> DEFINE row(d) == IF retryable /\ RetriesLeft(jobs[j])
                     THEN [Released(jobs[j]) EXCEPT !.status = "queued", !.run_after = d]
                     ELSE [Released(jobs[j]) EXCEPT !.status = "failed"]
<1>1. PICK d \in BackoffDelays(jobs[j].attempt) : Update(j, Holds(j, t, Held), row(d))
  BY DEF Fail
<1>2. d \in Nat
  BY BackoffDelaysType
<1>3. ASSUME Holds(j, t, Held)
      PROVE  RowInv(row(d), minted[j])
  <2>1. RowInv(jobs[j], minted[j]) /\ jobs[j].status \in Held
    BY <1>3, HolderHasLastToken
  <2>2. CASE retryable /\ RetriesLeft(jobs[j])
    BY <1>2, <2>1, <2>2, RequeueRow
  <2>3. CASE ~(retryable /\ RetriesLeft(jobs[j]))
    BY <2>1, <2>3, CloseRow DEF Held, Live
  <2> QED BY <2>2, <2>3
<1>4. UNCHANGED <<minted, reaping>>
  BY DEF Fail
<1>5. Holds(j, t, Held) \in BOOLEAN
  BY DEF Holds
<1> QED BY <1>1, <1>3, <1>4, <1>5, OneRow

\* the two statements of a reaper pass,
LEMMA ReapRequeueInv ==
  ASSUME IInv, NEW r \in Reaper, ReapRequeue(r)
  PROVE  IInv'
<1> DEFINE expired == {j \in Job : LeaseExpired(jobs[j]) /\ RetriesLeft(jobs[j])}
<1>1. PICK batch \in SUBSET expired :
        \E d \in [batch -> 0 .. (BackoffCap + BackoffJitter)] :
          jobs' = [j \in Job |->
            IF j \in batch
            THEN [Released(jobs[j]) EXCEPT !.status = "queued", !.run_after = d[j]]
            ELSE jobs[j]]
  BY DEF ReapRequeue
<1>2. PICK d \in [batch -> 0 .. (BackoffCap + BackoffJitter)] :
        jobs' = [j \in Job |->
          IF j \in batch
          THEN [Released(jobs[j]) EXCEPT !.status = "queued", !.run_after = d[j]]
          ELSE jobs[j]]
  BY <1>1
<1>3. ASSUME NEW j \in Job
      PROVE  RowInv(jobs'[j], minted'[j])
  <2>1. RowInv(jobs[j], minted[j]) /\ minted'[j] = minted[j]
    BY DEF IInv, ReapRequeue
  <2>2. CASE j \in batch
    <3>1. jobs[j].status \in Held /\ RetriesLeft(jobs[j])
      BY <2>2 DEF LeaseExpired
    <3>2. d[j] \in Nat
      BY <2>2, BackoffAssumption
    <3>3. jobs'[j] = [Released(jobs[j]) EXCEPT !.status = "queued", !.run_after = d[j]]
      BY <1>2, <2>2
    <3>4. RowInv([Released(jobs[j]) EXCEPT !.status = "queued", !.run_after = d[j]],
                 minted[j])
      BY <2>1, <3>1, <3>2, RequeueRow
    <3> QED BY <2>1, <3>3, <3>4
  <2>3. CASE j \notin batch
    BY <1>2, <2>1, <2>3
  <2> QED BY <2>2, <2>3
<1>4. /\ jobs' = [k \in Job |-> jobs'[k]]
      /\ minted' = [k \in Job |-> minted'[k]]
      /\ reaping' \subseteq Reaper
  BY <1>2 DEF IInv, TypeOK, ReapRequeue
<1> QED BY <1>3, <1>4, RowByRow

\* first and second,
LEMMA ReapFailInv ==
  ASSUME IInv, NEW r \in Reaper, ReapFail(r)
  PROVE  IInv'
<1>1. ASSUME NEW j \in Job
      PROVE  RowInv(jobs'[j], minted'[j])
  <2>1. RowInv(jobs[j], minted[j]) /\ minted'[j] = minted[j]
    BY DEF IInv, ReapFail
  <2>2. CASE LeaseExpired(jobs[j]) /\ ~RetriesLeft(jobs[j])
    <3>1. jobs[j].status \in Live /\ jobs[j].status \in Held
      BY <2>2 DEF LeaseExpired, Held, Live
    <3>2. jobs'[j] = [Released(jobs[j]) EXCEPT !.status = "failed"]
      BY <2>2 DEF ReapFail
    <3>3. RowInv([Released(jobs[j]) EXCEPT !.status = "failed"], minted[j])
      BY <2>1, <3>1, CloseRow
    <3> QED BY <2>1, <3>2, <3>3
  <2>3. CASE ~(LeaseExpired(jobs[j]) /\ ~RetriesLeft(jobs[j]))
    BY <2>1, <2>3 DEF ReapFail
  <2> QED BY <2>2, <2>3
<1>2. /\ jobs' = [k \in Job |-> jobs'[k]]
      /\ minted' = [k \in Job |-> minted'[k]]
      /\ reaping' \subseteq Reaper
  BY DEF IInv, TypeOK, ReapFail
<1> QED BY <1>1, <1>2, RowByRow

\* and the clock.
LEMMA TickInv ==
  ASSUME IInv, Tick
  PROVE  IInv'
<1>1. ASSUME NEW j \in Job
      PROVE  RowInv(jobs'[j], minted'[j])
  BY ElapseRow DEF IInv, Tick
<1>2. /\ jobs' = [k \in Job |-> jobs'[k]]
      /\ minted' = [k \in Job |-> minted'[k]]
      /\ reaping' \subseteq Reaper
  BY DEF IInv, TypeOK, Tick
<1> QED BY <1>1, <1>2, RowByRow

\* So every step does.
LEMMA NextInv == IInv /\ [Next]_repoVars => IInv'
<1> SUFFICES ASSUME IInv, [Next]_repoVars
             PROVE  IInv'
  OBVIOUS
<1>1. ASSUME NEW j \in Job, Client(j)
      PROVE  IInv'
  BY <1>1, EnqueueInv, CancelInv DEF Client
<1>2. ASSUME NEW j \in Job, NEW q \in Queue, Grab(j, q)
      PROVE  IInv'
  BY <1>2, GrabInv
<1>3. ASSUME NEW j \in Job, NEW t, Write(j, t)
      PROVE  IInv'
  BY <1>3, AckInv, NackInv, RejectInv, SucceedInv, FailInv DEF Write
<1>4. ASSUME NEW j \in Job, NEW t, Extension(j, t)
      PROVE  IInv'
  BY <1>4, HeartbeatInv, RepositoryAssumption DEF Extension
<1>5. ASSUME NEW r \in Reaper, Reap(r)
      PROVE  IInv'
  <2>1. CASE ReapAbort(r)
    BY <2>1 DEF ReapAbort, IInv, TypeOK
  <2> QED BY <1>5, <2>1, ReapRequeueInv, ReapFailInv DEF Reap
<1>6. CASE UNCHANGED repoVars
  BY <1>6 DEF repoVars, IInv, TypeOK
<1> QED BY <1>1, <1>2, <1>3, <1>4, <1>5, <1>6, TickInv DEF Next

\* Type correctness, and that the lease columns, the attempt counter and the
\* result agree with the status in every state that any client can bring about.
THEOREM Invariance == Spec => []IInv
BY InitInv, NextInv, PTL DEF Spec

\* Every row of the table keeps the types of its columns.
THEOREM Types == Spec => []TypeOK
<1>1. IInv => TypeOK
  BY DEF IInv
<1> QED BY <1>1, Invariance, PTL

\* No job is dispatched more often than once plus its retries, however many
\* dispatchers, reapers and callbacks there are.
THEOREM RetryBudgetHolds == Spec => []RetryBudget
<1>1. IInv => RetryBudget
  BY DEF IInv, RowInv, AttemptsCounted, RetryBudget
<1> QED BY <1>1, Invariance, PTL

\* The result of a succeeded job came with the token of its last dispatch.
THEOREM ResultIsOfLastLease == Spec => []ResultOfLastLease
<1>1. IInv => ResultOfLastLease
  BY DEF IInv, RowInv, ResultStored, ResultOfLastLease
<1> QED BY <1>1, Invariance, PTL

-----------------------------------------------------------------------------
(* What no step ever does *)

\* The fields that a change of status alone leaves as they were.
SameTally(new, row) ==
  /\ new.attempt = row.attempt
  /\ new.max_retries = row.max_retries
  /\ new.result = row.result

\* The ways in which a step may change one row of the table.
Inserted(new, row, m)  == row.status = "absent" /\ new.status = "queued"
                            /\ new.lease_token = NULL
                            /\ new.attempt = row.attempt /\ new.result = row.result
                            /\ new.max_retries = m
Grabbed(new, row, n)   == row.status = "queued" /\ new.status = "dispatching"
                            /\ new.lease_token = n + 1
                            /\ new.attempt = row.attempt + 1
                            /\ new.max_retries = row.max_retries
                            /\ new.result = row.result
Kept(new, row)         == new.lease_token = row.lease_token /\ SameTally(new, row)
                            /\ \/ new.status = row.status
                               \/ row.status \in Held /\ new.status = "running"
GivenBack(new, row)    == row.status \in Held /\ RetriesLeft(row)
                            /\ new.status = "queued"
                            /\ new.lease_token = NULL /\ SameTally(new, row)
Closed(new, row)       == row.status \in Held /\ new.status = "failed"
                            /\ new.lease_token = NULL /\ SameTally(new, row)
Withdrawn(new, row)    == row.status \in Live /\ new.status = "cancelled"
                            /\ new.lease_token = NULL /\ SameTally(new, row)
Completed(new, row, n) == row.status \in Held /\ new.status = "succeeded"
                            /\ new.lease_token = NULL
                            /\ new.attempt = row.attempt
                            /\ new.max_retries = row.max_retries
                            /\ new.result = n

\* The row that each statement writes, by its fields: requeued,
LEMMA RequeuedFields ==
  ASSUME NEW row \in Row, row.status \in Held, RetriesLeft(row), NEW d
  PROVE  GivenBack([Released(row) EXCEPT !.status = "queued", !.run_after = d], row)
BY DEF Row, Released, SameTally, GivenBack

\* failed,
LEMMA FailedFields ==
  ASSUME NEW row \in Row, row.status \in Held
  PROVE  Closed([Released(row) EXCEPT !.status = "failed"], row)
BY DEF Row, Released, SameTally, Closed

\* cancelled,
LEMMA CancelledFields ==
  ASSUME NEW row \in Row, row.status \in Live
  PROVE  Withdrawn([Released(row) EXCEPT !.status = "cancelled"], row)
BY DEF Row, Released, SameTally, Withdrawn

\* extended.
LEMMA ExtendedFields ==
  ASSUME NEW row \in Row, row.status \in Held, NEW e
  PROVE  Kept([row EXCEPT !.status = "running", !.lease_expires_at = e], row)
BY DEF Row, Kept, SameTally

\* A write that finds no row keeps them all; a write of one row keeps the others.
Others(j) == \A k \in Job : k # j => jobs'[k] = jobs[k]

\* What an UPDATE by id does to the table.
LEMMA UpdateOne ==
  ASSUME IInv, NEW j \in Job, NEW where \in BOOLEAN, NEW row, Update(j, where, row)
  PROVE  /\ Others(j)
         /\ IF where THEN jobs'[j] = row ELSE jobs' = jobs
BY DEF IInv, TypeOK, Update, Others

\* An untouched row is kept.
LEMMA SameIsKept ==
  ASSUME NEW row
  PROVE  Kept(row, row)
BY DEF Kept, SameTally

\* How each statement changes its row: an ack keeps it,
LEMMA AckSteps ==
  ASSUME IInv, NEW j \in Job, NEW t, Ack(j, t)
  PROVE  Others(j) /\ Kept(jobs'[j], jobs[j])
<1> DEFINE row == [jobs[j] EXCEPT !.status = "running", !.lease_expires_at = Lease]
<1>1. Update(j, Holds(j, t, {"dispatching"}), row) /\ Holds(j, t, {"dispatching"}) \in BOOLEAN
  BY DEF Ack, Holds
<1>2. Holds(j, t, {"dispatching"}) => Kept(row, jobs[j])
  BY ExtendedFields DEF Holds, Held, IInv, TypeOK
<1> QED BY <1>1, <1>2, UpdateOne, SameIsKept

\* a nack gives it back or closes it,
LEMMA NackSteps ==
  ASSUME IInv, NEW j \in Job, NEW t, Nack(j, t)
  PROVE  /\ Others(j)
         /\ \/ Kept(jobs'[j], jobs[j])
            \/ GivenBack(jobs'[j], jobs[j])
            \/ Closed(jobs'[j], jobs[j])
<1> DEFINE row == IF RetriesLeft(jobs[j])
                  THEN [Released(jobs[j]) EXCEPT !.status = "queued",
                                                 !.run_after = NackBackoff]
                  ELSE [Released(jobs[j]) EXCEPT !.status = "failed"]
<1>1. Update(j, Holds(j, t, {"dispatching"}), row) /\ Holds(j, t, {"dispatching"}) \in BOOLEAN
  BY DEF Nack, Holds
<1>2. Holds(j, t, {"dispatching"}) => GivenBack(row, jobs[j]) \/ Closed(row, jobs[j])
  BY RequeuedFields, FailedFields DEF Holds, Held, IInv, TypeOK
<1> QED BY <1>1, <1>2, UpdateOne, SameIsKept

\* a reject closes it,
LEMMA RejectSteps ==
  ASSUME IInv, NEW j \in Job, NEW t, Reject(j, t)
  PROVE  Others(j) /\ (Kept(jobs'[j], jobs[j]) \/ Closed(jobs'[j], jobs[j]))
<1> DEFINE row == [Released(jobs[j]) EXCEPT !.status = "failed"]
<1>1. Update(j, Holds(j, t, {"dispatching"}), row) /\ Holds(j, t, {"dispatching"}) \in BOOLEAN
  BY DEF Reject, Holds
<1>2. Holds(j, t, {"dispatching"}) => Closed(row, jobs[j])
  BY FailedFields DEF Holds, Held, IInv, TypeOK
<1> QED BY <1>1, <1>2, UpdateOne, SameIsKept

\* a cancellation withdraws it,
LEMMA CancelSteps ==
  ASSUME IInv, NEW j \in Job, Cancel(j)
  PROVE  Others(j) /\ (Kept(jobs'[j], jobs[j]) \/ Withdrawn(jobs'[j], jobs[j]))
<1> DEFINE row == [Released(jobs[j]) EXCEPT !.status = "cancelled"]
           where == jobs[j].status \in Live
<1>1. Update(j, where, row) /\ where \in BOOLEAN
  BY DEF Cancel
<1>2. where => Withdrawn(row, jobs[j])
  BY CancelledFields DEF IInv, TypeOK
<1> HIDE DEF where, row
<1> QED BY <1>1, <1>2, UpdateOne, SameIsKept

\* a heartbeat keeps it,
LEMMA HeartbeatSteps ==
  ASSUME IInv, NEW j \in Job, NEW t, NEW e, Heartbeat(j, t, e)
  PROVE  Others(j) /\ Kept(jobs'[j], jobs[j])
<1> DEFINE row == [jobs[j] EXCEPT !.status = "running", !.lease_expires_at = e]
<1>1. Update(j, Holds(j, t, Held), row) /\ Holds(j, t, Held) \in BOOLEAN
  BY DEF Heartbeat, Holds
<1>2. Holds(j, t, Held) => Kept(row, jobs[j])
  BY ExtendedFields DEF Holds, IInv, TypeOK
<1> QED BY <1>1, <1>2, UpdateOne, SameIsKept

\* a result completes it under the last token,
LEMMA SucceedSteps ==
  ASSUME IInv, NEW j \in Job, NEW t, Succeed(j, t)
  PROVE  /\ Others(j)
         /\ Kept(jobs'[j], jobs[j]) \/ Completed(jobs'[j], jobs[j], minted[j])
<1> DEFINE row == [Released(jobs[j]) EXCEPT !.status = "succeeded", !.result = t]
<1>1. Update(j, Holds(j, t, Held), row) /\ Holds(j, t, Held) \in BOOLEAN
  BY DEF Succeed, Holds
<1>2. Holds(j, t, Held) => Completed(row, jobs[j], minted[j])
  <2> SUFFICES ASSUME Holds(j, t, Held)
               PROVE  Completed(row, jobs[j], minted[j])
    OBVIOUS
  <2>1. jobs[j] \in Row /\ jobs[j].status \in Held /\ t = minted[j]
    BY HolderHasLastToken DEF IInv, TypeOK
  <2>2. /\ row.status = "succeeded"
        /\ row.lease_token = NULL
        /\ row.attempt = jobs[j].attempt
        /\ row.max_retries = jobs[j].max_retries
        /\ row.result = t
    BY <2>1 DEF Row, Released
  <2> QED BY <2>1, <2>2 DEF Completed
<1> QED BY <1>1, <1>2, UpdateOne, SameIsKept

\* a failure gives it back or closes it,
LEMMA FailSteps ==
  ASSUME IInv, NEW j \in Job, NEW t, NEW retryable \in BOOLEAN, Fail(j, t, retryable)
  PROVE  /\ Others(j)
         /\ \/ Kept(jobs'[j], jobs[j])
            \/ GivenBack(jobs'[j], jobs[j])
            \/ Closed(jobs'[j], jobs[j])
<1> DEFINE row(d) == IF retryable /\ RetriesLeft(jobs[j])
                     THEN [Released(jobs[j]) EXCEPT !.status = "queued", !.run_after = d]
                     ELSE [Released(jobs[j]) EXCEPT !.status = "failed"]
<1>1. PICK d \in BackoffDelays(jobs[j].attempt) : Update(j, Holds(j, t, Held), row(d))
  BY DEF Fail
<1>2. Holds(j, t, Held) => GivenBack(row(d), jobs[j]) \/ Closed(row(d), jobs[j])
  BY RequeuedFields, FailedFields DEF Holds, IInv, TypeOK
<1>3. Holds(j, t, Held) \in BOOLEAN
  BY DEF Holds
<1> QED BY <1>1, <1>2, <1>3, UpdateOne, SameIsKept

\* an insert inserts it,
LEMMA EnqueueSteps ==
  ASSUME IInv, NEW j \in Job, NEW q \in Queue, NEW m \in 0 .. MaxRetries, NEW d,
         Enqueue(j, q, m, d)
  PROVE  Others(j) /\ Inserted(jobs'[j], jobs[j], m)
<1> DEFINE row == [AbsentRow EXCEPT !.name = q, !.status = "queued",
                                    !.max_retries = m, !.run_after = d]
<1>1. /\ row.status = "queued"
      /\ row.lease_token = NULL
      /\ row.attempt = 0
      /\ row.max_retries = m
      /\ row.result = NULL
  BY DEF AbsentRow
<1>2. /\ jobs[j].status = "absent"
      /\ jobs[j].attempt = 0
      /\ jobs[j].result = NULL
  BY DEF Enqueue, IInv, RowInv, AttemptsCounted, ResultStored
<1>3. Inserted(row, jobs[j], m)
  BY <1>1, <1>2 DEF Inserted
<1>4. Others(j) /\ jobs'[j] = row
  BY DEF Enqueue, IInv, TypeOK, Others
<1> QED BY <1>3, <1>4

\* a grab grabs it;
LEMMA GrabSteps ==
  ASSUME IInv, NEW j \in Job, NEW q \in Queue, Grab(j, q)
  PROVE  Others(j) /\ Grabbed(jobs'[j], jobs[j], minted[j])
<1> DEFINE row == [jobs[j] EXCEPT !.status = "dispatching",
                                  !.attempt = jobs[j].attempt + 1,
                                  !.lease_token = minted[j] + 1,
                                  !.lease_expires_at = AckGrace]
<1>1. jobs[j] \in Row /\ jobs[j].status = "queued"
  BY DEF Grab, IInv, TypeOK
<1>2. /\ row.status = "dispatching"
      /\ row.lease_token = minted[j] + 1
      /\ row.attempt = jobs[j].attempt + 1
      /\ row.max_retries = jobs[j].max_retries
      /\ row.result = jobs[j].result
  BY <1>1 DEF Row
<1>3. Grabbed(row, jobs[j], minted[j])
  BY <1>1, <1>2 DEF Grabbed
<1>4. Others(j) /\ jobs'[j] = row
  BY DEF Grab, IInv, TypeOK, Others
<1> QED BY <1>3, <1>4

\* the reaper gives back a set of rows,
LEMMA ReapRequeueSteps ==
  ASSUME IInv, NEW r \in Reaper, ReapRequeue(r)
  PROVE  \E js \in SUBSET Job : \A k \in Job :
           IF k \in js THEN GivenBack(jobs'[k], jobs[k]) ELSE jobs'[k] = jobs[k]
<1> DEFINE expired == {j \in Job : LeaseExpired(jobs[j]) /\ RetriesLeft(jobs[j])}
<1>1. PICK batch \in SUBSET expired :
        \E d \in [batch -> 0 .. (BackoffCap + BackoffJitter)] :
          jobs' = [j \in Job |->
            IF j \in batch
            THEN [Released(jobs[j]) EXCEPT !.status = "queued", !.run_after = d[j]]
            ELSE jobs[j]]
  BY DEF ReapRequeue
<1>2. PICK d \in [batch -> 0 .. (BackoffCap + BackoffJitter)] :
        jobs' = [j \in Job |->
          IF j \in batch
          THEN [Released(jobs[j]) EXCEPT !.status = "queued", !.run_after = d[j]]
          ELSE jobs[j]]
  BY <1>1
<1>3. ASSUME NEW k \in Job
      PROVE  IF k \in batch THEN GivenBack(jobs'[k], jobs[k]) ELSE jobs'[k] = jobs[k]
  <2>1. CASE k \in batch
    <3>1. jobs[k] \in Row /\ jobs[k].status \in Held /\ RetriesLeft(jobs[k])
      BY <2>1 DEF LeaseExpired, IInv, TypeOK
    <3>2. jobs'[k] = [Released(jobs[k]) EXCEPT !.status = "queued", !.run_after = d[k]]
      BY <1>2, <2>1
    <3>3. GivenBack([Released(jobs[k]) EXCEPT !.status = "queued", !.run_after = d[k]],
                    jobs[k])
      BY <3>1, RequeuedFields
    <3> QED BY <2>1, <3>2, <3>3
  <2>2. CASE k \notin batch
    BY <1>2, <2>2
  <2> QED BY <2>1, <2>2
<1>4. batch \in SUBSET Job
  OBVIOUS
<1> HIDE DEF expired
<1> QED BY <1>3, <1>4

\* and closes a set of rows;
LEMMA ReapFailSteps ==
  ASSUME IInv, NEW r \in Reaper, ReapFail(r)
  PROVE  \E js \in SUBSET Job : \A k \in Job :
           IF k \in js THEN Closed(jobs'[k], jobs[k]) ELSE jobs'[k] = jobs[k]
<1> DEFINE js == {j \in Job : LeaseExpired(jobs[j]) /\ ~RetriesLeft(jobs[j])}
<1>1. ASSUME NEW k \in Job
      PROVE  IF k \in js THEN Closed(jobs'[k], jobs[k]) ELSE jobs'[k] = jobs[k]
  <2>1. CASE k \in js
    <3>1. jobs[k] \in Row /\ jobs[k].status \in Held
      BY <2>1 DEF LeaseExpired, IInv, TypeOK
    <3>2. jobs'[k] = [Released(jobs[k]) EXCEPT !.status = "failed"]
      BY <2>1 DEF ReapFail
    <3>3. Closed([Released(jobs[k]) EXCEPT !.status = "failed"], jobs[k])
      BY <3>1, FailedFields
    <3> QED BY <2>1, <3>2, <3>3
  <2>2. CASE k \notin js
    BY <2>2 DEF ReapFail
  <2> QED BY <2>1, <2>2
<1>2. js \in SUBSET Job
  OBVIOUS
<1> HIDE DEF js
<1> QED BY <1>1, <1>2

\* the clock keeps them all.
LEMMA TickSteps ==
  ASSUME IInv, Tick, NEW k \in Job
  PROVE  Kept(jobs'[k], jobs[k])
<1>1. jobs[k] \in Row /\ jobs'[k] = Elapse(jobs[k])
  BY DEF IInv, TypeOK, Tick
<1>2. Kept(Elapse(jobs[k]), jobs[k])
  BY <1>1 DEF Elapse, Row, Kept, SameTally
<1> QED BY <1>1, <1>2

\* Every step is one of these, for the whole table.
AllKept == \A k \in Job : Kept(jobs'[k], jobs[k])

OneRowStep(j) ==
  \/ \E m \in 0 .. MaxRetries : Inserted(jobs'[j], jobs[j], m)
  \/ Grabbed(jobs'[j], jobs[j], minted[j])
  \/ GivenBack(jobs'[j], jobs[j])
  \/ Closed(jobs'[j], jobs[j])
  \/ Withdrawn(jobs'[j], jobs[j])
  \/ Completed(jobs'[j], jobs[j], minted[j])

SomeGivenBack ==
  \E js \in SUBSET Job : \A k \in Job :
    IF k \in js THEN GivenBack(jobs'[k], jobs[k]) ELSE jobs'[k] = jobs[k]

SomeClosed ==
  \E js \in SUBSET Job : \A k \in Job :
    IF k \in js THEN Closed(jobs'[k], jobs[k]) ELSE jobs'[k] = jobs[k]

\* Every step is of one of these shapes.
LEMMA StepShape ==
  ASSUME IInv, [Next]_repoVars
  PROVE  \/ AllKept
         \/ \E j \in Job : Others(j) /\ OneRowStep(j)
         \/ SomeGivenBack
         \/ SomeClosed
<1> DEFINE Goal == \/ AllKept
                   \/ \E j \in Job : Others(j) /\ OneRowStep(j)
                   \/ SomeGivenBack
                   \/ SomeClosed
<1>1. ASSUME NEW j \in Job, Others(j), Kept(jobs'[j], jobs[j])
      PROVE  AllKept
  BY <1>1, SameIsKept DEF Others, AllKept
<1>2. ASSUME jobs' = jobs
      PROVE  AllKept
  BY <1>2, SameIsKept DEF AllKept
<1>3. ASSUME NEW j \in Job, Client(j)
      PROVE  Goal
  <2>1. ASSUME NEW q \in Queue, NEW m \in 0 .. MaxRetries, NEW d \in RunAfter,
               Enqueue(j, q, m, d)
        PROVE  Goal
    BY <2>1, EnqueueSteps DEF OneRowStep
  <2>2. CASE Cancel(j)
    BY <2>2, CancelSteps, <1>1 DEF OneRowStep
  <2> QED BY <1>3, <2>1, <2>2 DEF Client
<1>4. ASSUME NEW j \in Job, NEW q \in Queue, Grab(j, q)
      PROVE  Goal
  BY <1>4, GrabSteps DEF OneRowStep
<1>5. ASSUME NEW j \in Job, NEW t, Write(j, t)
      PROVE  Goal
  <2>1. CASE Ack(j, t)
    BY <2>1, AckSteps, <1>1
  <2>2. CASE Nack(j, t)
    BY <2>2, NackSteps, <1>1 DEF OneRowStep
  <2>3. CASE Reject(j, t)
    BY <2>3, RejectSteps, <1>1 DEF OneRowStep
  <2>4. CASE Succeed(j, t)
    BY <2>4, SucceedSteps, <1>1 DEF OneRowStep
  <2>5. ASSUME NEW retryable \in BOOLEAN, Fail(j, t, retryable)
        PROVE  Goal
    BY <2>5, FailSteps, <1>1 DEF OneRowStep
  <2> QED BY <1>5, <2>1, <2>2, <2>3, <2>4, <2>5 DEF Write
<1>6. ASSUME NEW j \in Job, NEW t, Extension(j, t)
      PROVE  Goal
  BY <1>6, HeartbeatSteps, <1>1 DEF Extension
<1>7. ASSUME NEW r \in Reaper, Reap(r)
      PROVE  Goal
  <2>1. CASE ReapRequeue(r)
    BY <2>1, ReapRequeueSteps DEF SomeGivenBack
  <2>2. CASE ReapFail(r)
    BY <2>2, ReapFailSteps DEF SomeClosed
  <2>3. CASE ReapAbort(r)
    BY <2>3, <1>2 DEF ReapAbort
  <2> QED BY <1>7, <2>1, <2>2, <2>3 DEF Reap
<1>8. ASSUME Tick
      PROVE  Goal
  BY <1>8, TickSteps DEF AllKept
<1>9. ASSUME UNCHANGED repoVars
      PROVE  Goal
  BY <1>9, <1>2 DEF repoVars
<1> QED BY <1>3, <1>4, <1>5, <1>6, <1>7, <1>8, <1>9 DEF Next

\* No shape fits a settled row but that it is kept.
LEMMA TerminalStep ==
  ASSUME IInv, [Next]_repoVars, NEW j \in Job, jobs[j].status \in Terminal
  PROVE  /\ jobs'[j].status = jobs[j].status
         /\ jobs'[j].result = jobs[j].result
         /\ jobs'[j].attempt = jobs[j].attempt
         /\ jobs'[j].lease_token = jobs[j].lease_token
<1>1. jobs'[j] = jobs[j] \/ Kept(jobs'[j], jobs[j])
  BY StepShape
  DEF AllKept, Others, OneRowStep, SomeGivenBack, SomeClosed, Inserted, Grabbed,
      GivenBack, Closed, Withdrawn, Completed, Live, Held, Terminal
<1> QED BY <1>1 DEF Kept, SameTally, Held, Terminal

\* A settled job stays as it is, whatever arrives late.
THEOREM TerminalStaysFinal == Spec => TerminalIsFinal
<1>1. IInv /\ [Next]_repoVars =>
        [\A j \in Job : jobs[j].status \in Terminal =>
           /\ jobs'[j].status = jobs[j].status
           /\ jobs'[j].result = jobs[j].result
           /\ jobs'[j].attempt = jobs[j].attempt
           /\ jobs'[j].lease_token = jobs[j].lease_token]_repoVars
  BY TerminalStep
<1> QED BY <1>1, Invariance, PTL DEF Spec, TerminalIsFinal

\* Only a grab writes a token, into a row without one.
LEMMA TokenStep ==
  ASSUME IInv, [Next]_repoVars, NEW j \in Job
  PROVE  \/ jobs'[j].lease_token = jobs[j].lease_token
         \/ jobs'[j].lease_token = NULL
         \/ /\ jobs[j].lease_token = NULL
            /\ jobs'[j].lease_token > minted[j]
<1>1. minted[j] \in Nat /\ (jobs[j].status \notin Held => jobs[j].lease_token = NULL)
  BY DEF IInv, RowInv, LeaseColumnsAgree
<1>2. \/ jobs'[j].lease_token = jobs[j].lease_token
      \/ jobs'[j].lease_token = NULL
      \/ Grabbed(jobs'[j], jobs[j], minted[j])
  BY StepShape
  DEF AllKept, Others, OneRowStep, SomeGivenBack, SomeClosed, Inserted, Kept,
      GivenBack, Closed, Withdrawn, Completed
<1>3. CASE Grabbed(jobs'[j], jobs[j], minted[j])
  BY <1>1, <1>3 DEF Grabbed, Held
<1> QED BY <1>2, <1>3

\* A lease only ever passes on through the queue, to a token nobody held.
THEOREM LeasePassesThroughQueue == Spec => LeaseIsNeverHandedOver
<1>1. IInv /\ [Next]_repoVars =>
        [\A j \in Job : jobs'[j].lease_token # jobs[j].lease_token =>
           \/ jobs'[j].lease_token = NULL
           \/ /\ jobs[j].lease_token = NULL
              /\ jobs'[j].lease_token > minted[j]]_repoVars
  BY TokenStep
<1> QED BY <1>1, Invariance, PTL DEF Spec, LeaseIsNeverHandedOver

\* Each shape but that of a kept row leaves fewer moves.
LEMMA MoveStep ==
  ASSUME IInv, [Next]_repoVars, NEW j \in Job, jobs[j].status # "absent"
  PROVE  IF jobs'[j].status = jobs[j].status
         THEN MovesLeft(jobs'[j]) = MovesLeft(jobs[j])
         ELSE MovesLeft(jobs'[j]) < MovesLeft(jobs[j])
<1> DEFINE row == jobs[j]
           new == jobs'[j]
<1>1. /\ row \in Row /\ row.attempt \in Int /\ row.max_retries \in Int
      /\ row.attempt <= row.max_retries + 1
      /\ row.status = "queued" => row.attempt <= row.max_retries
      /\ row.status \in Live \cup Terminal
  BY RepositoryAssumption DEF IInv, RowInv, AttemptsCounted, Row
<1>2. \/ new = row
      \/ Kept(new, row)
      \/ Grabbed(new, row, minted[j])
      \/ GivenBack(new, row)
      \/ Closed(new, row) \/ Withdrawn(new, row) \/ Completed(new, row, minted[j])
  BY StepShape
  DEF AllKept, Others, OneRowStep, SomeGivenBack, SomeClosed, Inserted
<1> HIDE DEF row, new
<1> USE DEF MovesLeft, Live, Held, Terminal
<1>3. CASE new = row
  BY <1>3 DEF row, new
<1>4. CASE Kept(new, row)
  BY <1>1, <1>4 DEF Kept, SameTally, row, new
<1>5. CASE Grabbed(new, row, minted[j])
  BY <1>1, <1>5 DEF Grabbed, row, new
<1>6. CASE GivenBack(new, row)
  BY <1>1, <1>6 DEF GivenBack, SameTally, row, new
<1>7. CASE Closed(new, row) \/ Withdrawn(new, row) \/ Completed(new, row, minted[j])
  <2>1. new.status \in Terminal /\ row.status \in Live
    BY <1>7 DEF Closed, Withdrawn, Completed
  <2>2. MovesLeft(new) = 0
    BY <2>1
  <2>3. 0 < MovesLeft(row)
    BY <1>1, <2>1
  <2> QED BY <2>1, <2>2, <2>3 DEF row, new
<1> QED BY <1>2, <1>3, <1>4, <1>5, <1>6, <1>7

\* And a row has some left or none, never less.
LEMMA MovesAreNatural ==
  ASSUME IInv, NEW j \in Job
  PROVE  0 <= MovesLeft(jobs[j])
<1>1. /\ jobs[j].attempt \in Int /\ jobs[j].max_retries \in Int
      /\ jobs[j].attempt <= jobs[j].max_retries + 1
  BY RepositoryAssumption DEF IInv, RowInv, AttemptsCounted, Row
<1> QED BY <1>1 DEF MovesLeft

\* Every job has a last move, after at most three for each attempt it may have:
\* what its callers, workers and reapers do can delay it but not go on forever.
THEOREM MovesRunOut == Spec => EveryMoveCounts
<1>1. IInv => \A j \in Job : 0 <= MovesLeft(jobs[j])
  BY MovesAreNatural
<1>2. IInv /\ IInv' /\ (\A j \in Job : 0 <= MovesLeft(jobs[j]))' /\ [Next]_repoVars =>
        [\A j \in Job : jobs[j].status # "absent" =>
           /\ 0 <= MovesLeft(jobs'[j])
           /\ IF jobs'[j].status = jobs[j].status
              THEN MovesLeft(jobs'[j]) = MovesLeft(jobs[j])
              ELSE MovesLeft(jobs'[j]) < MovesLeft(jobs[j])]_repoVars
  BY MoveStep
<1> QED BY <1>1, <1>2, Invariance, PTL DEF Spec, EveryMoveCounts

-----------------------------------------------------------------------------
(* The verdicts of the repository's methods *)

NewSuccess(k) == jobs[k].status # "succeeded" /\ jobs'[k].status = "succeeded"
NewFailure(k) == jobs[k].status # "failed" /\ jobs'[k].status = "failed"
OutOfRetries(row) == row.attempt > row.max_retries

\* No verdict, but for a job that has used up its retries.
Unforced(k) == ~NewSuccess(k) /\ (NewFailure(k) => OutOfRetries(jobs'[k]))

\* No retry left is out of retries: the counters are numbers.
LEMMA NotLeft ==
  ASSUME IInv, NEW k \in Job, ~RetriesLeft(jobs[k])
  PROVE  OutOfRetries(jobs[k])
<1>1. jobs[k].attempt \in Nat /\ jobs[k].max_retries \in Nat
  BY RepositoryAssumption DEF IInv, TypeOK, Row
<1> QED BY <1>1 DEF RetriesLeft, OutOfRetries

\* A failure keeps the counters.
LEMMA ClosedWithoutRetries ==
  ASSUME IInv, NEW k \in Job, Closed(jobs'[k], jobs[k]), ~RetriesLeft(jobs[k])
  PROVE  Unforced(k)
<1>1. OutOfRetries(jobs'[k])
  BY NotLeft DEF Closed, SameTally, OutOfRetries
<1> QED BY <1>1 DEF Closed, Unforced, NewSuccess

\* A row that is kept, or goes back to the queue, gets no verdict.
LEMMA NoVerdict ==
  ASSUME NEW k,
         \/ Kept(jobs'[k], jobs[k])
         \/ GivenBack(jobs'[k], jobs[k])
         \/ \E n : Grabbed(jobs'[k], jobs[k], n)
         \/ \E m : Inserted(jobs'[k], jobs[k], m)
         \/ Withdrawn(jobs'[k], jobs[k])
         \/ jobs'[k] = jobs[k]
  PROVE  ~NewSuccess(k) /\ ~NewFailure(k)
BY DEF NewSuccess, NewFailure, Kept, GivenBack, Grabbed, Inserted, Withdrawn

\* A nack fails the jobs that have no retry left, and only those.
LEMMA NackVerdict ==
  ASSUME IInv, NEW j \in Job, NEW t, Nack(j, t), NEW k \in Job
  PROVE  Unforced(k)
<1>1. CASE k # j
  BY <1>1, NackSteps, NoVerdict DEF Others, Unforced
<1>2. CASE k = j /\ RetriesLeft(jobs[j])
  <2> DEFINE row == [Released(jobs[j]) EXCEPT !.status = "queued",
                                              !.run_after = NackBackoff]
  <2>1. Update(j, Holds(j, t, {"dispatching"}), row) /\ Holds(j, t, {"dispatching"}) \in BOOLEAN
    BY <1>2 DEF Nack, Holds
  <2>2. Holds(j, t, {"dispatching"}) => GivenBack(row, jobs[j])
    BY <1>2, RequeuedFields DEF Holds, Held, IInv, TypeOK
  <2>3. jobs'[j] = jobs[j] \/ GivenBack(jobs'[j], jobs[j])
    BY <2>1, <2>2, UpdateOne
  <2> QED BY <1>2, <2>3, NoVerdict DEF Unforced
<1>3. CASE k = j /\ ~RetriesLeft(jobs[j])
  BY <1>3, NackSteps, NoVerdict, ClosedWithoutRetries DEF Unforced
<1> QED BY <1>1, <1>2, <1>3

\* A retryable failure does the same.
LEMMA RetryVerdict ==
  ASSUME IInv, NEW j \in Job, NEW t, Fail(j, t, TRUE), NEW k \in Job
  PROVE  Unforced(k)
<1>1. CASE k # j
  BY <1>1, FailSteps, NoVerdict DEF Others, Unforced
<1>2. CASE k = j /\ RetriesLeft(jobs[j])
  <2> DEFINE row(d) == [Released(jobs[j]) EXCEPT !.status = "queued", !.run_after = d]
  <2>1. PICK d \in BackoffDelays(jobs[j].attempt) : Update(j, Holds(j, t, Held), row(d))
    BY <1>2 DEF Fail
  <2>2. Holds(j, t, Held) => GivenBack(row(d), jobs[j])
    BY <1>2, RequeuedFields DEF Holds, IInv, TypeOK
  <2>3. Holds(j, t, Held) \in BOOLEAN
    BY DEF Holds
  <2> HIDE DEF row
  <2>4. jobs'[j] = jobs[j] \/ GivenBack(jobs'[j], jobs[j])
    BY <2>1, <2>2, <2>3, UpdateOne
  <2> QED BY <1>2, <2>4, NoVerdict DEF Unforced
<1>3. CASE k = j /\ ~RetriesLeft(jobs[j])
  BY <1>3, FailSteps, NoVerdict, ClosedWithoutRetries DEF Unforced
<1> QED BY <1>1, <1>2, <1>3

\* The reaper fails the jobs that have no retry left, and only those.
LEMMA ReapVerdict ==
  ASSUME IInv, NEW r \in Reaper, Reap(r), NEW k \in Job
  PROVE  Unforced(k)
<1>1. CASE ReapRequeue(r)
  <2>1. jobs'[k] = jobs[k] \/ GivenBack(jobs'[k], jobs[k])
    BY <1>1, ReapRequeueSteps
  <2> QED BY <2>1, NoVerdict DEF Unforced
<1>2. CASE ReapFail(r)
  <2>1. jobs'[k] = jobs[k] \/ Closed(jobs'[k], jobs[k])
    BY <1>2, ReapFailSteps
  <2>2. jobs'[k] = jobs[k] \/ ~RetriesLeft(jobs[k])
    BY <1>2 DEF ReapFail
  <2> QED BY <2>1, <2>2, NoVerdict, ClosedWithoutRetries DEF Unforced
<1>3. CASE ReapAbort(r)
  BY <1>3, NoVerdict DEF ReapAbort, Unforced
<1> QED BY <1>1, <1>2, <1>3 DEF Reap

(* A call that settles a job whatever its retries settles the one it names, and
   only under the last token handed out for it. *)

\* A result completes the job it names, under the last token only.
LEMMA SucceedVerdict ==
  ASSUME IInv, NEW j \in Job, NEW t, Succeed(j, t), NEW k \in Job
  PROVE  /\ ~NewFailure(k)
         /\ NewSuccess(k) => k = j /\ t = minted[j]
<1>1. CASE k # j
  BY <1>1, SucceedSteps, NoVerdict DEF Others
<1>2. CASE k = j /\ ~Holds(j, t, Held)
  BY <1>2, NoVerdict DEF Succeed, Update
<1>3. CASE k = j /\ Holds(j, t, Held)
  <2>1. t = minted[j]
    BY <1>3, HolderHasLastToken
  <2>2. ~NewFailure(j)
    BY SucceedSteps, NoVerdict DEF NewFailure, Completed
  <2> QED BY <1>3, <2>1, <2>2
<1> QED BY <1>1, <1>2, <1>3

\* A final failure fails the job it names, under the last token only.
LEMMA FatalVerdict ==
  ASSUME IInv, NEW j \in Job, NEW t, Fail(j, t, FALSE), NEW k \in Job
  PROVE  /\ ~NewSuccess(k)
         /\ NewFailure(k) => k = j /\ t = minted[j]
<1>1. CASE k # j
  BY <1>1, FailSteps, NoVerdict DEF Others
<1>2. CASE k = j /\ ~Holds(j, t, Held)
  BY <1>2, NoVerdict DEF Fail, Update
<1>3. CASE k = j /\ Holds(j, t, Held)
  <2>1. t = minted[j]
    BY <1>3, HolderHasLastToken
  <2>2. ~NewSuccess(j)
    BY FailSteps, NoVerdict DEF NewSuccess, Closed
  <2> QED BY <1>3, <2>1, <2>2
<1> QED BY <1>1, <1>2, <1>3

\* So does a 4xx.
LEMMA RejectVerdict ==
  ASSUME IInv, NEW j \in Job, NEW t, Reject(j, t), NEW k \in Job
  PROVE  /\ ~NewSuccess(k)
         /\ NewFailure(k) => k = j /\ t = minted[j]
<1>1. CASE k # j
  BY <1>1, RejectSteps, NoVerdict DEF Others
<1>2. CASE k = j /\ ~Holds(j, t, {"dispatching"})
  BY <1>2, NoVerdict DEF Reject, Update
<1>3. CASE k = j /\ Holds(j, t, {"dispatching"})
  <2>1. t = minted[j]
    BY <1>3, HolderHasLastToken DEF Held
  <2>2. ~NewSuccess(j)
    BY RejectSteps, NoVerdict DEF NewSuccess, Closed
  <2> QED BY <1>3, <2>1, <2>2
<1> QED BY <1>1, <1>2, <1>3

-----------------------------------------------------------------------------
(* The table implements the lifecycle *)

\* Phases under the changes of one row.
LEMMA Phases ==
  ASSUME NEW row
  PROVE  /\ row.status = "absent" => Phase(row) = "none"
         /\ row.status = "queued" => Phase(row) = "waiting"
         /\ row.status \in Held => Phase(row) = "trying"
         /\ row.status \in Terminal => Phase(row) = row.status
BY DEF Phase, Held, Terminal

\* A kept row keeps its phase.
LEMMA KeptPhase ==
  ASSUME NEW new, NEW row, Kept(new, row)
  PROVE  Phase(new) = Phase(row) /\ SameTally(new, row)
<1>1. CASE new.status = row.status
  BY <1>1 DEF Kept, Phase
<1>2. CASE row.status \in Held /\ new.status = "running"
  BY <1>2, Phases DEF Kept, Held
<1> QED BY <1>1, <1>2 DEF Kept

\* The rows outside js look the same, those in js have gone from trying to "to".
LEMMA MoveMaps ==
  ASSUME NEW js \in SUBSET Job, NEW to,
         \A k \in Job : SameTally(jobs'[k], jobs[k]),
         \A k \in js : Phase(jobs[k]) = "trying" /\ Phase(jobs'[k]) = to,
         \A k \in Job \ js : Phase(jobs'[k]) = Phase(jobs[k])
  PROVE  Lifecycle!Move(js, to)
BY DEF Lifecycle!Move, SameTally

\* Each shape is a step of the lifecycle: rows given back are tried again,
LEMMA GivenBackMaps ==
  ASSUME IInv, SomeGivenBack
  PROVE  Lifecycle!Next
<1>1. PICK js \in SUBSET Job : \A k \in Job :
        IF k \in js THEN GivenBack(jobs'[k], jobs[k]) ELSE jobs'[k] = jobs[k]
  BY DEF SomeGivenBack
<1>2. \A k \in Job : SameTally(jobs'[k], jobs[k])
  BY <1>1 DEF GivenBack, SameTally
<1>3. \A k \in js : Phase(jobs[k]) = "trying" /\ Phase(jobs'[k]) = "waiting"
  BY <1>1, Phases DEF GivenBack
<1>4. \A k \in Job \ js : Phase(jobs'[k]) = Phase(jobs[k])
  BY <1>1
<1>5. Lifecycle!Move(js, "waiting")
  BY <1>2, <1>3, <1>4, MoveMaps
<1>6. Lifecycle!TryAgain(js)
  BY <1>1, <1>5 DEF Lifecycle!TryAgain, GivenBack, RetriesLeft
<1> QED BY <1>6 DEF Lifecycle!Next

\* closed rows are given up,
LEMMA ClosedMaps ==
  ASSUME IInv, SomeClosed
  PROVE  Lifecycle!Next
<1>1. PICK js \in SUBSET Job : \A k \in Job :
        IF k \in js THEN Closed(jobs'[k], jobs[k]) ELSE jobs'[k] = jobs[k]
  BY DEF SomeClosed
<1>2. \A k \in Job : SameTally(jobs'[k], jobs[k])
  BY <1>1 DEF Closed, SameTally
<1>3. \A k \in js : Phase(jobs[k]) = "trying" /\ Phase(jobs'[k]) = "failed"
  BY <1>1, Phases DEF Closed, Terminal
<1>4. \A k \in Job \ js : Phase(jobs'[k]) = Phase(jobs[k])
  BY <1>1
<1>5. Lifecycle!Move(js, "failed")
  BY <1>2, <1>3, <1>4, MoveMaps
<1> QED BY <1>5 DEF Lifecycle!Next, Lifecycle!GiveUp

\* an inserted row is submitted,
LEMMA InsertedMaps ==
  ASSUME IInv, NEW j \in Job, NEW m \in 0 .. MaxRetries, Others(j),
         Inserted(jobs'[j], jobs[j], m)
  PROVE  Lifecycle!Submit(j, m)
BY Phases DEF Lifecycle!Submit, Others, Inserted

\* a grabbed one tried,
LEMMA GrabbedMaps ==
  ASSUME IInv, NEW j \in Job, Others(j), Grabbed(jobs'[j], jobs[j], minted[j])
  PROVE  Lifecycle!Try(j)
<1>1. jobs[j].attempt <= jobs[j].max_retries
  BY DEF IInv, RowInv, AttemptsCounted, Grabbed
<1>2. Phase(jobs[j]) = "waiting" /\ Phase(jobs'[j]) = "trying"
  BY Phases DEF Grabbed, Held
<1> QED BY <1>1, <1>2 DEF Lifecycle!Try, Others, Grabbed

\* a withdrawn one withdrawn,
LEMMA WithdrawnMaps ==
  ASSUME IInv, NEW j \in Job, Others(j), Withdrawn(jobs'[j], jobs[j])
  PROVE  Lifecycle!Withdraw(j)
<1>1. Phase(jobs[j]) \in {"waiting", "trying"} /\ Phase(jobs'[j]) = "cancelled"
  BY Phases DEF Withdrawn, Live, Held, Terminal
<1> QED BY <1>1 DEF Lifecycle!Withdraw, Others, Withdrawn, SameTally

\* a completed one completed.
LEMMA CompletedMaps ==
  ASSUME IInv, NEW j \in Job, Others(j), Completed(jobs'[j], jobs[j], minted[j])
  PROVE  Lifecycle!Complete(j)
<1>1. jobs[j].attempt = minted[j]
  BY DEF IInv, RowInv, AttemptsCounted
<1>2. Phase(jobs[j]) = "trying" /\ Phase(jobs'[j]) = "succeeded"
  BY Phases DEF Completed, Terminal
<1> QED BY <1>1, <1>2 DEF Lifecycle!Complete, Others, Completed

\* So every step maps to a step or a stutter,
LEMMA StepMaps ==
  ASSUME IInv, [Next]_repoVars
  PROVE  [Lifecycle!Next]_(Lifecycle!lifecycleVars)
<1>1. CASE AllKept
  <2>1. \A k \in Job : Phase(jobs'[k]) = Phase(jobs[k]) /\ SameTally(jobs'[k], jobs[k])
    BY <1>1, KeptPhase DEF AllKept
  <2> QED BY <2>1 DEF Lifecycle!lifecycleVars, SameTally
<1>2. ASSUME NEW j \in Job, Others(j), OneRowStep(j)
      PROVE  Lifecycle!Next
  <2>1. CASE \E m \in 0 .. MaxRetries : Inserted(jobs'[j], jobs[j], m)
    BY <1>2, <2>1, InsertedMaps DEF Lifecycle!Next
  <2>2. CASE Grabbed(jobs'[j], jobs[j], minted[j])
    BY <1>2, <2>2, GrabbedMaps DEF Lifecycle!Next
  <2>3. CASE GivenBack(jobs'[j], jobs[j])
    <3>1. \A k \in Job : IF k \in {j} THEN GivenBack(jobs'[k], jobs[k])
                                      ELSE jobs'[k] = jobs[k]
      BY <1>2, <2>3 DEF Others
    <3> QED BY <3>1, GivenBackMaps DEF SomeGivenBack
  <2>4. CASE Closed(jobs'[j], jobs[j])
    <3>1. \A k \in Job : IF k \in {j} THEN Closed(jobs'[k], jobs[k])
                                      ELSE jobs'[k] = jobs[k]
      BY <1>2, <2>4 DEF Others
    <3> QED BY <3>1, ClosedMaps DEF SomeClosed
  <2>5. CASE Withdrawn(jobs'[j], jobs[j])
    BY <1>2, <2>5, WithdrawnMaps DEF Lifecycle!Next
  <2>6. CASE Completed(jobs'[j], jobs[j], minted[j])
    BY <1>2, <2>6, CompletedMaps DEF Lifecycle!Next
  <2> QED BY <1>2, <2>1, <2>2, <2>3, <2>4, <2>5, <2>6 DEF OneRowStep
<1> QED BY <1>1, <1>2, StepShape, GivenBackMaps, ClosedMaps

\* and the empty table to the empty lifecycle.
LEMMA InitMaps == Init => Lifecycle!Init
<1> SUFFICES ASSUME Init
             PROVE  Lifecycle!Init
  OBVIOUS
<1>1. /\ AbsentRow.status = "absent"
      /\ AbsentRow.max_retries = 0
      /\ AbsentRow.attempt = 0
      /\ AbsentRow.result = NULL
  BY DEF AbsentRow
<1>2. Phase(AbsentRow) = "none"
  BY <1>1, Phases
<1>3. \A j \in Job : jobs[j] = AbsentRow
  BY DEF Init
<1> QED BY <1>1, <1>2, <1>3 DEF Lifecycle!Init

\* The table and its statements implement the lifecycle of JobLifecycle.
THEOREM Refinement == Spec => ImplementsLifecycle
BY InitMaps, StepMaps, Invariance, PTL DEF Spec, ImplementsLifecycle, Lifecycle!Spec
=============================================================================

# Enduroq in TLA+

A verification project for Enduroq, the HTTP job queue over MySQL in this repository: TLA+ modules
of its components, TLC runs that check them on small instances, and TLAPS proofs that hold for every
size. File references such as `job.ts:89` are to `packages/ts-server/src/repositories/job.ts` and its
neighbours.

## The system

| Component | State | Operations | Talks to |
| --- | --- | --- | --- |
| Job repository (`repositories/job.ts`) | the `jobs` table: status, attempt, max_retries, run_after, lease token and expiry, result | enqueue, grab, ack, nack, reject, cancel, heartbeat, succeed, fail, reapExpired, get, list | MySQL through a pool |
| Connections (`mysql.createPool`, used by `job.ts`) | per connection: an open transaction, its writes and row locks | begin, statements, commit, rollback, release | repository |
| Dispatcher (`dispatcher.ts`) | one loop per worker slot and queue; in each the grabbed job and the outcome of its dispatch | start, stop, tick: grab, POST to the worker, write the outcome | repository (calls), workers (HTTP) |
| Reaper (`server.ts:143`) | none but the interval timer; passes may overlap | reapExpired: requeue a batch, then fail the rest | repository |
| HTTP API (`server.ts:178-366`) | none | enqueue, heartbeat, result, list, get, cancel | repository |
| Worker SDK (`ts-worker`) | the lease expiry a worker was told, its timer, stopped | acquire (heartbeat timer), result (with retries) | HTTP API |
| Example worker (`ts-worker-example`) | the jobs it runs | answers dispatches synchronously or with 202 and callbacks | SDK |
| Migrations (`migrations.ts`) | `enduroq_schema_migrations`, MySQL's advisory lock | migrateDatabase | MySQL |
| Start and shutdown (`server.ts:68-140, 374-392`) | timer, dispatcher, pool, listener | main, shutdown | all |
| Bearer auth (`middlewares/auth.ts`) | none | compares a header | |
| Admin console (`admin-console`) | the page's query, what it shows, the in-flight flag | poll, refresh, filter, cancel, through a proxy | HTTP API |
| Helpers (`utils`) | none | backoff, JSON, dates, delay | |

What is hard: every process writes the same row without holding anything but a lease token; requests
and answers get lost, time out and arrive late; a worker's callbacks overtake the dispatcher's own
write; loops, replicas and workers die between two steps; the reaper works in two statements; time
runs out while somebody is still working. `PROJECT.json` lists these hazards line by line with the
properties aimed at them.

What makes each part correct: the repository keeps one lease per job, bounds its dispatches, settles
it once and takes a result only from the last dispatch; the dispatcher turns answers into verdicts
that the worker really gave; the reaper loses no job; heartbeats tell the holder of a lease the truth;
the SDK keeps a lease it still needs and stops when it lost it; transactions that share a pool do not
mix; migrations run in order, however many replicas start, and before anything is served; a shutdown
finishes what it has begun; a page of the console shows what there is, in the end and never backwards.

## Modules

| Module | Models |
| --- | --- |
| `Backoff` | `utils/backoff.ts`: every delay `compute` can return, which the reaper's SQL restates |
| `JobRepository` | the table and the methods that change it, with the most general client |
| `JobLifecycle` | the abstract promise: bounded tries, one at a time, settled once |
| `DurableJobs` | the abstract promise of the methods and statements together: one course of each row, of which a failure takes back only what is not stored |
| `SchemaHistory` | the abstract promise of the migrations: the history one undisturbed migrator gives the schema |
| `JobRepositoryProofs` | the theorems about `JobRepository` |
| `Enduroq` | dispatcher loops, workers, API callbacks, clients and reapers over `JobRepository` |
| `EnduroqProofs` | the theorems about `Enduroq` |
| `WorkerSdk`, `WorkerSdkProofs` | `ts-worker` over `JobRepository`: `acquire`'s timer and overlapping heartbeats, the endpoint's two statements, the retries of `result` |
| `WorkerLease`, `WorkerLeaseProofs` | `WorkerSdk` with a history variable: who was told of another worker's lease |
| `Server`, `ServerProofs` | start, signals, shutdown, crash and restart of the process around `Enduroq` |
| `Connections`, `ConnectionsProofs` | below `JobRepository`: grab, cancel and fail statement by statement, single statements, and the pool's connections, with failures |
| `Migration`, `MigrationProofs` | `migrateDatabase` in replicas of several releases |
| `AdminConsole`, `AdminConsoleProofs` | a page of the admin console: `usePolling`, filters, cancel, the proxy |
| `MC...` | constants for TLC |

**JobRepository.** `jobs[j]` is a row; a row not inserted yet has status `absent`. Lease tokens are
UUIDs in the code, so a token is never handed out twice; here the n-th token of a job is n and
`minted[j]` counts them. `result` holds the token its output came with, because that is all the
properties tell apart. Each action is one SQL statement, or one transaction that locks its row from
the SELECT on: `Enqueue`, `Grab`, `Ack`, `Nack`, `Reject`, `Cancel`, `Heartbeat`, `Succeed`, `Fail`.
`reapExpired` is two statements, hence `ReapRequeue` and `ReapFail` with `reaping` between them, and
`ReapAbort` when the second is never run; `Reaper` names the passes that may be under way at once, of
several replicas or of one whose interval does not wait. `Next` lets anybody present any token handed
out so far, at any time, so what holds here holds for every dispatcher, worker and client.
The FIFO order of `grab` is left out: which due row a loop gets is open, as SKIP LOCKED makes it.

**Time** is relative. `run_after` and `lease_expires_at` hold the ticks left until that instant and
`Tick` lets one pass for every row; due is 0, expired is `Expired` (-1), and neither counts on. The
state space is finite without a bound on the clock, and liveness can be checked. Ticks and the
other actions interleave freely: a statement may be delayed for as long as one likes.

**Enduroq** adds the loops (`pc`, `lease`, `outcome`: `poll`, `post`, `fetch`, `settle` are the
stretches of `tick()` between its awaits) and, for each job and token, what became of that dispatch
(`work`): on its way, being worked on, finished (`ok`, `error`, `fatal`), refused, dead, stopped by a
409. A request may be received after the fetch gave up on it; an answer may be lost (`FetchFails`) or
lose its body (`"200"`, which `dispatch` takes for accepted); `LoopAborts` is an exception in the
tick or a crash of the server. `Report` may happen any number of times, and `Beat` at any time while
the worker runs. Actions of the table are those of `JobRepository`, unchanged.

**WorkerSdk** looks at one worker closely where `Enduroq` says only that it beats and reports. For each
dispatch it keeps the state of `acquire` (`state`, `leaseExpiresAt`, `interval`, and `due`, what is
left until the timer fires), the heartbeats in flight (`beats`) and the call of `result` (`report`).
`Fire` does not wait for earlier heartbeats. The endpoint's UPDATE (`BeatUpdate`) and its SELECT by id
alone (`BeatRead`) are two steps, so anything may come between them, and `toISO(null)` is 1970, a lease
expired long ago. An answer carries an instant, which comes nearer while the answer is under way;
`BeatAnswered` takes answers in any order. `BeatFails` and `ResultFails` are a broken connection or an
error, before or after the request took effect; one that had not been served yet stays in `late` and may still
arrive. `Answer` is the dispatcher's reaction, at any time while the token is current. The worker's
clock agrees with the database's, which the code needs too, since it compares `Date.now()` with an
instant of the server. Two bounds: `Watched`, the dispatches whose worker takes the job, and `Slot`,
the heartbeats of one worker in flight; a firing that finds no slot free is not sent, as if it had been lost.
Die is final: a worker process that comes back knows nothing of its jobs.

**WorkerLease** adds to `WorkerSdk` a variable that restrains nothing, `misled`: the dispatches whose worker was
read the expiry of another one's lease by `heartbeat`'s second statement. With it one can say how long a
worker goes on in the belief of having a job that it has lost.

**Server** composes `Enduroq` with the process. `server` says how far `main` and `shutdown` are, and
`ticking` which loops' promises are pending, which is what `stop()` waits for. `Signal` clears the
interval and sets `stopped`; a loop that was in its delay ends there, one that awaits `grab` still gets
its job and dispatches it (`RunLoop`, `LastGrab`). `EndPool` waits for `ticking` to be empty; from then
on every request to the API gets a 500, and a reaper pass may be refused its second statement
(`DropPass`). `Crash` may come at any point. What a dead process had in memory is cleared by `Forget`
before the next `Start`. A second signal during a shutdown is left out: it would wait for the same
promises and end a pool that has ended.

**Connections** is the level below `JobRepository`, whose actions are whole transactions. A connection is
`Free` or taken by a method (`task`: which, and its next statement). `pending` and `locks` belong to its
transaction. Of a row it keeps status and attempt; a lease is named by its attempt, which `IInv` of
`JobRepository` justifies (the token is the attempt's). `Fails` is a statement that fails with the
connection intact, a lock wait timeout for one: `cancel` and `fail` roll back, `grab` does not, and
mysql2's `release` does not reset a connection, so that its transaction stays open and later single
statements on it (`Statement`) join it, until the next `Begin` commits it. `Break` is a connection that
breaks, or a deadlock's victim; a commit whose answer was lost may have come through. `Restart` is of
either process. Not in the model: a snapshot that a left-open transaction keeps reading from, and the
lock wait timeouts that its row locks cause elsewhere, beyond that those statements wait or fail.

**Migration** has a `pc` per replica for the stretches between the awaits of `migrateDatabase`, the
session of its connection, the lock, the version the table is really at (`schema`) and the versions it
is recorded to be at. A statement only runs in a live session (`Queries`), and the lock ends with the
session: that is what keeps a replica that lost it from going on. The DDL of MySQL commits by itself, so
a crash between `Apply` and `Record` leaves a version applied and not recorded. MIGRATIONS has two
entries; the loop is modelled for a list of any length, the first creating the table if it is not
there and the others modifying it. A replica that times out, or finds a newer database, exits and is
started again. Left out: RELEASE_LOCK that fails in a live session, replicas with
ENDUROQ_DB_AUTO_MIGRATE off, and `schema.sql` run by hand over an older table, which would record a
version it does not apply.

**AdminConsole** is one mounted page: its query (filters and page number), whether it is polled and
visible, the hook's guard (`inFlight`), the fetches under way and what it shows. The server's data is a
version number and whether the page's job is live. `list` counts (`Count`) and selects (`List`) in two
statements, so a total may be older than its rows; `Get` is the read of one job. List page and job page
are one model, with more behaviours than either. `Run` drops a request while another is in flight,
whoever asks.

The operators called "Mutant of ..." are faulty variants of the definition after them. No
specification uses them; each shows that a property can tell the code from a plausible mistake.

## Runs

| Run | Shows |
| --- | --- |
| `repository` | `IInv` and its parts, `RetryBudget`, `ResultOfLastLease`, `TerminalIsFinal`, `LeaseIsNeverHandedOver`; the table implements `JobLifecycle`; `EveryMoveCounts`: each change of a job's status leaves fewer to come, so that no job goes round for ever; `ExpiredIsReaped`: batches of one and half-finished passes leave no lease expired for ever |
| `enduroq` | (`Server` over `Enduroq`) `SucceededIsEarned`, `FailedIsJustified`, `AckKeepsHeartbeat`, `AskedOnce` (no request of a dispatch is sent again, no word of a worker taken back) in the whole system, through shutdowns, crashes and restarts; `GracefulStop`: a shutdown cuts off no tick; `ShutdownEnds`; `EventuallySettled`: every job is settled in the end; `EnduroqInv` and `ServerInv`, the invariants the proofs use |
| `sdk` | `GoneIsFinal`, `StopIsFinal`: overlapping, lost and overtaking heartbeats stop no worker that has its job, nor abort it after `stop()`; `DeliveredIsTaken`: what it calls delivered after its tries was taken; `SucceededIsReported`: what succeeded, its worker reported so; `LostLeaseIsNoticed`: one that lost its job stops in the end; `SdkInv`, the invariant the proofs use |
| `sdk_lease` | (`WorkerLease`, with timers that bring a lease nearer) `BeliefIsCovered`: what a worker that has its job believes of its lease exceeds the table by at most `Slack`, what the ack and the first heartbeat may take away; `OverrunIsBounded`: one whose job was given up goes on in that belief for less than `Slack`, unless it was misled; `BeliefInv` and `OverrunInv`, the invariants the proofs use |
| `migration` | `ServingIsMigrated`: replicas that race, die and lose their sessions apply every migration, in order, before one serves; the schema implements `SchemaHistory`; `EventuallyUp`: the newest release comes up; `MigrationInv` |
| `connections` | `DispatchIsCommitted`, `CancelIsKept`, `CommittedIsKept`: what a grab and a cancel have answered is committed and stays, also next to the transactions that a failed grab leaves open; the rows implement `DurableJobs`; `ConnectionsInv` |
| `admin` | `ViewNeverGoesBack`; `ViewCatchesUp` and `CancelIsShown`: dropped and failed refreshes only delay what a polled page shows; `ConsoleInv` |
| `busy`, `fatal_report`, `heartbeat_race`, `sdk_interval`, `durable` | five places where code and documentation part, see below |

**Bounds.** `repository` has two jobs, so that a batch of one leaves one over and a pass touches
rows that differ; two reaper passes, so that they overlap; up to two retries, so that a job is
dispatched a first, a middle and a last time; timers of one to three ticks, so that "not yet", "just"
and "expired" occur. `enduroq` has one job, two loops (a job is grabbed again while the first loop
still waits) and up to one retry (a stale and a current dispatch): the loops meet in the job, and
jobs meet only in the reaper's batch, which `repository` covers; two stops (`MaxStops`), so that a
shutdown is interrupted by a crash and a restarted server is stopped again. `sdk` has one job with up to two
dispatches and watches the worker of the first, with two heartbeats in flight: the job can be taken
from it, given to another and settled there. One retry of `result`
gives a lost answer and a request that comes late. `sdk_lease` has the same job and worker and no retry of
`result`, with a grace of 3, a lease of 2 and an extension of 1: the ack brings the expiry nearer, a
heartbeat before or after it again, and `Slack` is 1, which the worker's belief reaches both while it has
the job and after it was given up. Both intervals are 0 in these two: in `sdk` the timer fires at any moment, a superset of
what it does, in `sdk_lease` from a third of the grace on. In `heartbeat_race`
and `sdk_interval` `MinInterval` is one tick, so a tick is a second there. `migration` has three replicas, two that know
three versions, one of them only migrating, and one that knows two: so there is a list with a middle, a race of
three for the lock, and a release that is too old; two faults let one replica stop half-way and the one
that takes over stop too. `connections` has two jobs and two connections (a method against a single
statement, a second method or an open transaction; each in the other's rows) and two faults, one to
leave a transaction open and one to lose it; it uses symmetry, which is sound there as no liveness is checked. `admin` has two queries and two changes of the data.

**Fairness** (`FairSpec`, `FairEnduroqSpec`, `FairSdkSpec`). Time passes (weak). A loop does not stay in a tick,
because fetch has a timeout and every query returns or throws, and it polls in between (weak, per
loop); it may well crash each time. A worker ends its job or dies (weak): one that runs and beats
for ever keeps its lease for ever, by design. The interval fires again and again (weak for the
first statement of a pass) and the second statement does not fail every time (strong: each failure
disables it until the next pass). Nothing is assumed of messages, callbacks and clients.
`FairServerSpec` adds that a server that is down is started, and that a shutdown goes on because neither
`pool.end` nor `server.close` waits for ever; a pass of a reaper whose process is gone is over.
`FairSpec` of `Migration`: a replica goes on while it can and is started again when it exits (weak), and
gets the lock if it comes free again and again (strong: MySQL grants it in turn); there are only
finitely many faults. `FairSpec` of `AdminConsole`: the interval fires and a fetch ends (weak), and not
every one in an error (strong); the browser sets no timeout, but the proxy's own fetch has one.
`Connections` has no liveness: which connection the pool hands out is left open.
`FairSdkSpec`: time passes, a timer that is due fires, and a heartbeat ends, answered or not, because
a connection does not last for ever; the server need not serve it.

## Where the code and its documentation part

- `busy`: a 503 consumes a retry. `grab` counts the attempt and `nack` does not give it back; with
  `max_retries` 0, the API's default, the first 503 fails the job.
- `fatal_report`: `retryable: false` reported to the result endpoint is read as `true`.
- `heartbeat_race`: the 200 of a heartbeat can carry 1970 or the expiry of another worker's lease.
- `sdk_interval`: `Math.min(heartbeatIntervalMs)` has one argument, so a third of the lease wins over
  a shorter interval: 10 s instead of 4 s for the example worker under a grace of 30 s.
- `durable`: after a failed statement `grab` returns its connection with the transaction open. An
  enqueue that comes next on it is answered with 201 but is only part of that transaction: it is lost
  if the connection breaks, or the server or the database restarts, before another method commits it.
  The run's trace ends in a broken connection, which is what a restart does to every connection.

Smaller ones are not runs: a heartbeat sets the expiry to now plus `leaseExtendSeconds`, and shortens a
lease that had more left, as the ack does if the lease is shorter than the grace. Nothing checks the order
of the three. If the answer of the first heartbeat is lost, the worker believes in what is left of the grace while
the table holds the extension, and the reaper may give its job away before. `Slack` is the most by which
that happens: nothing with the defaults or the README's sample (an extension of 30 s under a grace of 30 s), 5 s for the
example worker, which asks for 15 s when 20 s of a grace of 30 s are left;
a result that was taken is called `"stale"` when its answer is lost and it is posted again;
a result that is a string of JSON text is read back as the value it spells (`json.ts:11`);
`refresh`, "an immediate out-of-band refresh" (`usePolling.ts:9`), does nothing while a poll is in
flight; with auto-refresh off a new filter or page number fetches nothing (`usePolling.ts:48`); the delay after a 503 is constant, where the README says it backs off; results and heartbeats are accepted after the expiry as long as no reaper
pass came by, while the README's 409 says the lease had expired; the README's descriptions of
`ENDUROQ_LEASE_IN_SEC` and `ENDUROQ_ACK_GRACE_IN_SEC` are swapped; the jitter of 5 adds at most 4;
the table of delays starts at attempt 0, but the first retry comes at attempt 1.

## Proofs

`JobRepositoryProofs` proves for any number of jobs, queues, reapers and retries, any timers and any
client, from `BackoffAssumption` and `RepositoryAssumption` (NULL is no number and no queue, the
timers are natural numbers):

- `Invariance`: `Spec => []IInv`. `RetryBudget` and `ResultOfLastLease` are not inductive alone. The
  budget needs that a queued row has an attempt left and that `attempt` counts the tokens; the result
  needs that a held row has the last token. `RowInv` says all that of one row, so that each action is
  a lemma about one row (`RequeueRow`, `CloseRow`, `CompleteRow`, `ExtendRow`, `GrabRow`, `NewRow`,
  `ElapseRow`) and one that it writes no other (`OneRow`, `RowByRow`).
- `Types`, `RetryBudgetHolds`, `ResultIsOfLastLease`: consequences of `IInv`.
- `TerminalStaysFinal`, `LeasePassesThroughQueue`: action properties. `StepShape` classifies every
  step (one row inserted, grabbed, given back, closed, withdrawn or completed; several given back or
  closed; or all kept) and the properties follow from the classes.
- `MovesRunOut`: `EveryMoveCounts`, from the classes too. `MovesLeft` is natural by `IInv` and goes down
  with every change of status, so that it bounds them, whoever makes them, and lets heartbeats, late calls
  and time pass. It is the part of `EventuallySettled` that needs no fairness.
- `Refinement`: `Spec => ImplementsLifecycle`; the same classes map to the actions of `JobLifecycle`.

`EnduroqProofs` proves of the whole system, for any number of loops as well, with `LoopAssumption`
(every loop serves a queue; NULL is no lease and no outcome):

- `EnduroqInvariance`: `EnduroqSpec => []EnduroqInv`. A verdict can only be trusted if the outcome a
  loop holds is about the dispatch it grabbed (`LoopsApart`), if a worker's word is about a dispatch
  that was sent (`WorkIsSent`), if the loop read the answer right (`OutcomesAreHeard`), and if only
  the last token settles a job (`IInv`). `LoopsStep` and `WorkStep` say what a step may do to a loop
  and to a dispatch, `VerdictStep` where a verdict can come from; each conjunct follows from them.
- `EnduroqTypes`, `SuccessIsEarned`, `FailureIsJustified`: consequences of `EnduroqInv`.
- `DispatchIsAskedOnce` (`AskedOnce`): a loop that posts has a dispatch that no one has sent (`WorkMoves`
  says what a step may do to it), and a settled word is never overwritten. `AckSparesHeartbeat`
  (`AckKeepsHeartbeat`): of a running row an ack finds nothing to write.
- `SystemIsAClient`: `EnduroqSpec => Spec`, because whatever loops and workers present is a token that
  was handed out. So all theorems of `JobRepositoryProofs` hold of the system; `SystemRefinement` is
  the one for the lifecycle.

`ServerProofs`, from `ServerAssumption` as well: `ServerIsEnduroq` (`ServerSpec => EnduroqSpec`), so that
every theorem about `Enduroq` holds through restarts (`VerdictsSurviveRestarts`,
`RestartsAskNothingTwice`, `ServerRefinement`, `ServerMovesRunOut`);
`ServerInvariance` and `ShutdownIsGraceful`: a tick is only ever under way in a loop whose promise
`stop()` still waits for.

`ConnectionsProofs`, for any number of jobs and connections: `ConnectionsInvariance` shows that a
transaction has locked what it has written, that no two have locked the same row, that what is pending is
later than what is committed, and that a method still has what it selected. `PutStep`, `EndStep` and
`LockStep` are the three ways in which the database changes; each spares the rows of the other
connections (`Spared`), so that a step of a method is looked at on its own connection only
(`OneConnection`). `CancelStays`, `CommittedStays` and `LeaseIsCommitted` follow.
`DurableRefinement` maps the connections to `DurableJobs`: what is stored is the table, what is written the
row of the one transaction that has written it (`OneWriter`), else the table's. A statement is an edge from
what was written last, since its row is locked or was found unlocked (`PutMaps`); the end of a transaction
stores or loses its rows (`EndMaps`), and a restart loses all that are open. That needed `SelectedIsLocked` to say that
`fail` still has the held row of its lease when it updates it by id alone (`Matches`).
`AcceptedIsKept` is the one thing that an open transaction does break. `AcceptedStays` says that nothing else does:
under `TidySpec` a connection in a transaction always has a method (`NothingLeftOpen`), so that an enqueue commits by
itself and no later statement takes the row away (`TidyInvariance`). It assumes `Conn # {}`. No run checks
`TidySpec`: `durable` shows on a small instance what is lost without its hypothesis.

`MigrationProofs`, for any replicas, releases and faults: `MigrationInvariance` (the lock goes with the
session; the table is at most one step ahead of its record; what the holder has read stays true),
`ServesMigrated`, `SchemaOnlyGrows`. `HistoryRefinement` maps them to `SchemaHistory`: the migration a replica
applies is the one after the last recorded, or the one whose record was lost, which changes nothing.

`AdminConsoleProofs`, for any queries and changes: `ConsoleInvariance` (one request at a time, none older
than the page), `PageOnlyAdvances`.

`WorkerSdkProofs`, for any jobs, dispatches, retries and heartbeats in flight, from `SdkAssumption` (a
worker asks for an extension that the endpoint may be asked for, and the watched dispatches are dispatches). `SdkIsAClient`: `SdkSpec => Spec`,
since a token that has no row changes nothing and one that has a row was handed out (`PresentedToken`).
`SdkInvariance`: `SdkSpec => []SdkInv`. A 409 or a 200 under way is about a token that was handed out
(`OnlySent`: before that, a dispatch is `Blank`), so that what was true when it was sent stays true
(`LostStaysLost`, `TakenStays`, from the lemmas of `JobRepositoryProofs`); `GoneStaysGone` and
`DeliveredWasTaken` follow. `StopStaysFinal` is `StopIsFinal`. `SdkRefinement` is the lifecycle and `EveryMoveCounts`.

`BeliefHolds` proves `BeliefIsCovered`, whatever the order of grace, lease, extension and intervals. It is not inductive:
a later ack or heartbeat may bring the expiry nearer. `BeliefInv` says what they find. A job that is
`dispatching` was promised no more than the grace, which is what the ack may shorten. A lease is extended by its
own heartbeats only (`TableExpiry`), and none is served before the timer fired: until then (`BeforeBeats`) the
worker has no more than `FirstBeat` left beyond what is left until it fires (`LaterIsLess`: also if it
acquires the job late), and from then on it relies on no more than the extension and `Slack` (`BeatsComeNear`, by
`OwnStepIsNear`). A heartbeat that has updated the row finds it `running` within the extension, or lost (`UpdatesAreKept`),
so its answer promises no more.

`SuccessWasReported` proves `SucceededIsReported`: only `result` with success writes it, with the token it was
posted with, and a report is never unsaid (`ReportInvariance`). The run watches one worker; the theorems are about
any number of them.

`WorkerLeaseProofs`, for the same and any timers. `LeaseIsSdk`: `LeaseSpec => SdkSpec`, so all of that holds with
the memory too. `OverrunHolds` proves `OverrunIsBounded` from the inductive `OverrunInv`: a dispatch that was followed
by a later one, or by the queue, is `Over` for its worker. It has reported or left the job, or was misled, or
all that it was told, and every answer under way, ends within `Slack`. A lease that the reaper takes back had
expired in the table, so by `BeliefInv` the worker's own expiry and those under way are within `Slack`
(`ExpiredRunsOut`); one that a result or an answer of the worker gives back is over by what it said
(`RequeuedIsOver`, with `ReportInv`); and what is over stays so, as only a 200 could renew it, and to a worker that has
lost the job it says 1970 or misleads it (`OverStays`). So a job has two believers only for less than `Slack`, or through
the race of `heartbeat_race`; the code has both, and neither is assumed away. A worker whose belief has run out
may still be at work until its next heartbeat fails: `LostLeaseIsNoticed` is about that.

Only TLC checks the five violations and liveness (`ExpiredIsReaped`, `EventuallySettled`, `ShutdownEnds`, `LostLeaseIsNoticed`,
`EventuallyUp`, `ViewCatchesUp`, `CancelIsShown`): fairness and ENABLED are out of the prover's reach.

## Not modelled

- Authentication (`middlewares/auth.ts`): a comparison of a header with a constant, with no state.
- The health route, the rejection of malformed requests, configuration parsing, logging and rendering:
  no state that anything else depends on.
- JSON conversion (`utils/json.ts`) beyond the remark above, and the real length of delays and timeouts:
  `Enduroq` lets a fetch end at any time, so it does not need `server.ts:96`, which makes the timeout
  shorter than the grace.
- The order in which `grab` takes due jobs: SKIP LOCKED makes it depend on who has what locked. With it
  goes fairness between jobs, which the code does not promise.
- In the admin console, unmounting a page, and navigation between pages.
- The end-to-end scenario (`packages/e2e`), a test driver, and the demo routes of the example worker
  beyond their answers.

----------------------------- MODULE WorkerSdk -----------------------------
(***************************************************************************)
(* The worker SDK against the table: Worker.acquire() keeps a lease with   *)
(* heartbeats from a timer that does not wait for their answers, and       *)
(* CallbackClient.result() posts the result, again when no answer came.    *)
(* Both run at once, and a worker that was given up may still run next to  *)
(* the one that has the job now.                                           *)
(*                                                                         *)
(* A dispatch <<j, t>> is job j under its t-th token.  Instants are ticks  *)
(* left, as in JobRepository, also those in answers under way.             *)
(***************************************************************************)
EXTENDS JobRepository, FiniteSetsExt

CONSTANTS
  Watched,            \* bound on the dispatches whose worker takes the job
  Slot,               \* bound on the heartbeats that a worker has in flight
  MinInterval,        \* the 1000 ms of acquire()
  HeartbeatInterval,  \* heartbeatIntervalMs
  LeaseExtend,        \* leaseExtendSeconds, or the server's lease without it
  ResultRetries       \* resultRetries

Dispatch == Job \X (1 .. (MaxRetries + 1))

ASSUME SdkAssumption ==
  /\ Watched \subseteq Dispatch
  /\ MinInterval \in Nat
  /\ HeartbeatInterval \in Nat
  /\ LeaseExtend \in Extend \cup {Lease}
  /\ ResultRetries \in Nat

VARIABLES
  state,           \* of acquire(), per dispatch
  leaseExpiresAt,  \* when the worker thinks that its lease ends
  interval,        \* of the timer
  due,             \* the ticks left until it fires
  beats,           \* the heartbeats in flight
  report,          \* the call of result()
  late             \* the requests their sender gave up that may still arrive

sdkVars == <<state, leaseExpiresAt, interval, due, beats, report, late>>
vars == <<repoVars, sdkVars>>

Idle == [stage |-> "idle", expiry |-> NULL]
Done == {"delivered", "stale", "failed"}

Instants == Nat \cup {Expired, NULL}

BeatsTyped ==
  /\ beats \in [Dispatch -> [Slot ->
       [ stage  : {"idle", "sent", "updated", "gone", "ok"},
         expiry : Instants ]]]
  /\ \A d \in Dispatch, s \in Slot :
       beats[d][s].stage = "ok" <=> beats[d][s].expiry # NULL

SdkTypeOK ==
  /\ TypeOK
  /\ state \in [Dispatch -> {"none", "refused", "working", "stopped", "aborted", "dead"}]
  /\ leaseExpiresAt \in [Dispatch -> Instants]
  /\ interval \in [Dispatch -> Nat]
  /\ due \in [Dispatch -> Nat]
  /\ BeatsTyped
  /\ report \in [Dispatch ->
       [ stage : {"none", "posted", "ok", "conflict"} \cup Done,
         tries : 0 .. ResultRetries,
         good  : BOOLEAN ]]
  /\ late \subseteq {"beat", "result"} \X Dispatch

SdkInit ==
  /\ Init
  /\ state = [d \in Dispatch |-> "none"]
  /\ leaseExpiresAt = [d \in Dispatch |-> NULL]
  /\ interval = [d \in Dispatch |-> 0]
  /\ due = [d \in Dispatch |-> 0]
  /\ beats = [d \in Dispatch |-> [s \in Slot |-> Idle]]
  /\ report = [d \in Dispatch |-> [stage |-> "none", tries |-> 0, good |-> TRUE]]
  /\ late = {}

-----------------------------------------------------------------------------
(* acquire() *)

\* Math.max(1000, Math.min(heartbeatIntervalMs), Math.floor(window / 3))
Interval(window) == Max({MinInterval, HeartbeatInterval, window \div 3})

Acquire(d) ==
  /\ d \in Watched
  /\ state[d] = "none"
  /\ leaseExpiresAt[d] # NULL
  /\ state' = [state EXCEPT ![d] = "working"]
  /\ interval' = [interval EXCEPT ![d] = Interval(leaseExpiresAt[d])]
  /\ due' = [due EXCEPT ![d] = interval'[d]]
  /\ UNCHANGED <<repoVars, leaseExpiresAt, beats, report, late>>

Beat(d, s, stage, expiry) ==
  beats' = [beats EXCEPT ![d][s] = [stage |-> stage, expiry |-> expiry]]

\* The timer fires, whatever became of the heartbeats before.
Fire(d) ==
  /\ state[d] = "working"
  /\ due[d] = 0
  /\ due' = [due EXCEPT ![d] = interval[d]]
  /\ \/ \E s \in Slot : beats[d][s] = Idle /\ Beat(d, s, "sent", NULL)
     \/ Idle \notin {beats[d][s] : s \in Slot} /\ UNCHANGED beats
  /\ UNCHANGED <<repoVars, state, leaseExpiresAt, interval, report, late>>

\* Mutant of BeatUpdate: a job that was not acked yet is refused.
BeatUpdateRunning(d, s) ==
  /\ beats[d][s].stage = "sent"
  /\ Update(d[1], Holds(d[1], d[2], {"running"}),
       [jobs[d[1]] EXCEPT !.lease_expires_at = LeaseExtend])
  /\ Beat(d, s, IF Holds(d[1], d[2], {"running"}) THEN "updated" ELSE "gone", NULL)
  /\ UNCHANGED <<minted, reaping, state, leaseExpiresAt, interval, due, report, late>>

\* heartbeat() of the repository: an UPDATE, and after it a SELECT of the row's
\* expiry by id alone, with no transaction around them.
BeatUpdate(d, s) ==
  /\ beats[d][s].stage = "sent"
  /\ Heartbeat(d[1], d[2], LeaseExtend)
  /\ Beat(d, s, IF Holds(d[1], d[2], Held) THEN "updated" ELSE "gone", NULL)
  /\ UNCHANGED <<state, leaseExpiresAt, interval, due, report, late>>

BeatRead(d, s) ==
  /\ beats[d][s].stage = "updated"
  /\ Beat(d, s, "ok", ToISO(jobs[d[1]].lease_expires_at))
  /\ UNCHANGED <<repoVars, state, leaseExpiresAt, interval, due, report, late>>

\* Mutant of Abort: after stop(), too.
AbortStopped(d) == state' = [state EXCEPT ![d] = "aborted"]

\* stop() and ac.abort(), unless stopped before.
Abort(d) ==
  state' = [state EXCEPT ![d] = IF @ = "working" THEN "aborted" ELSE @]

\* Mutant of AbortIfExpired: wait for the next heartbeat.
WaitForNext(d) == UNCHANGED state

\* if (Date.now() > leaseExpiresAt)
AbortIfExpired(d) ==
  IF leaseExpiresAt[d] = Expired THEN Abort(d) ELSE UNCHANGED state

\* Mutant of Believe: the worker counts from the answer's arrival.
BelieveFromNow(d, expiry) ==
  leaseExpiresAt' = [leaseExpiresAt EXCEPT ![d] = LeaseExtend]

Believe(d, expiry) ==
  leaseExpiresAt' = [leaseExpiresAt EXCEPT ![d] =
    IF state[d] = "working" THEN expiry ELSE @]

\* The answer of a heartbeat; a body that cannot be read is like a failure.
BeatAnswered(d, s) ==
  /\ state[d] # "dead"
  /\ \/ /\ beats[d][s].stage = "ok"
        /\ \/ Believe(d, beats[d][s].expiry) /\ UNCHANGED state
           \/ AbortIfExpired(d) /\ UNCHANGED leaseExpiresAt
     \/ /\ beats[d][s].stage = "gone"
        /\ Abort(d)
        /\ UNCHANGED leaseExpiresAt
  /\ Beat(d, s, "idle", NULL)
  /\ UNCHANGED <<repoVars, interval, due, report, late>>

\* A connection breaks, or the server answers with an error.
BeatFails(d, s) ==
  /\ state[d] # "dead"
  /\ beats[d][s] # Idle
  /\ AbortIfExpired(d)
  /\ Beat(d, s, "idle", NULL)
  /\ late' = IF beats[d][s].stage = "sent" THEN late \cup {<<"beat", d>>} ELSE late
  /\ UNCHANGED <<repoVars, leaseExpiresAt, interval, due, report>>

LateBeat(d) ==
  /\ <<"beat", d>> \in late
  /\ Heartbeat(d[1], d[2], LeaseExtend)
  /\ late' = late \ {<<"beat", d>>}
  /\ UNCHANGED <<state, leaseExpiresAt, interval, due, beats, report>>

-----------------------------------------------------------------------------
(* result() *)

Reporting(d, stage) == report' = [report EXCEPT ![d].stage = stage]

\* The work is done, or has thrown: after an abort as well.
Finish(d) ==
  /\ state[d] \in {"working", "aborted"}
  /\ report[d].stage = "none"
  /\ \E good \in BOOLEAN :
       report' = [report EXCEPT ![d] = [stage |-> "posted", tries |-> 0, good |-> good]]
  /\ UNCHANGED <<repoVars, state, leaseExpiresAt, interval, due, beats, late>>

\* Mutant of Result: the body's status is not looked at.
ResultAlwaysGood(d) == Succeed(d[1], d[2])

\* POST /jobs/:id/result
Result(d) ==
  IF report[d].good THEN Succeed(d[1], d[2]) ELSE Fail(d[1], d[2], TRUE)

ResultServed(d) ==
  /\ report[d].stage = "posted"
  /\ Result(d)
  /\ Reporting(d, IF Holds(d[1], d[2], Held) THEN "ok" ELSE "conflict")
  /\ UNCHANGED <<state, leaseExpiresAt, interval, due, beats, late>>

\* Mutant of ResultAnswered: 409 means that the result had come before.
ConflictIsDelivered(d) ==
  /\ report[d].stage \in {"ok", "conflict"}
  /\ state[d] # "dead"
  /\ Reporting(d, "delivered")
  /\ UNCHANGED <<repoVars, state, leaseExpiresAt, interval, due, beats, late>>

ResultAnswered(d) ==
  /\ state[d] # "dead"
  /\ \/ report[d].stage = "ok" /\ Reporting(d, "delivered")
     \/ report[d].stage = "conflict" /\ Reporting(d, "stale")
  /\ UNCHANGED <<repoVars, state, leaseExpiresAt, interval, due, beats, late>>

\* No answer, or an error: the next try, if there is one.
ResultFails(d) ==
  /\ state[d] # "dead"
  /\ report[d].stage \in {"posted", "ok", "conflict"}
  /\ \/ /\ report[d].tries < ResultRetries
        /\ report' = [report EXCEPT ![d] =
             [stage |-> "posted", tries |-> @.tries + 1, good |-> @.good]]
     \/ /\ report[d].tries = ResultRetries
        /\ Reporting(d, "failed")
  /\ late' = IF report[d].stage = "posted" THEN late \cup {<<"result", d>>} ELSE late
  /\ UNCHANGED <<repoVars, state, leaseExpiresAt, interval, due, beats>>

LateResult(d) ==
  /\ <<"result", d>> \in late
  /\ Result(d)
  /\ late' = late \ {<<"result", d>>}
  /\ UNCHANGED <<state, leaseExpiresAt, interval, due, beats, report>>

\* finally { job.stop() }
Stop(d) ==
  /\ state[d] = "working"
  /\ report[d].stage \in Done
  /\ state' = [state EXCEPT ![d] = "stopped"]
  /\ UNCHANGED <<repoVars, leaseExpiresAt, interval, due, beats, report, late>>

Die(d) ==
  /\ state[d] \in {"working", "aborted"}
  /\ state' = [state EXCEPT ![d] = "dead"]
  /\ UNCHANGED <<repoVars, leaseExpiresAt, interval, due, beats, report, late>>

-----------------------------------------------------------------------------
(* The server, and time *)

\* The payload that a worker may get carries the expiry of the grab.
GrabAndSend(j) ==
  /\ \E q \in Queue : Grab(j, q)
  /\ leaseExpiresAt' = [leaseExpiresAt EXCEPT ![<<j, minted'[j]>>] = AckGrace]
  /\ UNCHANGED <<state, interval, due, beats, report, late>>

\* A worker that takes the job answers 202; one that never will, 503 or 4xx.
Answer(d) ==
  /\ leaseExpiresAt[d] # NULL
  /\ \/ /\ state[d] # "refused"
        /\ Ack(d[1], d[2])
        /\ UNCHANGED state
     \/ /\ state[d] = "none"
        /\ Nack(d[1], d[2]) \/ Reject(d[1], d[2])
        /\ state' = [state EXCEPT ![d] = "refused"]
  /\ UNCHANGED <<leaseExpiresAt, interval, due, beats, report, late>>

Environment ==
  /\ \/ \E j \in Job : Client(j)
     \/ \E r \in Reaper : Reap(r)
  /\ UNCHANGED sdkVars

Later(instant) == IF instant \in {NULL, Expired} THEN instant ELSE instant - 1

TimePasses ==
  /\ Tick
  /\ leaseExpiresAt' = [d \in Dispatch |-> Later(leaseExpiresAt[d])]
  /\ due' = [d \in Dispatch |-> IF due[d] > 0 THEN due[d] - 1 ELSE 0]
  /\ beats' = [d \in Dispatch |-> [s \in Slot |->
       [beats[d][s] EXCEPT !.expiry = Later(@)]]]
  /\ UNCHANGED <<state, interval, report, late>>

HeartbeatStep(d) ==
  \/ Fire(d)
  \/ \E s \in Slot : \/ BeatUpdate(d, s) \/ BeatRead(d, s)
                     \/ BeatAnswered(d, s) \/ BeatFails(d, s)

ResultStep(d) == Finish(d) \/ ResultServed(d) \/ ResultAnswered(d) \/ ResultFails(d)

DispatchStep(d) ==
  \/ Acquire(d) \/ HeartbeatStep(d) \/ ResultStep(d)
  \/ Stop(d) \/ Die(d) \/ Answer(d)
  \/ LateBeat(d) \/ LateResult(d)

SdkNext ==
  \/ \E d \in Dispatch : DispatchStep(d)
  \/ \E j \in Job : GrabAndSend(j)
  \/ Environment
  \/ TimePasses

SdkSpec == SdkInit /\ [][SdkNext]_vars

\* Time passes, the timer fires in the end, and each heartbeat ends: answered or
\* not, as the connection lasts.
SdkFairness ==
  /\ WF_vars(TimePasses)
  /\ \A d \in Watched :
       /\ WF_vars(Fire(d))
       /\ \A s \in Slot : WF_vars(BeatAnswered(d, s) \/ BeatFails(d, s))

FairSdkSpec == SdkSpec /\ SdkFairness

-----------------------------------------------------------------------------
(* Properties *)

Taken(d) ==
  /\ jobs[d[1]].lease_token # d[2]
  /\ report[d].good => /\ jobs[d[1]].status = "succeeded"
                       /\ jobs[d[1]].result = d[2]

\* A result that result() calls delivered was taken, and this worker's: whoever
\* had the job before or gets it later, and whichever of the tries was served.
DeliveredIsTaken ==
  \A d \in Dispatch : report[d].stage = "delivered" => Taken(d)

\* What is left of the grace when the first heartbeat is due, if acquire() came at once.
FirstBeat == AckGrace - Interval(AckGrace)

\* The most by which the server may bring a lease nearer than it told the worker,
\* whose first instant is the end of the grace: the ack sets the lease, a heartbeat
\* the extension, counted from then, with no look at what is left.
Slack == Max({0, AckGrace - Lease, FirstBeat - LeaseExtend})

\* As long as a worker has the job, the expiry it believes in is later than the one
\* in the table by no more than Slack, whichever answers are lost or overtake each
\* other.  Where Slack is 0, that belief has run out when the reaper may take the job.
BeliefIsCovered ==
  \A d \in Dispatch :
    /\ state[d] = "working"
    /\ jobs[d[1]].lease_token = d[2]
    => leaseExpiresAt[d] <= jobs[d[1]].lease_expires_at + Slack

\* A worker that is told 409 may stop at once: its token has lost the job for
\* good, whatever other heartbeats of it are under way.
GoneIsFinal ==
  \A d \in Dispatch, s \in Slot :
    beats[d][s].stage = "gone" => jobs[d[1]].lease_token # d[2]

\* Nothing is known of a dispatch before its token is handed out.
Blank(d) ==
  /\ leaseExpiresAt[d] = NULL
  /\ state[d] = "none"
  /\ \A s \in Slot : beats[d][s].stage = "idle"
  /\ report[d].stage = "none"
  /\ <<"beat", d>> \notin late

OnlySent == \A d \in Dispatch : d[2] <= minted[d[1]] \/ Blank(d)

\* The 200 of a result is true from when it is sent.
AnswersAreTrue ==
  \A d \in Dispatch : report[d].stage \in {"ok", "delivered"} => Taken(d)

\* The inductive invariant behind DeliveredIsTaken and GoneIsFinal: what the server
\* told a worker was true and stays so, being about a token handed out before.
SdkInv ==
  /\ IInv
  /\ SdkTypeOK
  /\ OnlySent
  /\ GoneIsFinal
  /\ AnswersAreTrue

\* An instant that the worker of d may rely on, also after an ack.
Covered(d, instant) ==
  jobs[d[1]].lease_token = d[2] =>
    /\ instant <= jobs[d[1]].lease_expires_at + Slack
    /\ jobs[d[1]].status = "dispatching" => instant <= AckGrace

PromisesCovered ==
  \A d \in Dispatch :
    /\ state[d] = "working" => leaseExpiresAt[d] # NULL
    /\ leaseExpiresAt[d] # NULL => Covered(d, leaseExpiresAt[d])
    /\ \A s \in Slot :
         beats[d][s].expiry # NULL => Covered(d, beats[d][s].expiry)

\* No heartbeat of d was sent, and none is due before FirstBeat.
BeforeBeats(d) ==
  /\ \A s \in Slot : beats[d][s].stage = "idle"
  /\ <<"beat", d>> \notin late
  /\ leaseExpiresAt[d] <= AckGrace
  /\ state[d] = "working" => leaseExpiresAt[d] - due[d] <= FirstBeat

\* What a worker relies on is covered after a heartbeat, too, once there may be one.
BeatsComeNear ==
  \A d \in Dispatch : jobs[d[1]].lease_token = d[2] =>
    /\ leaseExpiresAt[d] # NULL =>
         leaseExpiresAt[d] <= LeaseExtend + Slack \/ BeforeBeats(d)
    /\ \A s \in Slot : beats[d][s].expiry # NULL => beats[d][s].expiry <= LeaseExtend

\* Between the statements of a heartbeat its job runs on what a heartbeat set, as
\* an ack that comes late changes nothing, or is lost.
UpdatesAreKept ==
  \A d \in Dispatch, s \in Slot :
    beats[d][s].stage = "updated" /\ jobs[d[1]].lease_token = d[2] =>
      /\ jobs[d[1]].status = "running"
      /\ jobs[d[1]].lease_expires_at <= LeaseExtend

\* The inductive invariant behind BeliefIsCovered: what the dispatch carried, what is
\* in answers under way and what is read next are covered too.
BeliefInv == PromisesCovered /\ BeatsComeNear /\ UpdatesAreKept

\* A job is succeeded only if the worker of its last dispatch has called result()
\* with a success, on whichever try and however late that came.
SucceededIsReported ==
  \A j \in Job : jobs[j].status = "succeeded" =>
    LET d == <<j, minted[j]>>
    IN report[d].stage # "none" /\ report[d].good

\* The inductive invariant behind it: nothing is under way that was never posted,
\* and what was posted is not taken back.
LateIsPosted ==
  \A d \in Dispatch : <<"result", d>> \in late => report[d].stage # "none"

ReportInv == LateIsPosted /\ SucceededIsReported

\* After stop(), no late answer of a heartbeat aborts the worker's signal, which
\* may by then belong to other work.
StopIsFinal ==
  [][\A d \in Dispatch : state[d] = "stopped" => state'[d] = "stopped"]_vars

\* A worker that lost its job stops in the end, even if it never hears so; only
\* those that are watched ever have one.
LostLeaseIsNoticed ==
  \A d \in Watched :
    state[d] = "working" /\ jobs[d[1]].lease_token # d[2] ~> state[d] # "working"

\* What the README says of heartbeatIntervalMs: a heartbeat is due within it.
BeatsAsAsked ==
  \A d \in Dispatch : state[d] = "working" => due[d] <= HeartbeatInterval

\* What the README says of 200: it carries the expiry of the caller's lease, never
\* what is in the row of a job that the caller has lost in between.
OwnRead ==
  \A d \in Dispatch, s \in Slot : BeatRead(d, s) => jobs[d[1]].lease_token = d[2]

OkCarriesOwnExpiry == [][OwnRead]_vars
=============================================================================

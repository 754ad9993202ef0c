---------------------------- MODULE WorkerLease ----------------------------
(***************************************************************************)
(* WorkerSdk with a memory: which workers were told the expiry of another  *)
(* one's lease by the second statement of heartbeat(), which reads the row *)
(* by id alone.  The variable restrains nothing.  With it one can say how  *)
(* long a worker goes on in the belief of having a job that was given up   *)
(* for it and is another's, or about to be.                                *)
(***************************************************************************)
EXTENDS WorkerSdk

VARIABLE misled

leaseVars == <<vars, misled>>

LeaseInit == SdkInit /\ misled = {}

\* SELECT lease_expires_at FROM jobs WHERE id = ?, after the job was given away.
ReadsAnothers(d) ==
  /\ jobs[d[1]].lease_token \notin {d[2], NULL}
  /\ \E s \in Slot : BeatRead(d, s)

LeaseNext ==
  /\ SdkNext
  /\ misled' = misled \cup {d \in Dispatch : ReadsAnothers(d)}

LeaseSpec == LeaseInit /\ [][LeaseNext]_leaseVars

-----------------------------------------------------------------------------

\* The dispatch was followed by another, or the job waits for one.
GivenUp(d) ==
  \/ d[2] < minted[d[1]]
  \/ d[2] = minted[d[1]] /\ jobs[d[1]].status = "queued"

\* The worker of d is at work within a lease that, for all it knows, it has.
Believes(d) ==
  /\ state[d] = "working"
  /\ report[d].stage = "none"
  /\ leaseExpiresAt[d] # Expired

\* A worker whose job was given up goes on in the belief of having it for less than
\* Slack, so not at all where Slack is 0, unless it was misled: retries, reaped leases,
\* late payloads, late heartbeats and lost answers add nothing to that.
OverrunIsBounded ==
  \A d \in Dispatch :
    GivenUp(d) /\ Believes(d) /\ d \notin misled => leaseExpiresAt[d] < Slack

\* The worker of d has left the job, or was misled, or all that it was told, or is
\* being told, of its lease ends within Slack.
Over(d) ==
  \/ report[d].stage # "none"
  \/ state[d] \notin {"none", "working"}
  \/ d \in misled
  \/ /\ leaseExpiresAt[d] # NULL => leaseExpiresAt[d] < Slack
     /\ \A s \in Slot : beats[d][s].expiry # NULL => beats[d][s].expiry < Slack

\* The inductive invariant behind it.
OverrunInv ==
  /\ misled \subseteq Dispatch
  /\ \A d \in Dispatch : GivenUp(d) => Over(d)
=============================================================================

---------------------------- MODULE DurableJobs ----------------------------
(***************************************************************************)
(* What the methods of the job repository make of the rows together,       *)
(* without connections, transactions and locks: every row has one course,  *)
(* step by step along the legal edges, of which a failure takes back what  *)
(* is not stored yet and nothing else.                                     *)
(***************************************************************************)
EXTENDS Integers

CONSTANTS Job, MaxRetries

VARIABLES
  written,    \* the rows as they were last written
  stored,     \* the rows that no failure takes back
  withdrawn   \* the jobs that a client was told are cancelled

durableVars == <<written, stored, withdrawn>>

Trying == {"dispatching", "running"}

Init ==
  /\ written = [j \in Job |-> [status |-> "absent", attempt |-> 0]]
  /\ stored = written
  /\ withdrawn = {}

Edge(from, to) ==
  \/ from.status = "absent" /\ to = [status |-> "queued", attempt |-> 0]
  \/ /\ from.status = "queued"
     /\ to = [status |-> "dispatching", attempt |-> from.attempt + 1]
  \/ /\ from.status \in Trying
     /\ \E next \in {"running", "succeeded", "failed"} : to = [from EXCEPT !.status = next]
  \/ /\ from.status \in Trying
     /\ from.attempt <= MaxRetries
     /\ to = [from EXCEPT !.status = "queued"]
  \/ /\ from.status \in Trying \cup {"queued"}
     /\ to = [from EXCEPT !.status = "cancelled"]

\* A row that is not stored yet, or one that is with its writing.
Write(j, row) ==
  /\ Edge(written[j], row)
  /\ written' = [written EXCEPT ![j] = row]
  /\ \/ UNCHANGED stored
     \/ stored[j] = written[j] /\ stored' = [stored EXCEPT ![j] = row]
  /\ UNCHANGED withdrawn

\* Only now is a client told of its cancellation.
Store(js, told) ==
  /\ stored' = [j \in Job |-> IF j \in js THEN written[j] ELSE stored[j]]
  /\ \A j \in told : stored'[j].status = "cancelled"
  /\ withdrawn' = withdrawn \cup told
  /\ UNCHANGED written

Lose(js) ==
  /\ written' = [j \in Job |-> IF j \in js THEN stored[j] ELSE written[j]]
  /\ UNCHANGED <<stored, withdrawn>>

Rows == [status : Trying \cup {"absent", "queued", "succeeded", "failed", "cancelled"},
         attempt : 0 .. (MaxRetries + 1)]

Next ==
  \/ \E j \in Job, row \in Rows : Write(j, row)
  \/ \E js \in SUBSET Job :
       \/ \E told \in SUBSET Job : Store(js, told)
       \/ Lose(js)

Spec == Init /\ [][Next]_durableVars
=============================================================================

---------------------------- MODULE Connections ----------------------------
(***************************************************************************)
(* Below JobRepository: its methods are transactions, or single statements *)
(* that commit by themselves, on connections of a pool.  A statement can   *)
(* fail with its connection intact (a lock wait timeout, a statement that  *)
(* was killed), a connection can break, and the database can restart.  The *)
(* victim of a deadlock is rolled back, as if its connection broke.        *)
(*                                                                         *)
(* cancel() and fail() roll back when a statement fails.  grab() does not: *)
(* its connection returns to the pool with the transaction open, and the   *)
(* statements that are run on it next become part of that transaction,     *)
(* until the next START TRANSACTION commits it.                            *)
(*                                                                         *)
(* Of a row only the status and the attempt matter here; a lease is named  *)
(* by its attempt, and may be found expired at any time.                   *)
(***************************************************************************)
EXTENDS Integers

CONSTANTS
  NULL,
  Job,
  Conn,        \* the pool's connections, ENDUROQ_DB_CONNECTION_LIMIT of them
  MaxRetries,  \* the max_retries of every job
  MaxFaults    \* bound on failed statements, broken connections, restarts

VARIABLES
  table,      \* the committed rows
  open,       \* the connections in a transaction
  pending,    \* the rows that each connection's transaction has written
  locks,      \* the rows that each connection's transaction has locked
  task,       \* the method that each connection is taken for, or NULL
  accepted,   \* the jobs whose enqueue has been answered
  cancelled,  \* the jobs whose cancel has been answered with success
  faults

dbVars == <<table, open, pending, locks>>
answers == <<accepted, cancelled>>
vars == <<dbVars, task, answers, faults>>

Held     == {"dispatching", "running"}
Live     == {"queued"} \cup Held
Terminal == {"succeeded", "failed", "cancelled"}
Attempt  == 0 .. (MaxRetries + 1)

\* A queued row has a retry left; a job that is not there has had no attempt.
Row == {row \in [status : {"absent"} \cup Live \cup Terminal, attempt : Attempt] :
          /\ row.status = "queued" => row.attempt <= MaxRetries
          /\ row.status = "absent" => row.attempt = 0}

Task == [does : {"grab", "cancel", "fail"}, at : {"select", "update", "commit"},
         job : Job \cup {NULL}, lease : Attempt]

ASSUME ConnectionsAssumption ==
  /\ MaxRetries \in Nat
  /\ MaxFaults \in Nat
  /\ NULL \notin Job
  /\ NULL \notin Row
  /\ NULL \notin Task

TypeOK ==
  /\ table \in [Job -> Row]
  /\ open \subseteq Conn
  /\ pending \in [Conn -> [Job -> Row \cup {NULL}]]
  /\ locks \in [Conn -> SUBSET Job]
  /\ task \in [Conn -> Task \cup {NULL}]
  /\ accepted \subseteq Job
  /\ cancelled \subseteq Job
  /\ faults \in 0 .. MaxFaults

Untouched == [j \in Job |-> NULL]

Init ==
  /\ table = [j \in Job |-> [status |-> "absent", attempt |-> 0]]
  /\ open = {}
  /\ pending = [c \in Conn |-> Untouched]
  /\ locks = [c \in Conn |-> {}]
  /\ task = [c \in Conn |-> NULL]
  /\ accepted = {}
  /\ cancelled = {}
  /\ faults = 0

Free(c) == task[c] = NULL

\* The row as the statements of connection c find it.
Seen(c, j) == IF pending[c][j] = NULL THEN table[j] ELSE pending[c][j]

\* A statement of c that writes or locks row j need not wait for another's lock.
Unlocked(c, j) == \A d \in Conn \ {c} : j \notin locks[d]

Fault == faults < MaxFaults /\ faults' = faults + 1

-----------------------------------------------------------------------------
(* Transactions and statements *)

\* What c's transaction has written becomes the table's, if keep is TRUE.
EndTransaction(c, keep) ==
  /\ table' = IF keep THEN [j \in Job |-> Seen(c, j)] ELSE table
  /\ pending' = [pending EXCEPT ![c] = Untouched]
  /\ locks' = [locks EXCEPT ![c] = {}]

Put(c, j, row) ==
  IF c \in open
  THEN /\ pending' = [pending EXCEPT ![c][j] = row]
       /\ locks' = [locks EXCEPT ![c] = @ \cup {j}]
       /\ UNCHANGED table
  ELSE table' = [table EXCEPT ![j] = row] /\ UNCHANGED <<pending, locks>>

\* pool.query(): one statement on a connection that no method has.
Statement(c, j, from, row) ==
  /\ Free(c)
  /\ Unlocked(c, j)
  /\ Seen(c, j).status \in from
  /\ Put(c, j, row)
  /\ UNCHANGED <<open, task, faults>>

Proceed(c, stage) == task' = [task EXCEPT ![c].at = stage]

Doing(c, method, stage) ==
  /\ ~Free(c)
  /\ task[c].does = method
  /\ task[c].at = stage

\* getConnection() and beginTransaction(), which commits what was left open.
Begin(c, method, j, lease) ==
  /\ Free(c)
  /\ EndTransaction(c, TRUE)
  /\ open' = open \cup {c}
  /\ task' = [task EXCEPT ![c] =
       [does |-> method, at |-> "select", job |-> j, lease |-> lease]]
  /\ UNCHANGED <<answers, faults>>

\* Mutant of Commit: the commit is not awaited, and does not come through.
CommitUnawaited(c) ==
  /\ ~Free(c)
  /\ task[c].at = "commit"
  /\ EndTransaction(c, FALSE)
  /\ open' = open \ {c}
  /\ task' = [task EXCEPT ![c] = NULL]
  /\ cancelled' = cancelled \cup {j \in Job : Doing(c, "cancel", "commit") /\ task[c].job = j}
  /\ UNCHANGED <<accepted, faults>>

\* commit(), release(), and the method returns; without a job it found nothing.
Commit(c) ==
  /\ ~Free(c)
  /\ task[c].at = "commit"
  /\ EndTransaction(c, TRUE)
  /\ open' = open \ {c}
  /\ task' = [task EXCEPT ![c] = NULL]
  /\ cancelled' = cancelled \cup {j \in Job : Doing(c, "cancel", "commit") /\ task[c].job = j}
  /\ UNCHANGED <<accepted, faults>>

-----------------------------------------------------------------------------
(* grab() *)

\* Mutant of GrabSelect: without FOR UPDATE.
GrabReads(c) ==
  /\ Doing(c, "grab", "select")
  /\ LET queued == {j \in Job : Seen(c, j).status = "queued"}
     IN \/ queued = {} /\ Proceed(c, "commit")
        \/ \E j \in queued :
             task' = [task EXCEPT ![c].job = j, ![c].at = "update",
                                  ![c].lease = Seen(c, j).attempt + 1]
  /\ UNCHANGED <<dbVars, answers, faults>>

\* FOR UPDATE SKIP LOCKED: the first queued row that no one has locked.
GrabSelect(c) ==
  /\ Doing(c, "grab", "select")
  /\ LET free == {j \in Job : Seen(c, j).status = "queued" /\ Unlocked(c, j)}
     IN \/ /\ free = {}
           /\ Proceed(c, "commit")
           /\ UNCHANGED locks
        \/ \E j \in free :
             /\ locks' = [locks EXCEPT ![c] = @ \cup {j}]
             /\ task' = [task EXCEPT ![c].job = j, ![c].at = "update",
                                     ![c].lease = Seen(c, j).attempt + 1]
  /\ UNCHANGED <<table, open, pending, answers, faults>>

\* UPDATE by id alone.
GrabUpdate(c) ==
  /\ Doing(c, "grab", "update")
  /\ LET j == task[c].job
     IN /\ Unlocked(c, j)
        /\ Put(c, j, [status |-> "dispatching", attempt |-> Seen(c, j).attempt + 1])
  /\ Proceed(c, "commit")
  /\ UNCHANGED <<open, answers, faults>>

-----------------------------------------------------------------------------
(* cancel() and fail() *)

\* The rows that the two methods go on with.
Matches(t, row) ==
  \/ t.does = "cancel" /\ row.status \in Live
  \/ t.does = "fail" /\ row.status \in Held /\ row.attempt = t.lease

\* Mutant of SelectForUpdate: a plain SELECT.
SelectOnly(c) ==
  /\ Doing(c, "cancel", "select") \/ Doing(c, "fail", "select")
  /\ IF Matches(task[c], Seen(c, task[c].job))
     THEN Proceed(c, "update")
     ELSE task' = [task EXCEPT ![c].at = "commit", ![c].job = NULL]
  /\ UNCHANGED <<dbVars, answers, faults>>

SelectForUpdate(c) ==
  /\ Doing(c, "cancel", "select") \/ Doing(c, "fail", "select")
  /\ Unlocked(c, task[c].job)
  /\ locks' = [locks EXCEPT ![c] = @ \cup {task[c].job}]
  /\ IF Matches(task[c], Seen(c, task[c].job))
     THEN Proceed(c, "update")
     ELSE task' = [task EXCEPT ![c].at = "commit", ![c].job = NULL]
  /\ UNCHANGED <<table, open, pending, answers, faults>>

\* UPDATE by id alone.
Settle(c) ==
  /\ Doing(c, "cancel", "update") \/ Doing(c, "fail", "update")
  /\ LET j == task[c].job
         row == Seen(c, j)
     IN /\ Unlocked(c, j)
        /\ \/ task[c].does = "cancel" /\ Put(c, j, [row EXCEPT !.status = "cancelled"])
           \/ /\ task[c].does = "fail"
              /\ row.attempt <= MaxRetries
              /\ Put(c, j, [row EXCEPT !.status = "queued"])
           \/ task[c].does = "fail" /\ Put(c, j, [row EXCEPT !.status = "failed"])
  /\ Proceed(c, "commit")
  /\ UNCHANGED <<open, answers, faults>>

-----------------------------------------------------------------------------
(* Single statements *)

\* The id is a new one; the answer is 201.
Enqueue(c, j) ==
  /\ j \notin accepted
  /\ Statement(c, j, {"absent"}, [status |-> "queued", attempt |-> 0])
  /\ accepted' = accepted \cup {j}
  /\ UNCHANGED cancelled

\* What else is written with one statement: ack(), heartbeat(), nack(), reject()
\* and succeed(), by those who have the lease (no one has one that is not yet
\* committed), and the reaper's two statements, row by row.
WriteRow(c, j) ==
  /\ LET row == Seen(c, j)
         Becomes(status) == [row EXCEPT !.status = status]
     IN \/ /\ row.attempt = table[j].attempt
           /\ \/ Statement(c, j, Held, Becomes("running"))
              \/ Statement(c, j, Held, Becomes("succeeded"))
              \/ Statement(c, j, {"dispatching"}, Becomes("failed"))
        \/ row.attempt <= MaxRetries /\ Statement(c, j, Held, Becomes("queued"))
        \/ row.attempt > MaxRetries /\ Statement(c, j, Held, Becomes("failed"))
  /\ UNCHANGED answers

-----------------------------------------------------------------------------
(* Failures *)

\* A statement of a transaction fails by itself: grab() logs and releases the
\* connection as it is, cancel() and fail() roll back first.
Fails(c) ==
  /\ ~Free(c)
  /\ Fault
  /\ IF task[c].does = "grab"
     THEN UNCHANGED dbVars
     ELSE EndTransaction(c, FALSE) /\ open' = open \ {c}
  /\ task' = [task EXCEPT ![c] = NULL]
  /\ UNCHANGED answers

\* The connection breaks: the database rolls back, unless it was the answer to a
\* commit that was lost, and the pool opens another connection.
Break(c) ==
  /\ Fault
  /\ \E keep \in {FALSE, ~Free(c) /\ task[c].at = "commit"} : EndTransaction(c, keep)
  /\ open' = open \ {c}
  /\ task' = [task EXCEPT ![c] = NULL]
  /\ UNCHANGED answers

\* The server or the database restarts.
Restart ==
  /\ Fault
  /\ open' = {}
  /\ pending' = [c \in Conn |-> Untouched]
  /\ locks' = [c \in Conn |-> {}]
  /\ task' = [c \in Conn |-> NULL]
  /\ UNCHANGED <<table, answers>>

Next ==
  \/ \E c \in Conn :
       \/ Begin(c, "grab", NULL, 0) \/ GrabSelect(c) \/ GrabUpdate(c)
       \/ \E j \in Job : Begin(c, "cancel", j, 0)
       \/ \E j \in Job : \E lease \in 1 .. table[j].attempt : Begin(c, "fail", j, lease)
       \/ SelectForUpdate(c) \/ Settle(c)
       \/ Commit(c)
       \/ \E j \in Job : Enqueue(c, j) \/ WriteRow(c, j)
       \/ Fails(c) \/ Break(c)
  \/ Restart

Spec == Init /\ [][Next]_vars

-----------------------------------------------------------------------------
(* Properties *)

\* A grab returns the lease that it wrote, and the lease is committed: no other
\* grab has the job, and no restart gives it to one.
DispatchIsCommitted ==
  [][\A c \in Conn :
       Doing(c, "grab", "commit") /\ task[c].job # NULL /\ Commit(c) =>
         table'[task[c].job] = [status |-> "dispatching", attempt |-> task[c].lease]]_vars

\* A cancel that was answered with success stays: nothing that another transaction
\* had read before is written over it.
CancelIsKept == \A j \in cancelled : table[j].status = "cancelled"

\* Statements in between, on whichever connection, take nothing back that is
\* committed: a settled job stays settled, and attempts are not forgotten.
CommittedIsKept ==
  [][\A j \in Job :
       /\ table[j].status \in Terminal => table'[j] = table[j]
       /\ table[j].attempt <= table'[j].attempt]_vars

\* What the README promises of durability: a job that was accepted survives a
\* restart, so that it is in the table or about to be written to it.
AcceptedIsKept ==
  \A j \in accepted : \E c \in Conn : Seen(c, j).status # "absent"

\* The behaviours in which no statement of grab() fails by itself, while those of
\* cancel() and fail() may, connections break, and everything restarts.
GrabsDoNotFail == \A c \in Conn : Fails(c) => task[c].does # "grab"

TidySpec == Init /\ [][Next /\ GrabsDoNotFail]_vars

\* The inductive invariant that keeps the promise there: a connection in a transaction
\* is never one that the pool hands out, so that what is accepted is in the table; no
\* one writes a row away.
NothingLeftOpen == \A c \in open : ~Free(c)

AcceptedIsStored == \A j \in accepted : table[j].status # "absent"

WritesKeepRows ==
  \A c \in Conn, j \in Job : pending[c][j] # NULL => pending[c][j].status # "absent"

TidyInv == NothingLeftOpen /\ AcceptedIsStored /\ WritesKeepRows

\* What the connections have written, with no more than one of them writing a row.
Written(j) ==
  LET writers == {c \in Conn : pending[c][j] # NULL}
  IN IF writers = {} THEN table[j] ELSE pending[CHOOSE c \in writers : TRUE][j]

\* Together the transactions, the statements in between and the failures make of
\* each row what one writer would who at times loses what is not committed: each
\* is written from what the last one left, never from what was read before.
Durable == INSTANCE DurableJobs WITH
  written <- [j \in Job |-> Written(j)], stored <- table, withdrawn <- cancelled

ImplementsDurableJobs == Durable!Spec

\* The inductive invariant behind the first three.  What a transaction wrote it
\* has locked, and no two have the same row;
LocksApart ==
  /\ \A c \in Conn, j \in Job : pending[c][j] # NULL => j \in locks[c]
  /\ \A c, d \in Conn : c # d => locks[c] \cap locks[d] = {}
  /\ \A c \in Conn : c \notin open => locks[c] = {}

\* what it wrote is later than what is committed;
PendingIsLater ==
  \A c \in Conn, j \in Job : pending[c][j] # NULL =>
    /\ table[j].status \notin Terminal
    /\ table[j].attempt <= pending[c][j].attempt

\* and what a method has selected it still has.
HasSelected(c) ==
  /\ c \in open
  /\ task[c].at = "select" => (task[c].job = NULL <=> task[c].does = "grab")
  /\ task[c].at = "update" =>
       /\ task[c].job \in locks[c]
       /\ Seen(c, task[c].job).status \in Live
       /\ task[c].does # "grab" => Matches(task[c], Seen(c, task[c].job))
       /\ task[c].does = "grab" =>
            /\ Seen(c, task[c].job).status = "queued"
            /\ task[c].lease = Seen(c, task[c].job).attempt + 1
  /\ task[c].at = "commit" /\ task[c].job # NULL =>
       /\ task[c].does = "grab" =>
            pending[c][task[c].job] =
              [status |-> "dispatching", attempt |-> task[c].lease]
       /\ task[c].does = "cancel" =>
            /\ pending[c][task[c].job] # NULL
            /\ pending[c][task[c].job].status = "cancelled"

SelectedIsLocked == \A c \in Conn : ~Free(c) => HasSelected(c)

ConnectionsInv ==
  /\ TypeOK
  /\ LocksApart
  /\ PendingIsLater
  /\ SelectedIsLocked
  /\ CancelIsKept
=============================================================================

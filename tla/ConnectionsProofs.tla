------------------------- MODULE ConnectionsProofs -------------------------
(***************************************************************************)
(* Theorems about Connections, for any number of jobs and connections, any *)
(* retries and any faults: row locks keep the transactions apart, also the *)
(* ones that grab() leaves open, so that a grab returns a lease it has     *)
(* committed and nothing that is settled is written over.                  *)
(***************************************************************************)
EXTENDS Connections, TLAPS

\* The database's part of the invariant.
DbOK ==
  /\ table \in [Job -> Row]
  /\ open \subseteq Conn
  /\ pending \in [Conn -> [Job -> Row \cup {NULL}]]
  /\ locks \in [Conn -> SUBSET Job]
  /\ LocksApart
  /\ PendingIsLater

\* What a step keeps of the table, and of what other connections have of it.
TableGrows ==
  \A j \in Job :
    /\ table[j].status \in Terminal => table'[j] = table[j]
    /\ table[j].attempt <= table'[j].attempt

Spared(c) ==
  /\ pending'[c] = pending[c]
  /\ locks'[c] = locks[c]
  /\ c \in open => c \in open'
  /\ \A j \in locks[c] : table'[j] = table[j]

LEMMA RowTypes ==
  ASSUME DbOK, NEW c \in Conn, NEW j \in Job
  PROVE  /\ Seen(c, j) \in Row
         /\ Seen(c, j).attempt \in Int /\ table[j].attempt \in Int
         /\ table[j] \in Row
         /\ pending[c][j] # NULL => pending[c][j] \in Row
BY DEF DbOK, Seen, Row, Attempt

\* A statement writes to the table, or to the transaction that is open.
LEMMA PutStep ==
  ASSUME DbOK, NEW c \in Conn, NEW j \in Job, NEW row \in Row,
         Unlocked(c, j), Seen(c, j).status \notin Terminal,
         Seen(c, j).attempt <= row.attempt,
         Put(c, j, row), open' = open
  PROVE  /\ DbOK'
         /\ TableGrows
         /\ \A d \in Conn : d # c => Spared(d)
         /\ c \in open => pending'[c][j] = row /\ UNCHANGED table
<1>1. /\ table[j].status \notin Terminal
      /\ table[j].attempt <= row.attempt
  BY RowTypes DEF DbOK, Seen, PendingIsLater, Row, Attempt
<1>2. \A k \in Job : table[k].attempt \in Int
  BY RowTypes
<1>3. CASE c \in open
  <2>1. /\ pending' = [pending EXCEPT ![c][j] = row]
        /\ locks' = [locks EXCEPT ![c] = @ \cup {j}]
        /\ table' = table
    BY <1>3 DEF Put
  <2>2. pending' \in [Conn -> [Job -> Row \cup {NULL}]] /\ locks' \in [Conn -> SUBSET Job]
    BY <2>1 DEF DbOK
  <2>3. /\ pending'[c] = [pending[c] EXCEPT ![j] = row]
        /\ locks'[c] = locks[c] \cup {j}
        /\ \A d \in Conn : d # c => pending'[d] = pending[d] /\ locks'[d] = locks[d]
        /\ \A k \in Job : pending'[c][k] = IF k = j THEN row ELSE pending[c][k]
    BY <2>1 DEF DbOK
  <2>4. LocksApart'
    <3>1. \A d \in Conn, k \in Job : pending'[d][k] # NULL => k \in locks'[d]
      <4> SUFFICES ASSUME NEW d \in Conn, NEW k \in Job, pending'[d][k] # NULL
                   PROVE  k \in locks'[d]
        OBVIOUS
      <4>1. CASE d = c
        BY <2>3, <4>1 DEF DbOK, LocksApart
      <4>2. CASE d # c
        BY <2>3, <4>2 DEF DbOK, LocksApart
      <4> QED BY <4>1, <4>2
    <3>2. \A d, e \in Conn : d # e => locks'[d] \cap locks'[e] = {}
      BY <2>3 DEF DbOK, LocksApart, Unlocked
    <3>3. \A d \in Conn : d \notin open' => locks'[d] = {}
      BY <1>3, <2>3 DEF DbOK, LocksApart
    <3> QED BY <3>1, <3>2, <3>3 DEF LocksApart
  <2>5. PendingIsLater'
    <3> SUFFICES ASSUME NEW d \in Conn, NEW k \in Job, pending'[d][k] # NULL
                 PROVE  /\ table[k].status \notin Terminal
                        /\ table[k].attempt <= pending'[d][k].attempt
      BY <2>1 DEF PendingIsLater
    <3>1. CASE d = c /\ k = j
      BY <1>1, <2>3, <3>1
    <3>2. CASE ~(d = c /\ k = j)
      BY <2>3, <3>2 DEF DbOK, PendingIsLater
    <3> QED BY <3>1, <3>2
  <2> QED BY <1>2, <1>3, <2>1, <2>2, <2>3, <2>4, <2>5 DEF DbOK, TableGrows, Spared
<1>4. CASE c \notin open
  <2>1. table' = [table EXCEPT ![j] = row] /\ UNCHANGED <<pending, locks>>
    BY <1>4 DEF Put
  <2>2. \A k \in Job : table'[k] = IF k = j THEN row ELSE table[k]
    BY <2>1 DEF DbOK
  <2>3. \A d \in Conn : j \notin locks[d]
    BY <1>4 DEF DbOK, LocksApart, Unlocked
  <2>4. LocksApart'
    BY <2>1 DEF DbOK, LocksApart
  <2>5. PendingIsLater'
    BY <2>1, <2>2, <2>3 DEF DbOK, LocksApart, PendingIsLater
  <2>6. TableGrows
    BY <1>1, <1>2, <2>2 DEF TableGrows
  <2>7. table' \in [Job -> Row]
    BY <2>1 DEF DbOK
  <2> QED BY <1>4, <2>1, <2>2, <2>3, <2>4, <2>5, <2>6, <2>7 DEF DbOK, Spared
<1> QED BY <1>3, <1>4

\* A transaction ends: its rows are no one else's.
LEMMA EndStep ==
  ASSUME DbOK, NEW c \in Conn, NEW keep \in BOOLEAN, EndTransaction(c, keep),
         open' = open \cup {c} \/ open' = open \ {c}
  PROVE  /\ DbOK'
         /\ TableGrows
         /\ \A d \in Conn : d # c => Spared(d)
         /\ keep => \A j \in Job : table'[j] = Seen(c, j)
<1>1. \A j \in Job : table'[j] = IF keep THEN Seen(c, j) ELSE table[j]
  BY DEF EndTransaction
<1>2. table' \in [Job -> Row]
  BY RowTypes DEF EndTransaction, DbOK
<1>3. /\ pending' = [pending EXCEPT ![c] = Untouched]
      /\ locks' = [locks EXCEPT ![c] = {}]
  BY DEF EndTransaction
<1>4. Untouched \in [Job -> Row \cup {NULL}] /\ \A j \in Job : Untouched[j] = NULL
  BY DEF Untouched
<1>5. pending' \in [Conn -> [Job -> Row \cup {NULL}]] /\ locks' \in [Conn -> SUBSET Job]
  BY <1>3, <1>4 DEF DbOK
<1>6. /\ pending'[c] = Untouched /\ locks'[c] = {}
      /\ \A d \in Conn : d # c => pending'[d] = pending[d] /\ locks'[d] = locks[d]
  BY <1>3 DEF DbOK
<1>7. \A d \in Conn : d # c => \A j \in locks[d] : table'[j] = table[j]
  BY <1>1 DEF DbOK, LocksApart, Seen
<1>8. TableGrows
  BY <1>1, RowTypes DEF TableGrows, DbOK, PendingIsLater, Seen
<1>9. LocksApart'
  BY <1>4, <1>6 DEF DbOK, LocksApart
<1>10. PendingIsLater'
  BY <1>4, <1>6, <1>7 DEF DbOK, LocksApart, PendingIsLater
<1> QED BY <1>1, <1>2, <1>5, <1>6, <1>7, <1>8, <1>9, <1>10 DEF DbOK, Spared

\* A transaction locks a row that no one else has.
LEMMA LockStep ==
  ASSUME DbOK, NEW c \in Conn, NEW j \in Job, Unlocked(c, j), c \in open,
         locks' = [locks EXCEPT ![c] = @ \cup {j}], UNCHANGED <<table, open, pending>>
  PROVE  /\ DbOK'
         /\ TableGrows
         /\ \A d \in Conn : d # c => Spared(d)
         /\ j \in locks'[c]
<1>1. locks' \in [Conn -> SUBSET Job]
  BY DEF DbOK
<1>2. /\ locks'[c] = locks[c] \cup {j}
      /\ \A d \in Conn : d # c => locks'[d] = locks[d]
  BY DEF DbOK
<1>3. LocksApart' /\ PendingIsLater'
  BY <1>2 DEF DbOK, LocksApart, PendingIsLater, Unlocked
<1> QED BY <1>1, <1>2, <1>3, RowTypes DEF DbOK, TableGrows, Spared

\* Nothing happens to the database.
LEMMA IdleStep ==
  ASSUME DbOK, UNCHANGED dbVars
  PROVE  DbOK' /\ TableGrows /\ \A d \in Conn : Spared(d)
<1>1. table' = table /\ open' = open /\ pending' = pending /\ locks' = locks
  BY DEF dbVars
<1>2. DbOK'
  BY <1>1 DEF DbOK, LocksApart, PendingIsLater
<1>3. TableGrows
  BY <1>1, RowTypes DEF TableGrows, Row, Attempt, DbOK
<1> QED BY <1>1, <1>2, <1>3 DEF Spared

-----------------------------------------------------------------------------
(* The methods on their connections *)

\* A method whose rows and locks are spared still has what it selected.
LEMMA SparedMethod ==
  ASSUME DbOK, NEW d \in Conn, Spared(d), task[d] \in Task, HasSelected(d),
         task'[d] = task[d]
  PROVE  HasSelected(d)'
<1>1. \A k \in locks[d] : Seen(d, k)' = Seen(d, k)
  BY DEF Spared, Seen, DbOK
<1>2. pending'[d] = pending[d] /\ locks'[d] = locks[d] /\ (d \in open => d \in open')
  BY DEF Spared
<1>4. task[d].at = "update" => Seen(d, task[d].job)' = Seen(d, task[d].job)
  BY <1>1 DEF HasSelected
<1>5. /\ task[d].at = "select" => (task[d].job = NULL <=> task[d].does = "grab")
      /\ task[d].at = "update" => task[d].job \in locks[d]
  BY DEF HasSelected
<1>6. CASE task[d].at = "update"
  BY <1>2, <1>4, <1>5, <1>6 DEF HasSelected
<1>7. CASE task[d].at # "update"
  BY <1>2, <1>7 DEF HasSelected
<1> QED BY <1>6, <1>7

\* A step of one connection preserves the invariant if it does so there.
LEMMA OneConnection ==
  ASSUME ConnectionsInv, NEW c \in Conn, NEW x \in Task \cup {NULL},
         task' = [task EXCEPT ![c] = x],
         DbOK', TableGrows, \A d \in Conn : d # c => Spared(d),
         x # NULL => HasSelected(c)',
         accepted' \subseteq Job, cancelled' \subseteq Job, faults' \in 0 .. MaxFaults,
         \A j \in cancelled' : j \in cancelled \/ table'[j].status = "cancelled"
  PROVE  ConnectionsInv'
<1>1. DbOK /\ task \in [Conn -> Task \cup {NULL}]
  BY DEF ConnectionsInv, TypeOK, DbOK
<1>2. task'[c] = x /\ \A d \in Conn : d # c => task'[d] = task[d]
  BY <1>1
<1>3. task' \in [Conn -> Task \cup {NULL}]
  BY <1>1
<1>4. SelectedIsLocked'
  <2> SUFFICES ASSUME NEW d \in Conn, task'[d] # NULL
               PROVE  HasSelected(d)'
    BY DEF SelectedIsLocked, Free
  <2>1. CASE d = c
    BY <1>2, <2>1
  <2>2. CASE d # c
    <3>1. task'[d] = task[d] /\ task[d] \in Task /\ Spared(d)
      BY <1>1, <1>2, <2>2
    <3>2. HasSelected(d)
      BY <3>1 DEF ConnectionsInv, SelectedIsLocked, Free
    <3> QED BY <1>1, <3>1, <3>2, SparedMethod
  <2> QED BY <2>1, <2>2
<1>5. CancelIsKept'
  BY DEF CancelIsKept, ConnectionsInv, TypeOK, TableGrows, Terminal
<1> QED BY <1>3, <1>4, <1>5 DEF ConnectionsInv, TypeOK, DbOK

\* The parts of the invariant, as the steps use them.
LEMMA Parts ==
  ASSUME ConnectionsInv
  PROVE  /\ DbOK
         /\ accepted \subseteq Job /\ cancelled \subseteq Job
         /\ faults \in 0 .. MaxFaults
         /\ \A c \in Conn : ~Free(c) => task[c] \in Task /\ HasSelected(c)
BY DEF ConnectionsInv, TypeOK, DbOK, SelectedIsLocked, Free

\* A fault is one of those that are allowed.
LEMMA FaultType ==
  ASSUME faults \in 0 .. MaxFaults, Fault
  PROVE  faults' \in 0 .. MaxFaults
BY ConnectionsAssumption DEF Fault

Preserved == ConnectionsInv' /\ TableGrows

LEMMA BeginStep ==
  ASSUME ConnectionsInv, NEW c \in Conn, NEW j \in Job \cup {NULL}, NEW lease \in Attempt,
         NEW method \in {"grab", "cancel", "fail"}, j = NULL <=> method = "grab",
         Begin(c, method, j, lease)
  PROVE  Preserved
<1> DEFINE x == [does |-> method, at |-> "select", job |-> j, lease |-> lease]
<1>1. DbOK' /\ TableGrows /\ \A d \in Conn : d # c => Spared(d)
  BY Parts, EndStep DEF Begin
<1>2. x \in Task
  BY DEF Task
<1>3. task' = [task EXCEPT ![c] = x] /\ c \in open' /\ task'[c] = x
  BY DEF Begin, ConnectionsInv, TypeOK
<1>4. HasSelected(c)'
  BY <1>3 DEF HasSelected
<1>5. UNCHANGED <<accepted, cancelled, faults>>
  BY DEF Begin, answers
<1> HIDE DEF x
<1> QED BY <1>1, <1>2, <1>3, <1>4, <1>5, Parts, OneConnection DEF Preserved

\* What a method returns is in the table.
LEMMA CommitStep ==
  ASSUME ConnectionsInv, NEW c \in Conn, Commit(c)
  PROVE  /\ Preserved
         /\ Doing(c, "grab", "commit") /\ task[c].job # NULL =>
              table'[task[c].job] = [status |-> "dispatching", attempt |-> task[c].lease]
<1>1. /\ DbOK' /\ TableGrows /\ \A d \in Conn : d # c => Spared(d)
      /\ \A j \in Job : table'[j] = Seen(c, j)
  BY Parts, EndStep DEF Commit
<1>2. task[c] \in Task /\ HasSelected(c) /\ task[c].at = "commit"
  BY Parts DEF Commit
<1>3. ASSUME NEW j \in Job, task[c].job = j
      PROVE  /\ task[c].does = "cancel" => table'[j].status = "cancelled"
             /\ task[c].does = "grab" =>
                  table'[j] = [status |-> "dispatching", attempt |-> task[c].lease]
  <2>1. j # NULL
    BY ConnectionsAssumption
  <2>2. task[c].does = "cancel" => Seen(c, j).status = "cancelled"
    BY <1>2, <1>3, <2>1 DEF HasSelected, Seen
  <2>3. task[c].does = "grab" =>
          pending[c][j] = [status |-> "dispatching", attempt |-> task[c].lease]
    BY <1>2, <1>3, <2>1 DEF HasSelected
  <2>4. task[c].does = "grab" => pending[c][j] # NULL
    <3>1. task[c].lease \in Attempt
      BY <1>2 DEF Task
    <3>2. [status |-> "dispatching", attempt |-> task[c].lease] \in Row
      BY <3>1 DEF Row, Live, Held
    <3> QED BY <2>3, <3>2, ConnectionsAssumption
  <2> QED BY <1>1, <2>2, <2>3, <2>4 DEF Seen
<1>4. /\ task' = [task EXCEPT ![c] = NULL]
      /\ accepted' \subseteq Job /\ cancelled' \subseteq Job /\ faults' \in 0 .. MaxFaults
      /\ \A j \in cancelled' : j \in cancelled \/ table'[j].status = "cancelled"
  BY <1>3, Parts DEF Commit, Doing
<1>5. Preserved
  BY <1>1, <1>4, OneConnection DEF Preserved
<1>6. task[c].job # NULL => task[c].job \in Job
  BY <1>2 DEF Task
<1> QED BY <1>3, <1>5, <1>6 DEF Doing

\* The method on c goes on to another stage.
LEMMA ProceedTask ==
  ASSUME ConnectionsInv, NEW c \in Conn, ~Free(c),
         NEW stage \in {"update", "commit"}, Proceed(c, stage)
  PROVE  /\ task' = [task EXCEPT ![c] = [task[c] EXCEPT !.at = stage]]
         /\ [task[c] EXCEPT !.at = stage] \in Task
         /\ task'[c] = [task[c] EXCEPT !.at = stage]
         /\ task'[c].at = stage
         /\ task'[c].job = task[c].job
         /\ task'[c].does = task[c].does
         /\ task'[c].lease = task[c].lease
<1>1. task[c] \in Task /\ task \in [Conn -> Task \cup {NULL}]
  BY Parts DEF ConnectionsInv, TypeOK
<1> QED BY <1>1 DEF Proceed, Task

LEMMA ProceedStep ==
  ASSUME ConnectionsInv, NEW c \in Conn, ~Free(c),
         NEW stage \in {"update", "commit"}, Proceed(c, stage),
         DbOK', TableGrows, \A d \in Conn : d # c => Spared(d), HasSelected(c)',
         UNCHANGED <<accepted, cancelled, faults>>
  PROVE  Preserved
<1> DEFINE x == [task[c] EXCEPT !.at = stage]
<1>1. task' = [task EXCEPT ![c] = x] /\ x \in Task
  BY ProceedTask
<1> HIDE DEF x
<1> QED BY <1>1, Parts, OneConnection DEF Preserved

\* A queued row has a lease to be handed out.
LEMMA NextLease ==
  ASSUME NEW row \in Row, row.status = "queued"
  PROVE  /\ row.attempt + 1 \in Attempt
         /\ row.attempt \in Int
         /\ [status |-> "dispatching", attempt |-> row.attempt + 1] \in Row
<1>1. row.attempt \in Attempt /\ row.attempt <= MaxRetries
  BY DEF Row
<1>2. row.attempt + 1 \in Attempt
  BY <1>1, ConnectionsAssumption DEF Attempt
<1> QED BY <1>1, <1>2 DEF Row, Live, Held, Attempt

LEMMA GrabSelectStep ==
  ASSUME ConnectionsInv, NEW c \in Conn, GrabSelect(c)
  PROVE  Preserved
<1> DEFINE free == {j \in Job : Seen(c, j).status = "queued" /\ Unlocked(c, j)}
<1>1. task[c] \in Task /\ HasSelected(c) /\ c \in open /\ DbOK
  BY Parts DEF GrabSelect, Doing, HasSelected
<1>2. ~Free(c) /\ task[c].does = "grab" /\ task[c].job = NULL
  BY <1>1 DEF GrabSelect, Doing, HasSelected
<1>3. UNCHANGED <<table, open, pending, accepted, cancelled, faults>>
  BY DEF GrabSelect, answers
<1>4. CASE Proceed(c, "commit") /\ locks' = locks
  <2>1. UNCHANGED dbVars
    BY <1>3, <1>4 DEF dbVars
  <2>2. task'[c].at = "commit" /\ task'[c].job = NULL /\ c \in open'
    BY <1>1, <1>2, <1>3, <1>4, ProceedTask
  <2>3. HasSelected(c)'
    BY <2>2 DEF HasSelected
  <2>4. DbOK' /\ TableGrows /\ \A d \in Conn : Spared(d)
    BY <1>1, <2>1, IdleStep
  <2> QED BY <1>2, <1>3, <1>4, <2>3, <2>4, ProceedStep
<1>5. ASSUME NEW j \in Job, Seen(c, j).status = "queued", Unlocked(c, j),
             locks' = [locks EXCEPT ![c] = @ \cup {j}],
             task' = [task EXCEPT ![c].job = j, ![c].at = "update",
                                  ![c].lease = Seen(c, j).attempt + 1]
      PROVE  Preserved
  <2> DEFINE lease == Seen(c, j).attempt + 1
             x == [task[c] EXCEPT !.job = j, !.at = "update", !.lease = lease]
  <2>1. lease \in Attempt
    BY <1>1, <1>5, RowTypes, NextLease
  <2> HIDE DEF lease
  <2>2. /\ x \in Task /\ x.does = "grab" /\ x.at = "update"
        /\ x.job = j /\ x.lease = lease
    BY <1>1, <1>2, <2>1 DEF Task
  <2>3. task' = [task EXCEPT ![c] = x]
    BY <1>5 DEF ConnectionsInv, TypeOK, lease
  <2>4. /\ DbOK' /\ TableGrows /\ \A d \in Conn : d # c => Spared(d)
        /\ j \in locks'[c]
    BY <1>1, <1>3, <1>5, LockStep
  <2>5. Seen(c, j)' = Seen(c, j)
    BY <1>3 DEF Seen
  <2>6. task'[c] = x
    BY <2>3 DEF ConnectionsInv, TypeOK
  <2>7. /\ task'[c].does = "grab" /\ task'[c].at = "update"
        /\ task'[c].job = j /\ task'[c].lease = lease
    BY <2>2, <2>6
  <2>8. HasSelected(c)'
    BY <1>1, <1>3, <1>5, <2>4, <2>5, <2>7 DEF HasSelected, Live, lease
  <2> HIDE DEF x
  <2> QED BY <1>3, <2>2, <2>3, <2>4, <2>8, Parts, OneConnection DEF Preserved
<1> QED BY <1>4, <1>5 DEF GrabSelect

LEMMA GrabUpdateStep ==
  ASSUME ConnectionsInv, NEW c \in Conn, GrabUpdate(c)
  PROVE  Preserved
<1> DEFINE j == task[c].job
           row == [status |-> "dispatching", attempt |-> Seen(c, j).attempt + 1]
<1>1. /\ task[c] \in Task /\ HasSelected(c) /\ DbOK /\ ~Free(c)
      /\ task[c].does = "grab" /\ task[c].at = "update"
  BY Parts DEF GrabUpdate, Doing
<1>2. /\ c \in open /\ j \in locks[c] /\ Seen(c, j).status = "queued"
      /\ task[c].lease = Seen(c, j).attempt + 1
  BY <1>1 DEF HasSelected
<1>3. j \in Job
  BY <1>1, <1>2 DEF DbOK
<1>4. Seen(c, j) \in Row
  BY <1>1, <1>3, RowTypes
<1>5. row \in Row /\ Seen(c, j).attempt <= row.attempt
  BY <1>2, <1>4, NextLease
<1>6. Unlocked(c, j) /\ Put(c, j, row) /\ Proceed(c, "commit")
      /\ UNCHANGED <<open, accepted, cancelled, faults>>
  BY DEF GrabUpdate, answers
<1>7. Seen(c, j).status \notin Terminal
  BY <1>2 DEF Terminal
<1> HIDE DEF j, row
<1>8. /\ DbOK' /\ TableGrows /\ \A d \in Conn : d # c => Spared(d)
      /\ pending'[c][j] = row
  BY <1>1, <1>2, <1>3, <1>5, <1>6, <1>7, PutStep
<1>9. /\ task'[c].at = "commit" /\ task'[c].job = j
      /\ task'[c].does = "grab" /\ task'[c].lease = task[c].lease
  BY <1>1, <1>6, ProceedTask DEF j
<1>10. row = [status |-> "dispatching", attempt |-> task[c].lease]
  BY <1>2 DEF row
<1>11. HasSelected(c)'
  BY <1>2, <1>6, <1>8, <1>9, <1>10 DEF HasSelected
<1> QED BY <1>1, <1>6, <1>8, <1>11, ProceedStep

LEMMA SelectStep ==
  ASSUME ConnectionsInv, NEW c \in Conn, SelectForUpdate(c)
  PROVE  Preserved
<1>1. /\ task[c] \in Task /\ HasSelected(c) /\ DbOK /\ ~Free(c)
      /\ task[c].does \in {"cancel", "fail"} /\ task[c].at = "select"
  BY Parts DEF SelectForUpdate, Doing
<1>j. PICK j \in Job : j = task[c].job
  BY <1>1 DEF HasSelected, Task
<1>2. c \in open
  BY <1>1 DEF HasSelected
<1>3. UNCHANGED <<table, open, pending, accepted, cancelled, faults>>
  BY DEF SelectForUpdate, answers
<1>4. /\ DbOK' /\ TableGrows /\ \A d \in Conn : d # c => Spared(d)
      /\ j \in locks'[c]
  BY <1>1, <1>2, <1>3, <1>j, LockStep DEF SelectForUpdate
<1>5. CASE Matches(task[c], Seen(c, j))
  <2>1. Proceed(c, "update")
    BY <1>5, <1>j DEF SelectForUpdate
  <2>2. Seen(c, j)' = Seen(c, j)
    BY <1>3 DEF Seen
  <2>3. Seen(c, j).status \in Live
    BY <1>5 DEF Matches, Live
  <2>4. /\ task'[c].at = "update" /\ task'[c].job = j
        /\ task'[c].does \in {"cancel", "fail"}
    BY <1>1, <1>j, <2>1, ProceedTask
  <2>5. Matches(task[c], Seen(c, j))'
    BY <1>5, <1>j, <2>1, <2>2, ProceedTask, <1>1 DEF Matches
  <2>6. HasSelected(c)'
    BY <1>2, <1>3, <1>4, <2>2, <2>3, <2>4, <2>5 DEF HasSelected
  <2> QED BY <1>1, <1>3, <1>4, <2>1, <2>6, ProceedStep
<1>6. CASE ~Matches(task[c], Seen(c, j))
  <2> DEFINE x == [task[c] EXCEPT !.at = "commit", !.job = NULL]
  <2>1. x \in Task /\ x.at = "commit" /\ x.job = NULL
    BY <1>1 DEF Task
  <2>2. task' = [task EXCEPT ![c].at = "commit", ![c].job = NULL]
    BY <1>6, <1>j DEF SelectForUpdate
  <2>3. task' = [task EXCEPT ![c] = x] /\ task'[c] = x
    BY <2>2 DEF ConnectionsInv, TypeOK
  <2>4. HasSelected(c)'
    BY <1>2, <1>3, <2>1, <2>3 DEF HasSelected
  <2> HIDE DEF x
  <2> QED BY <1>3, <1>4, <2>1, <2>3, <2>4, Parts, OneConnection DEF Preserved
<1> QED BY <1>5, <1>6

LEMMA SettleStep ==
  ASSUME ConnectionsInv, NEW c \in Conn, Settle(c)
  PROVE  Preserved
<1> DEFINE j == task[c].job
           old == Seen(c, j)
<1>1. /\ task[c] \in Task /\ HasSelected(c) /\ DbOK /\ ~Free(c)
      /\ task[c].does \in {"cancel", "fail"} /\ task[c].at = "update"
  BY Parts DEF Settle, Doing
<1>2. c \in open /\ j \in locks[c] /\ old.status \in Live
  BY <1>1 DEF HasSelected
<1>3. j \in Job
  BY <1>1, <1>2 DEF DbOK
<1>4. old \in Row /\ old.attempt \in Int
  BY <1>1, <1>3, RowTypes
<1>5. PICK status \in {"queued", "failed", "cancelled"} :
        /\ Put(c, j, [old EXCEPT !.status = status])
        /\ status = "queued" => old.attempt <= MaxRetries
        /\ task[c].does = "cancel" => status = "cancelled"
  BY <1>1 DEF Settle
<1> DEFINE row == [old EXCEPT !.status = status]
<1>6. row \in Row /\ row.status = status /\ row.attempt = old.attempt
  BY <1>4, <1>5 DEF Row, Live, Held, Terminal
<1>7. Unlocked(c, j) /\ Proceed(c, "commit") /\ UNCHANGED <<open, accepted, cancelled, faults>>
  BY DEF Settle, answers
<1>8. old.status \notin Terminal
  BY <1>2 DEF Live, Held, Terminal
<1>9. Put(c, j, row)
  BY <1>5
<1> HIDE DEF j, old, row
<1>10. /\ DbOK' /\ TableGrows /\ \A d \in Conn : d # c => Spared(d)
       /\ pending'[c][j] = row
  BY <1>1, <1>2, <1>3, <1>4, <1>6, <1>7, <1>8, <1>9, PutStep DEF old
<1>11. /\ task'[c].at = "commit" /\ task'[c].job = j
       /\ task'[c].does = task[c].does
  BY <1>1, <1>7, ProceedTask DEF j
<1>12. HasSelected(c)'
  BY <1>1, <1>2, <1>5, <1>6, <1>7, <1>10, <1>11, ConnectionsAssumption DEF HasSelected
<1> QED BY <1>1, <1>7, <1>10, <1>12, ProceedStep

\* A single statement, on a connection that no method has.
LEMMA StatementStep ==
  ASSUME ConnectionsInv, NEW c \in Conn, NEW j \in Job, NEW row \in Row,
         NEW from \in SUBSET ({"absent"} \cup Live),
         Statement(c, j, from, row), Seen(c, j).attempt <= row.attempt,
         UNCHANGED cancelled, accepted' \subseteq Job
  PROVE  Preserved
<1>1. DbOK' /\ TableGrows /\ \A d \in Conn : d # c => Spared(d)
  <2>1. Seen(c, j).status \notin Terminal
    BY DEF Statement, Live, Held, Terminal
  <2> QED BY <2>1, Parts, PutStep DEF Statement
<1>2. task' = [task EXCEPT ![c] = NULL]
  BY DEF Statement, Free, ConnectionsInv, TypeOK
<1>3. faults' = faults
  BY DEF Statement
<1> QED BY <1>1, <1>2, <1>3, Parts, OneConnection DEF Preserved

LEMMA EnqueueStep ==
  ASSUME ConnectionsInv, NEW c \in Conn, NEW j \in Job, Enqueue(c, j)
  PROVE  Preserved
<1> DEFINE row == [status |-> "queued", attempt |-> 0]
<1>1. row \in Row
  BY ConnectionsAssumption DEF Row, Live, Attempt
<1>2. Statement(c, j, {"absent"}, row) /\ UNCHANGED cancelled /\ accepted' \subseteq Job
  BY Parts DEF Enqueue
<1>3. Seen(c, j).attempt <= row.attempt
  <2>1. Seen(c, j) \in Row /\ Seen(c, j).status = "absent"
    BY Parts, RowTypes DEF Enqueue, Statement
  <2> QED BY <2>1 DEF Row
<1> QED BY <1>1, <1>2, <1>3, StatementStep

LEMMA WriteRowStep ==
  ASSUME ConnectionsInv, NEW c \in Conn, NEW j \in Job, WriteRow(c, j)
  PROVE  Preserved
<1> DEFINE old == Seen(c, j)
<1>1. PICK status \in {"running", "succeeded", "failed", "queued"},
           from \in {Held, {"dispatching"}} :
        /\ Statement(c, j, from, [old EXCEPT !.status = status])
        /\ status = "queued" => old.attempt <= MaxRetries
  BY DEF WriteRow
<1> DEFINE row == [old EXCEPT !.status = status]
<1>2. old \in Row /\ old.attempt \in Int
  BY Parts, RowTypes
<1>3. from \in SUBSET ({"absent"} \cup Live)
  BY <1>1 DEF Live, Held
<1> HIDE DEF old
<1>4. row \in Row /\ row.attempt = old.attempt
  BY <1>1, <1>2 DEF Row, Live, Held, Terminal
<1>5. UNCHANGED cancelled /\ accepted' \subseteq Job
  BY Parts DEF WriteRow, answers
<1>6. Statement(c, j, from, row)
  BY <1>1
<1>7. old.attempt <= row.attempt
  BY <1>2, <1>4
<1> HIDE DEF row
<1> QED BY <1>3, <1>4, <1>5, <1>6, <1>7, StatementStep DEF old

-----------------------------------------------------------------------------
(* Failures *)

\* A method is gone, its transaction ended one way or the other or left open.
LEMMA GoneStep ==
  ASSUME ConnectionsInv, NEW c \in Conn, Fault,
         \/ UNCHANGED dbVars
         \/ /\ \E keep \in BOOLEAN : EndTransaction(c, keep)
            /\ open' = open \ {c},
         task' = [task EXCEPT ![c] = NULL], UNCHANGED answers
  PROVE  Preserved
<1>1. DbOK' /\ TableGrows /\ \A d \in Conn : d # c => Spared(d)
  <2>1. CASE UNCHANGED dbVars
    BY <2>1, Parts, IdleStep
  <2>2. CASE (\E keep \in BOOLEAN : EndTransaction(c, keep)) /\ open' = open \ {c}
    <3>1. PICK keep \in BOOLEAN : EndTransaction(c, keep)
      BY <2>2
    <3> QED BY <2>2, <3>1, Parts, EndStep
  <2> QED BY <2>1, <2>2
<1>2. accepted' = accepted /\ cancelled' = cancelled
  BY DEF answers
<1> QED BY <1>1, <1>2, Parts, FaultType, OneConnection DEF Preserved

LEMMA FailsStep ==
  ASSUME ConnectionsInv, NEW c \in Conn, Fails(c)
  PROVE  Preserved
BY GoneStep DEF Fails

LEMMA BreakStep ==
  ASSUME ConnectionsInv, NEW c \in Conn, Break(c)
  PROVE  Preserved
<1>1. PICK keep \in {FALSE, ~Free(c) /\ task[c].at = "commit"} : EndTransaction(c, keep)
  BY DEF Break
<1>2. keep \in BOOLEAN
  BY DEF Free
<1> QED BY <1>1, <1>2, GoneStep DEF Break

LEMMA RestartStep ==
  ASSUME ConnectionsInv, Restart
  PROVE  Preserved
<1>1. /\ table' = table /\ accepted' = accepted /\ cancelled' = cancelled
      /\ open' = {} /\ pending' = [c \in Conn |-> Untouched]
      /\ locks' = [c \in Conn |-> {}] /\ task' = [c \in Conn |-> NULL]
  BY DEF Restart, answers
<1>2. Untouched \in [Job -> Row \cup {NULL}] /\ \A j \in Job : Untouched[j] = NULL
  BY DEF Untouched
<1>3. TypeOK'
  BY <1>1, <1>2, FaultType DEF ConnectionsInv, TypeOK, Restart
<1>4. LocksApart' /\ PendingIsLater' /\ SelectedIsLocked'
  BY <1>1, <1>2 DEF LocksApart, PendingIsLater, SelectedIsLocked, Free
<1>5. CancelIsKept'
  BY <1>1 DEF ConnectionsInv, CancelIsKept
<1>6. TableGrows
  BY <1>1, Parts, RowTypes DEF TableGrows, DbOK, Row, Attempt
<1> QED BY <1>3, <1>4, <1>5, <1>6 DEF Preserved, ConnectionsInv

-----------------------------------------------------------------------------
(* Theorems *)

LEMMA InitInv == Init => ConnectionsInv
<1> SUFFICES ASSUME Init PROVE ConnectionsInv
  OBVIOUS
<1>1. [status |-> "absent", attempt |-> 0] \in Row
  BY ConnectionsAssumption DEF Row, Attempt
<1>2. Untouched \in [Job -> Row \cup {NULL}] /\ \A j \in Job : Untouched[j] = NULL
  BY DEF Untouched
<1>3. TypeOK
  BY <1>1, <1>2, ConnectionsAssumption DEF Init, TypeOK
<1>4. LocksApart /\ PendingIsLater /\ SelectedIsLocked /\ CancelIsKept
  BY <1>2 DEF Init, LocksApart, PendingIsLater, SelectedIsLocked, Free, CancelIsKept
<1> QED BY <1>3, <1>4 DEF ConnectionsInv

LEMMA StutterStep ==
  ASSUME ConnectionsInv, UNCHANGED vars
  PROVE  Preserved
<1>1. /\ UNCHANGED <<table, open, pending, locks, task, accepted, cancelled, faults>>
  BY DEF vars, dbVars, answers
<1>2. DbOK' /\ TableGrows /\ \A d \in Conn : Spared(d)
  BY <1>1, Parts, IdleStep DEF dbVars
<1>3. TypeOK'
  BY <1>1 DEF ConnectionsInv, TypeOK
<1>4. SelectedIsLocked' /\ CancelIsKept'
  BY <1>1 DEF ConnectionsInv, SelectedIsLocked, CancelIsKept, HasSelected, Free, Seen
<1> QED BY <1>2, <1>3, <1>4 DEF Preserved, ConnectionsInv, DbOK

LEMMA NextInv ==
  ASSUME ConnectionsInv, [Next]_vars
  PROVE  Preserved
<1> USE Parts
<1>1. ASSUME NEW c \in Conn, Begin(c, "grab", NULL, 0)
      PROVE  Preserved
  <2>1. 0 \in Attempt
    BY ConnectionsAssumption DEF Attempt
  <2> QED BY <1>1, <2>1, BeginStep
<1>2. ASSUME NEW c \in Conn, NEW j \in Job, Begin(c, "cancel", j, 0)
      PROVE  Preserved
  <2>1. 0 \in Attempt /\ j # NULL
    BY ConnectionsAssumption DEF Attempt
  <2> QED BY <1>2, <2>1, BeginStep
<1>3. ASSUME NEW c \in Conn, NEW j \in Job, NEW lease \in 1 .. table[j].attempt,
             Begin(c, "fail", j, lease)
      PROVE  Preserved
  <2>1. lease \in Attempt /\ j # NULL
    BY ConnectionsAssumption DEF DbOK, Row, Attempt
  <2> QED BY <1>3, <2>1, BeginStep
<1> QED BY <1>1, <1>2, <1>3, GrabSelectStep, GrabUpdateStep, SelectStep, SettleStep,
           CommitStep, EnqueueStep, WriteRowStep, FailsStep, BreakStep, RestartStep,
           StutterStep DEF Next

\* The locks of the transactions keep them apart, whatever fails and whatever a
\* failed grab leaves open: grab(), cancel() and fail() still have what they
\* selected when they update it by id alone.
THEOREM ConnectionsInvariance == Spec => []ConnectionsInv
<1>1. ConnectionsInv /\ [Next]_vars => ConnectionsInv'
  BY NextInv DEF Preserved
<1> QED BY InitInv, <1>1, PTL DEF Spec

\* A cancel that was answered with success is never undone by a method that had
\* read the job before.
THEOREM CancelStays == Spec => []CancelIsKept
<1>1. ConnectionsInv => CancelIsKept
  BY DEF ConnectionsInv
<1> QED BY ConnectionsInvariance, <1>1, PTL

\* No statement takes back what is committed: settled jobs stay settled and
\* attempts only grow.
THEOREM CommittedStays == Spec => CommittedIsKept
<1>1. ConnectionsInv /\ [Next]_vars =>
        [\A j \in Job : /\ table[j].status \in Terminal => table'[j] = table[j]
                        /\ table[j].attempt <= table'[j].attempt]_vars
  BY NextInv DEF Preserved, TableGrows
<1> QED BY ConnectionsInvariance, <1>1, PTL DEF Spec, CommittedIsKept

\* The lease that grab() returns is in the table.
THEOREM LeaseIsCommitted == Spec => DispatchIsCommitted
<1>1. ConnectionsInv /\ [Next]_vars =>
        [\A c \in Conn :
           Doing(c, "grab", "commit") /\ task[c].job # NULL /\ Commit(c) =>
             table'[task[c].job] = [status |-> "dispatching", attempt |-> task[c].lease]]_vars
  BY CommitStep
<1> QED BY ConnectionsInvariance, <1>1, PTL DEF Spec, DispatchIsCommitted

-----------------------------------------------------------------------------
(* The refinement of DurableJobs *)

\* A row is as the one connection that has written it says, if there is one.
LEMMA OneWriter ==
  ASSUME NEW j \in Job, NEW c \in Conn, \A d \in Conn \ {c} : pending[d][j] = NULL
  PROVE  Written(j) = Seen(c, j)
<1> DEFINE writers == {d \in Conn : pending[d][j] # NULL}
<1>1. CASE pending[c][j] = NULL
  <2>1. writers = {}
    BY <1>1
  <2> QED BY <1>1, <2>1 DEF Written, Seen
<1>2. CASE pending[c][j] # NULL
  <2>1. writers = {c}
    BY <1>2
  <2>2. (CHOOSE d \in writers : TRUE) = c
    BY <2>1
  <2> QED BY <1>2, <2>1, <2>2 DEF Written, Seen
<1> QED BY <1>1, <1>2

LEMMA OneWriterNext ==
  ASSUME NEW j \in Job, NEW c \in Conn, \A d \in Conn \ {c} : pending'[d][j] = NULL
  PROVE  Written(j)' = Seen(c, j)'
<1> DEFINE writers == {d \in Conn : pending'[d][j] # NULL}
<1>1. CASE pending'[c][j] = NULL
  <2>1. writers = {}
    BY <1>1
  <2> QED BY <1>1, <2>1 DEF Written, Seen
<1>2. CASE pending'[c][j] # NULL
  <2>1. writers = {c}
    BY <1>2
  <2>2. (CHOOSE d \in writers : TRUE) = c
    BY <2>1
  <2> QED BY <1>2, <2>1, <2>2 DEF Written, Seen
<1> QED BY <1>1, <1>2

\* A row that no transaction of another connection has locked, none has written.
LEMMA NoOtherWriter ==
  ASSUME DbOK, NEW c \in Conn, NEW j \in Job, Unlocked(c, j)
  PROVE  \A d \in Conn \ {c} : pending[d][j] = NULL
BY DEF DbOK, LocksApart, Unlocked

\* Of a row that is left alone, what is written stays.
LEMMA SameRow ==
  ASSUME NEW j \in Job, table'[j] = table[j], \A d \in Conn : pending'[d][j] = pending[d][j]
  PROVE  Written(j)' = Written(j)
<1> DEFINE writers == {d \in Conn : pending[d][j] # NULL}
<1>1. {d \in Conn : pending'[d][j] # NULL} = writers
  OBVIOUS
<1>2. CASE writers = {}
  BY <1>1, <1>2 DEF Written
<1>3. CASE writers # {}
  <2>1. (CHOOSE d \in writers : TRUE) \in Conn
    BY <1>3
  <2> QED BY <1>1, <1>3, <2>1 DEF Written
<1> QED BY <1>2, <1>3

\* Nothing is written, nothing ends.
LEMMA StillMaps ==
  ASSUME UNCHANGED <<table, pending, cancelled>>
  PROVE  UNCHANGED Durable!durableVars
<1>1. \A j \in Job : Written(j)' = Written(j)
  BY SameRow
<1> QED BY <1>1 DEF Durable!durableVars

\* A statement takes its row one step further, for good or in its transaction.
LEMMA PutMaps ==
  ASSUME DbOK, NEW c \in Conn, NEW j \in Job, NEW row \in Row,
         Unlocked(c, j), Durable!Edge(Seen(c, j), row), Put(c, j, row), UNCHANGED cancelled
  PROVE  Durable!Next
<1>1. row # NULL
  BY ConnectionsAssumption
<1>2. Written(j) = Seen(c, j)
  BY OneWriter, NoOtherWriter
<1>3. /\ \A d \in Conn \ {c} : pending'[d][j] = NULL
      /\ Seen(c, j)' = row
      /\ \A k \in Job \ {j} :
           table'[k] = table[k] /\ \A d \in Conn : pending'[d][k] = pending[d][k]
      /\ \/ table' = table
         \/ table[j] = Seen(c, j) /\ table' = [table EXCEPT ![j] = row]
  <2>1. CASE c \in open
    <3>1. pending' = [pending EXCEPT ![c][j] = row] /\ table' = table
      BY <2>1 DEF Put
    <3>2. /\ \A d \in Conn \ {c} : pending'[d] = pending[d]
          /\ \A k \in Job : pending'[c][k] = IF k = j THEN row ELSE pending[c][k]
      BY <3>1 DEF DbOK
    <3> QED BY <1>1, <3>1, <3>2, NoOtherWriter DEF Seen
  <2>2. CASE c \notin open
    <3>1. table' = [table EXCEPT ![j] = row] /\ pending' = pending
      BY <2>2 DEF Put
    <3>2. pending[c][j] = NULL
      BY <2>2 DEF DbOK, LocksApart
    <3>3. table'[j] = row /\ \A k \in Job \ {j} : table'[k] = table[k]
      BY <3>1 DEF DbOK
    <3> QED BY <3>1, <3>2, <3>3, NoOtherWriter DEF Seen
  <2> QED BY <2>1, <2>2
<1>4. Written(j)' = row
  BY <1>3, OneWriterNext
<1>5. \A k \in Job \ {j} : Written(k)' = Written(k)
  BY <1>3, SameRow
<1>6. [k \in Job |-> Written(k)]' = [[k \in Job |-> Written(k)] EXCEPT ![j] = row]
  BY <1>4, <1>5
<1>7. row \in Durable!Rows
  BY DEF Row, Attempt, Live, Held, Terminal, Durable!Rows, Durable!Trying
<1>8. Durable!Write(j, row)
  BY <1>2, <1>3, <1>6 DEF Durable!Write
<1> QED BY <1>7, <1>8 DEF Durable!Next

\* A transaction that ends stores what it wrote, or loses it; a cancellation is
\* answered when it is stored.
LEMMA EndMaps ==
  ASSUME DbOK, NEW c \in Conn, NEW keep \in BOOLEAN, EndTransaction(c, keep),
         NEW told \in SUBSET Job, cancelled' = cancelled \cup told,
         \A j \in told : table'[j].status = "cancelled", ~keep => told = {}
  PROVE  Durable!Next
<1> DEFINE js == {j \in Job : pending[c][j] # NULL}
<1>1. /\ \A j \in Job : table'[j] = IF keep THEN Seen(c, j) ELSE table[j]
      /\ \A j \in Job : pending'[c][j] = NULL
      /\ \A d \in Conn \ {c} : pending'[d] = pending[d]
  BY DEF EndTransaction, Untouched, DbOK
<1>2. \A j \in Job \ js : table'[j] = table[j] /\ Written(j)' = Written(j)
  BY <1>1, SameRow DEF Seen
<1>3. ASSUME NEW j \in js
      PROVE  Written(j) = pending[c][j] /\ Written(j)' = table'[j]
  <2>1. \A d \in Conn \ {c} : pending[d][j] = NULL
    BY <1>3 DEF DbOK, LocksApart
  <2>2. Written(j) = Seen(c, j) /\ Written(j)' = Seen(c, j)'
    BY <1>1, <2>1, OneWriter, OneWriterNext
  <2> QED BY <1>1, <1>3, <2>2 DEF Seen
<1>4. table \in [Job -> Row] /\ table' = [j \in Job |-> table'[j]]
  BY DEF DbOK, EndTransaction
<1>5. CASE keep
  <2>1. \A j \in Job : Written(j)' = Written(j)
    BY <1>1, <1>2, <1>3, <1>5 DEF Seen
  <2>2. \A j \in Job : table'[j] = IF j \in js THEN Written(j) ELSE table[j]
    BY <1>1, <1>2, <1>3, <1>5 DEF Seen
  <2>3. Durable!Store(js, told)
    BY <1>4, <2>1, <2>2 DEF Durable!Store
  <2> QED BY <2>3 DEF Durable!Next
<1>6. CASE ~keep
  <2>1. table' = table /\ cancelled' = cancelled
    BY <1>6 DEF EndTransaction
  <2>2. \A j \in Job : Written(j)' = IF j \in js THEN table[j] ELSE Written(j)
    BY <1>2, <1>3, <2>1
  <2>3. Durable!Lose(js)
    BY <2>1, <2>2 DEF Durable!Lose
  <2> QED BY <2>3 DEF Durable!Next
<1> QED BY <1>5, <1>6

LEMMA EndsUntold ==
  ASSUME DbOK, NEW c \in Conn, NEW keep \in BOOLEAN, EndTransaction(c, keep),
         cancelled' = cancelled \cup {}
  PROVE  Durable!Next
<1> DEFINE told == {}
<1>1. told \in SUBSET Job /\ \A j \in told : table'[j].status = "cancelled"
  OBVIOUS
<1>2. cancelled' = cancelled \cup told /\ (~keep => told = {})
  OBVIOUS
<1> HIDE DEF told
<1> QED BY <1>1, <1>2, EndMaps

\* What a restart loses is what no transaction has committed.
LEMMA RestartMaps ==
  ASSUME ConnectionsInv, Restart
  PROVE  Durable!Next
<1>1. /\ table' = table /\ cancelled' = cancelled
      /\ \A c \in Conn, j \in Job : pending'[c][j] = NULL
  BY DEF Restart, Untouched, answers
<1>2. \A j \in Job : Written(j)' = table[j]
  BY <1>1 DEF Written
<1>3. Durable!Lose(Job)
  BY <1>1, <1>2 DEF Durable!Lose
<1> QED BY <1>3 DEF Durable!Next

\* What a method has locked, no other connection has.
LEMMA LockedIsUnlocked ==
  ASSUME DbOK, NEW c \in Conn, NEW j \in locks[c]
  PROVE  j \in Job /\ Unlocked(c, j)
BY DEF DbOK, LocksApart, Unlocked

LEMMA GrabUpdateMaps ==
  ASSUME ConnectionsInv, NEW c \in Conn, GrabUpdate(c)
  PROVE  Durable!Next
<1> DEFINE j == task[c].job
           row == [status |-> "dispatching", attempt |-> Seen(c, j).attempt + 1]
<1>1. DbOK /\ j \in locks[c] /\ Seen(c, j).status = "queued"
  BY Parts DEF GrabUpdate, Doing, HasSelected
<1>2. j \in Job /\ Unlocked(c, j)
  BY <1>1, LockedIsUnlocked
<1>3. row \in Row
  BY <1>1, <1>2, RowTypes, NextLease
<1>4. Put(c, j, row) /\ UNCHANGED cancelled
  BY DEF GrabUpdate, answers
<1>5. Durable!Edge(Seen(c, j), row)
  BY <1>1 DEF Durable!Edge
<1> HIDE DEF j, row
<1> QED BY <1>1, <1>2, <1>3, <1>4, <1>5, PutMaps

LEMMA SettleMaps ==
  ASSUME ConnectionsInv, NEW c \in Conn, Settle(c)
  PROVE  Durable!Next
<1> DEFINE j == task[c].job
           old == Seen(c, j)
<1>1. /\ DbOK /\ j \in locks[c] /\ old.status \in Live
      /\ task[c].does = "fail" => old.status \in Held
  BY Parts DEF Settle, Doing, HasSelected, Matches
<1>2. j \in Job /\ Unlocked(c, j)
  BY <1>1, LockedIsUnlocked
<1>3. old \in Row /\ old.attempt \in Int
  BY <1>1, <1>2, RowTypes
<1>4. PICK status \in {"queued", "failed", "cancelled"} :
        /\ Put(c, j, [old EXCEPT !.status = status])
        /\ status = "queued" => old.attempt <= MaxRetries
        /\ status # "cancelled" => task[c].does = "fail"
  BY DEF Settle
<1> DEFINE row == [old EXCEPT !.status = status]
<1>5. row \in Row
  BY <1>3, <1>4 DEF Row, Live, Held, Terminal
<1>6. Durable!Edge(old, row)
  <2>1. CASE status = "cancelled"
    BY <1>1, <2>1 DEF Live, Held, Durable!Edge, Durable!Trying
  <2>2. CASE status = "queued"
    BY <1>1, <1>4, <2>2 DEF Held, Durable!Edge, Durable!Trying
  <2>3. CASE status = "failed"
    BY <1>1, <1>4, <2>3 DEF Held, Durable!Edge, Durable!Trying
  <2> QED BY <2>1, <2>2, <2>3
<1>7. Put(c, j, row) /\ UNCHANGED cancelled
  BY <1>4 DEF Settle, answers
<1> HIDE DEF j, old, row
<1> QED BY <1>1, <1>2, <1>5, <1>6, <1>7, PutMaps DEF old

LEMMA EnqueueMaps ==
  ASSUME ConnectionsInv, NEW c \in Conn, NEW j \in Job, Enqueue(c, j)
  PROVE  Durable!Next
<1> DEFINE row == [status |-> "queued", attempt |-> 0]
<1>1. row \in Row
  BY ConnectionsAssumption DEF Row, Live, Attempt
<1>2. DbOK /\ Unlocked(c, j) /\ Put(c, j, row) /\ UNCHANGED cancelled
  BY Parts DEF Enqueue, Statement
<1>3. Durable!Edge(Seen(c, j), row)
  BY DEF Enqueue, Statement, Durable!Edge
<1> QED BY <1>1, <1>2, <1>3, PutMaps

LEMMA WriteRowMaps ==
  ASSUME ConnectionsInv, NEW c \in Conn, NEW j \in Job, WriteRow(c, j)
  PROVE  Durable!Next
<1> DEFINE old == Seen(c, j)
<1>1. PICK status \in {"running", "succeeded", "failed", "queued"},
           from \in {Held, {"dispatching"}} :
        /\ Statement(c, j, from, [old EXCEPT !.status = status])
        /\ status = "queued" => old.attempt <= MaxRetries
  BY DEF WriteRow
<1> DEFINE row == [old EXCEPT !.status = status]
<1>2. DbOK /\ Unlocked(c, j) /\ Put(c, j, row) /\ UNCHANGED cancelled
  BY <1>1, Parts DEF Statement, WriteRow, answers
<1>3. old \in Row
  BY Parts, RowTypes
<1>4. row \in Row
  BY <1>1, <1>3 DEF Row, Live, Held, Terminal
<1>5. old.status \in Durable!Trying
  BY <1>1 DEF Statement, Held, Durable!Trying
<1>6. Durable!Edge(old, row)
  BY <1>1, <1>5 DEF Durable!Edge
<1> HIDE DEF old, row
<1> QED BY <1>2, <1>4, <1>6, PutMaps DEF old

\* A transaction that is begun stores what was left open.
LEMMA BeginMaps ==
  ASSUME ConnectionsInv, NEW c \in Conn, NEW method, NEW j, NEW lease,
         Begin(c, method, j, lease)
  PROVE  Durable!Next
<1>1. EndTransaction(c, TRUE) /\ cancelled' = cancelled \cup {}
  BY DEF Begin, answers
<1> QED BY <1>1, Parts, EndsUntold

LEMMA CommitMaps ==
  ASSUME ConnectionsInv, NEW c \in Conn, Commit(c)
  PROVE  Durable!Next
<1> DEFINE told == {j \in Job : Doing(c, "cancel", "commit") /\ task[c].job = j}
<1>1. EndTransaction(c, TRUE) /\ cancelled' = cancelled \cup told
  BY DEF Commit
<1>2. \A j \in told : table'[j].status = "cancelled"
  BY <1>1, CommitStep DEF Preserved, ConnectionsInv, CancelIsKept
<1> HIDE DEF told
<1>3. told \in SUBSET Job
  BY DEF told
<1> QED BY <1>1, <1>2, <1>3, Parts, EndMaps

LEMMA LostMaps ==
  ASSUME ConnectionsInv, NEW c \in Conn, NEW keep \in BOOLEAN, EndTransaction(c, keep),
         UNCHANGED answers
  PROVE  Durable!Next
<1>1. cancelled' = cancelled \cup {}
  BY DEF answers
<1> QED BY <1>1, Parts, EndsUntold

LEMMA FaultMaps ==
  ASSUME ConnectionsInv, NEW c \in Conn, Fails(c) \/ Break(c)
  PROVE  [Durable!Next]_(Durable!durableVars)
<1>1. CASE UNCHANGED <<dbVars, answers>>
  BY <1>1, StillMaps DEF dbVars, answers
<1>2. CASE \E keep \in BOOLEAN : EndTransaction(c, keep) /\ UNCHANGED answers
  BY <1>2, LostMaps
<1>3. Fails(c) =>
        \/ UNCHANGED <<dbVars, answers>>
        \/ EndTransaction(c, FALSE) /\ UNCHANGED answers
  BY DEF Fails
<1>4. Break(c) => \E keep \in BOOLEAN : EndTransaction(c, keep) /\ UNCHANGED answers
  BY DEF Break, Free
<1> QED BY <1>1, <1>2, <1>3, <1>4

LEMMA NextMaps ==
  ASSUME ConnectionsInv, [Next]_vars
  PROVE  [Durable!Next]_(Durable!durableVars)
<1>1. CASE UNCHANGED vars
  BY <1>1, StillMaps DEF vars, dbVars, answers
<1>2. ASSUME NEW c \in Conn, GrabSelect(c) \/ SelectForUpdate(c)
      PROVE  UNCHANGED Durable!durableVars
  BY <1>2, StillMaps DEF GrabSelect, SelectForUpdate, answers
<1> QED BY <1>1, <1>2, BeginMaps, GrabUpdateMaps, SettleMaps, CommitMaps, EnqueueMaps,
           WriteRowMaps, FaultMaps, RestartMaps DEF Next

LEMMA InitMaps == Init => Durable!Init
<1> SUFFICES ASSUME Init
             PROVE  Durable!Init
  OBVIOUS
<1>1. \A c \in Conn, j \in Job : pending[c][j] = NULL
  BY DEF Init, Untouched
<1>2. \A j \in Job : Written(j) = table[j]
  BY <1>1 DEF Written
<1> QED BY <1>2 DEF Init, Durable!Init

\* The connections of the pool, with their statements interleaved, left open or
\* lost at any point, make of each row what one careful writer would: one course
\* along the legal edges, of which only what was never committed is taken back.
THEOREM DurableRefinement == Spec => ImplementsDurableJobs
<1>1. ConnectionsInv /\ [Next]_vars => [Durable!Next]_(Durable!durableVars)
  BY NextMaps
<1> QED BY InitMaps, <1>1, ConnectionsInvariance, PTL
        DEF Spec, ImplementsDurableJobs, Durable!Spec

-----------------------------------------------------------------------------
(* What is accepted stays, unless a grab fails *)

\* What a step keeps of the rows that are there, in the table and in transactions.
RowsStay ==
  /\ \A j \in Job : table[j].status # "absent" => table'[j].status # "absent"
  /\ WritesKeepRows'

LEMMA PutStays ==
  ASSUME DbOK, WritesKeepRows, NEW c \in Conn, NEW j \in Job, NEW row \in Row,
         row.status # "absent", Put(c, j, row)
  PROVE  RowsStay /\ (c \notin open => table'[j] = row)
<1>1. CASE c \in open
  <2>1. pending' = [pending EXCEPT ![c][j] = row] /\ table' = table
    BY <1>1 DEF Put
  <2>2. \A d \in Conn, k \in Job :
          pending'[d][k] = IF d = c /\ k = j THEN row ELSE pending[d][k]
    BY <2>1 DEF DbOK
  <2> QED BY <1>1, <2>1, <2>2 DEF RowsStay, WritesKeepRows
<1>2. CASE c \notin open
  <2>1. table' = [table EXCEPT ![j] = row] /\ pending' = pending
    BY <1>2 DEF Put
  <2>2. \A k \in Job : table'[k] = IF k = j THEN row ELSE table[k]
    BY <2>1 DEF DbOK
  <2> QED BY <2>1, <2>2 DEF RowsStay, WritesKeepRows
<1> QED BY <1>1, <1>2

LEMMA EndStays ==
  ASSUME DbOK, WritesKeepRows, NEW c \in Conn, NEW keep \in BOOLEAN, EndTransaction(c, keep)
  PROVE  RowsStay
<1>1. \A j \in Job : table'[j] \in {table[j], Seen(c, j)}
  BY DEF EndTransaction
<1>2. \A d \in Conn, j \in Job : pending'[d][j] \in {NULL, pending[d][j]}
  BY DEF EndTransaction, Untouched, DbOK
<1> QED BY <1>1, <1>2 DEF RowsStay, WritesKeepRows, Seen

\* The statements of a method in its transaction.
LEMMA MethodStays ==
  ASSUME ConnectionsInv, WritesKeepRows, NEW c \in Conn, GrabUpdate(c) \/ Settle(c)
  PROVE  RowsStay
<1> DEFINE j == task[c].job
<1>1. DbOK /\ j \in locks[c] /\ j \in Job
  BY Parts DEF GrabUpdate, Settle, Doing, HasSelected, DbOK
<1>2. Seen(c, j) \in Row
  BY <1>1, RowTypes
<1>3. PICK row : row \in Row /\ row.status # "absent" /\ Put(c, j, row)
  <2>1. CASE GrabUpdate(c)
    <3>1. Seen(c, j).status = "queued"
      BY <2>1, Parts DEF GrabUpdate, Doing, HasSelected
    <3>2. [status |-> "dispatching", attempt |-> Seen(c, j).attempt + 1] \in Row
      BY <1>2, <3>1, NextLease
    <3> QED BY <2>1, <3>2 DEF GrabUpdate
  <2>2. CASE Settle(c)
    <3>1. PICK status \in {"queued", "failed", "cancelled"} :
            /\ Put(c, j, [Seen(c, j) EXCEPT !.status = status])
            /\ status = "queued" => Seen(c, j).attempt <= MaxRetries
      BY <2>2 DEF Settle
    <3>2. [Seen(c, j) EXCEPT !.status = status] \in Row
      BY <1>2, <3>1 DEF Row, Live, Held, Terminal
    <3>3. [Seen(c, j) EXCEPT !.status = status].status # "absent"
      BY <1>2 DEF Row
    <3> QED BY <3>1, <3>2, <3>3
  <2> QED BY <2>1, <2>2
<1> HIDE DEF j
<1> QED BY <1>1, <1>3, PutStays

\* The method of c ends, and its transaction with it.
LEMMA TidyEnd ==
  ASSUME ConnectionsInv, TidyInv, NEW c \in Conn, NEW keep \in BOOLEAN,
         EndTransaction(c, keep), open' = open \ {c},
         task' = [task EXCEPT ![c] = NULL], UNCHANGED accepted
  PROVE  TidyInv'
<1>1. RowsStay
  BY Parts, EndStays DEF TidyInv
<1>2. \A d \in open' : task'[d] = task[d] /\ task[d] # NULL
  BY Parts DEF TidyInv, NothingLeftOpen, Free, DbOK, ConnectionsInv, TypeOK
<1> QED BY <1>1, <1>2, Parts
        DEF RowsStay, TidyInv, NothingLeftOpen, AcceptedIsStored, Free

\* The method of c goes on, with its transaction.
LEMMA TidyGoesOn ==
  ASSUME ConnectionsInv, TidyInv, NEW c \in Conn, RowsStay,
         open' \in {open, open \cup {c}},
         NEW x \in Task, task' = [task EXCEPT ![c] = x], UNCHANGED accepted
  PROVE  TidyInv'
<1>1. \A d \in open' : task'[d] # NULL
  BY ConnectionsAssumption, Parts
  DEF TidyInv, NothingLeftOpen, Free, DbOK, ConnectionsInv, TypeOK
<1> QED BY <1>1, Parts DEF RowsStay, TidyInv, NothingLeftOpen, AcceptedIsStored, Free

LEMMA TidyBegin ==
  ASSUME ConnectionsInv, TidyInv, NEW c \in Conn, NEW j \in Job \cup {NULL},
         NEW lease \in Attempt, NEW method \in {"grab", "cancel", "fail"},
         Begin(c, method, j, lease)
  PROVE  TidyInv'
<1> DEFINE x == [does |-> method, at |-> "select", job |-> j, lease |-> lease]
<1>1. x \in Task
  BY DEF Task
<1>2. RowsStay
  BY Parts, EndStays DEF Begin, TidyInv
<1>3. task' = [task EXCEPT ![c] = x] /\ open' = open \cup {c} /\ UNCHANGED accepted
  BY DEF Begin, answers
<1> HIDE DEF x
<1> QED BY <1>1, <1>2, <1>3, TidyGoesOn

\* A single statement is on a connection that has no transaction, and is committed.
LEMMA TidyStatement ==
  ASSUME ConnectionsInv, TidyInv, NEW c \in Conn, NEW j \in Job, NEW row \in Row,
         row.status # "absent", NEW from, Statement(c, j, from, row),
         accepted' \in {accepted, accepted \cup {j}}
  PROVE  TidyInv'
<1>1. RowsStay /\ table'[j] = row
  BY Parts, PutStays DEF Statement, TidyInv, NothingLeftOpen
<1>2. open' = open /\ task' = task
  BY DEF Statement
<1>3. AcceptedIsStored'
  BY <1>1, Parts DEF RowsStay, TidyInv, AcceptedIsStored
<1> QED BY <1>1, <1>2, <1>3 DEF RowsStay, TidyInv, NothingLeftOpen, Free

LEMMA TidyEnqueue ==
  ASSUME ConnectionsInv, TidyInv, NEW c \in Conn, NEW j \in Job, Enqueue(c, j)
  PROVE  TidyInv'
<1> DEFINE row == [status |-> "queued", attempt |-> 0]
<1>1. row \in Row /\ row.status # "absent"
  BY ConnectionsAssumption DEF Row, Live, Attempt
<1>2. Statement(c, j, {"absent"}, row) /\ accepted' = accepted \cup {j}
  BY DEF Enqueue
<1> HIDE DEF row
<1> QED BY <1>1, <1>2, TidyStatement

LEMMA TidyWriteRow ==
  ASSUME ConnectionsInv, TidyInv, NEW c \in Conn, NEW j \in Job, WriteRow(c, j)
  PROVE  TidyInv'
<1> DEFINE old == Seen(c, j)
<1>1. PICK status \in {"running", "succeeded", "failed", "queued"},
           from \in {Held, {"dispatching"}} :
        /\ Statement(c, j, from, [old EXCEPT !.status = status])
        /\ status = "queued" => old.attempt <= MaxRetries
  BY DEF WriteRow
<1> DEFINE row == [old EXCEPT !.status = status]
<1>2. old \in Row
  BY Parts, RowTypes
<1>3. row \in Row /\ row.status # "absent"
  BY <1>1, <1>2 DEF Row, Live, Held, Terminal
<1>4. Statement(c, j, from, row) /\ accepted' = accepted
  BY <1>1 DEF WriteRow, answers
<1> HIDE DEF old, row
<1> QED BY <1>3, <1>4, TidyStatement

\* A method that selects or updates goes on.
LEMMA MethodTask ==
  ASSUME ConnectionsInv, NEW c \in Conn,
         GrabSelect(c) \/ SelectForUpdate(c) \/ GrabUpdate(c) \/ Settle(c)
  PROVE  \E x \in Task : task' = [task EXCEPT ![c] = x]
<1>1. DbOK /\ ~Free(c) /\ task[c] \in Task /\ task \in [Conn -> Task \cup {NULL}]
  BY Parts DEF GrabSelect, SelectForUpdate, GrabUpdate, Settle, Doing, ConnectionsInv, TypeOK
<1>2. CASE Proceed(c, "update") \/ Proceed(c, "commit")
  BY <1>1, <1>2, ProceedTask
<1>3. CASE task' = [task EXCEPT ![c].at = "commit", ![c].job = NULL]
  <2> DEFINE x == [task[c] EXCEPT !.at = "commit", !.job = NULL]
  <2>1. task' = [task EXCEPT ![c] = x] /\ x \in Task
    BY <1>1, <1>3 DEF Task
  <2> QED BY <2>1
<1>4. ASSUME NEW j \in Job, Seen(c, j).status = "queued",
             task' = [task EXCEPT ![c].job = j, ![c].at = "update",
                                  ![c].lease = Seen(c, j).attempt + 1]
      PROVE  \E x \in Task : task' = [task EXCEPT ![c] = x]
  <2> DEFINE lease == Seen(c, j).attempt + 1
             x == [task[c] EXCEPT !.job = j, !.at = "update", !.lease = lease]
  <2>1. lease \in Attempt
    BY <1>1, <1>4, RowTypes, NextLease
  <2>2. task' = [task EXCEPT ![c] = x] /\ x \in Task
    BY <1>1, <1>4, <2>1 DEF Task
  <2> QED BY <2>2
<1> QED BY <1>2, <1>3, <1>4 DEF GrabSelect, SelectForUpdate, GrabUpdate, Settle

\* A method in its transaction selects or updates.
LEMMA TidyMethod ==
  ASSUME ConnectionsInv, TidyInv, NEW c \in Conn,
         GrabSelect(c) \/ SelectForUpdate(c) \/ GrabUpdate(c) \/ Settle(c)
  PROVE  TidyInv'
<1>1. RowsStay
  <2>1. CASE GrabSelect(c) \/ SelectForUpdate(c)
    BY <2>1 DEF GrabSelect, SelectForUpdate, RowsStay, TidyInv, WritesKeepRows
  <2>2. CASE GrabUpdate(c) \/ Settle(c)
    BY <2>2, MethodStays DEF TidyInv
  <2> QED BY <2>1, <2>2
<1>2. open' = open /\ accepted' = accepted
  BY DEF GrabSelect, SelectForUpdate, GrabUpdate, Settle, answers
<1>3. PICK x \in Task : task' = [task EXCEPT ![c] = x]
  BY MethodTask
<1> QED BY <1>1, <1>2, <1>3, TidyGoesOn

LEMMA TidyFault ==
  ASSUME ConnectionsInv, TidyInv, GrabsDoNotFail, NEW c \in Conn, Fails(c) \/ Break(c)
  PROVE  TidyInv'
<1>1. PICK keep \in BOOLEAN : EndTransaction(c, keep)
  BY DEF Fails, Break, GrabsDoNotFail, Free
<1>2. /\ open' = open \ {c} /\ task' = [task EXCEPT ![c] = NULL]
      /\ UNCHANGED accepted
  BY DEF Fails, Break, GrabsDoNotFail, answers
<1> QED BY <1>1, <1>2, TidyEnd

LEMMA TidyStep ==
  ASSUME ConnectionsInv, TidyInv, Next, GrabsDoNotFail
  PROVE  TidyInv'
<1>1. ASSUME NEW c \in Conn, Begin(c, "grab", NULL, 0)
      PROVE  TidyInv'
  <2>1. 0 \in Attempt
    BY ConnectionsAssumption DEF Attempt
  <2> QED BY <1>1, <2>1, TidyBegin
<1>2. ASSUME NEW c \in Conn, NEW j \in Job, Begin(c, "cancel", j, 0)
      PROVE  TidyInv'
  <2>1. 0 \in Attempt
    BY ConnectionsAssumption DEF Attempt
  <2> QED BY <1>2, <2>1, TidyBegin
<1>3. ASSUME NEW c \in Conn, NEW j \in Job, NEW lease \in 1 .. table[j].attempt,
             Begin(c, "fail", j, lease)
      PROVE  TidyInv'
  <2>1. lease \in Attempt
    BY Parts, ConnectionsAssumption DEF DbOK, Row, Attempt
  <2> QED BY <1>3, <2>1, TidyBegin
<1>4. ASSUME NEW c \in Conn, Commit(c)
      PROVE  TidyInv'
  BY <1>4, TidyEnd DEF Commit
<1>5. CASE Restart
  BY <1>5 DEF Restart, Untouched, answers, TidyInv, NothingLeftOpen, AcceptedIsStored,
              WritesKeepRows
<1> QED BY <1>1, <1>2, <1>3, <1>4, <1>5, TidyMethod, TidyEnqueue, TidyWriteRow, TidyFault
        DEF Next

\* As long as no statement of grab() fails by itself, a transaction never outlives
\* its method, and every job that was accepted is in the table, whatever else
\* fails or restarts.
THEOREM TidyInvariance == TidySpec => []TidyInv
<1>1. Init => TidyInv
  BY DEF Init, Untouched, TidyInv, NothingLeftOpen, AcceptedIsStored, WritesKeepRows
<1>2. ConnectionsInv /\ TidyInv /\ [Next /\ GrabsDoNotFail]_vars => TidyInv'
  <2>1. ASSUME ConnectionsInv, TidyInv, Next, GrabsDoNotFail
        PROVE  TidyInv'
    BY <2>1, TidyStep
  <2>2. ASSUME TidyInv, UNCHANGED vars
        PROVE  TidyInv'
    BY <2>2 DEF vars, dbVars, answers, TidyInv, NothingLeftOpen, AcceptedIsStored,
                WritesKeepRows, Free
  <2> QED BY <2>1, <2>2
<1>3. TidySpec => Spec
  BY PTL DEF TidySpec, Spec
<1> QED BY <1>1, <1>2, <1>3, ConnectionsInvariance, PTL DEF TidySpec

\* So a grab that fails with its transaction open is the only way to lose a job that
\* was accepted.
THEOREM AcceptedStays ==
  ASSUME Conn # {}
  PROVE  TidySpec => []AcceptedIsKept
<1>1. ConnectionsInv /\ TidyInv => AcceptedIsKept
  <2> SUFFICES ASSUME ConnectionsInv, TidyInv, NEW j \in accepted
               PROVE  \E c \in Conn : Seen(c, j).status # "absent"
    BY DEF AcceptedIsKept
  <2>1. j \in Job
    BY Parts
  <2> QED BY <2>1 DEF TidyInv, AcceptedIsStored, WritesKeepRows, Seen
<1>2. TidySpec => Spec
  BY PTL DEF TidySpec, Spec
<1> QED BY <1>1, <1>2, TidyInvariance, ConnectionsInvariance, PTL
=============================================================================

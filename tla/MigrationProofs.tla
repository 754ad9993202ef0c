-------------------------- MODULE MigrationProofs --------------------------
(***************************************************************************)
(* Theorems about Migration, for any number of replicas of any releases    *)
(* and any faults: a replica that serves has a database with every         *)
(* migration it knows, and no migration is run after a later one.          *)
(***************************************************************************)
EXTENDS Migration, TLAPS

LEMMA InitInv == Init => MigrationInv
<1> SUFFICES ASSUME Init
             PROVE  MigrationInv
  OBVIOUS
<1>1. MigrationTypeOK
  BY MigrationAssumption DEF Init, MigrationTypeOK
<1>2. LockIsHeld /\ ReadIsCurrent
  BY DEF Init, LockIsHeld, ReadIsCurrent
<1>3. RecordedAsApplied
  <2>1. CASE schema \in {0, 1} /\ recorded = {}
    BY <2>1 DEF RecordedAsApplied
  <2>2. CASE schema = 2 /\ recorded = {1, 2}
    BY <2>2 DEF RecordedAsApplied
  <2> QED BY <2>1, <2>2 DEF Init
<1> QED BY <1>1, <1>2, <1>3 DEF MigrationInv

\* A replica that migrates is the only one: it has the lock.
LEMMA Alone ==
  ASSUME MigrationInv, NEW r \in Replica, session[r], pc[r] \in {"read", "apply", "record"}
  PROVE  /\ lock = r
         /\ \A s \in Replica : session[s] /\ pc[s] \in {"read", "apply", "record"} => s = r
BY DEF MigrationInv, LockIsHeld

\* The next migration is the one that the table is at or the one after it, and
\* everything before it is recorded.
LEMMA NextVersion ==
  ASSUME MigrationInv, NEW r \in Replica, session[r], pc[r] \in {"apply", "record"},
         NEW v \in Todo(r), IsNext(r, v)
  PROVE  /\ v \in Nat /\ schema <= v
         /\ v \notin recorded /\ 1 .. (v - 1) \subseteq recorded
         /\ schema # 0 /\ v = 1 => schema = 1
<1>1. applied[r] = recorded /\ schema \in Nat /\ Knows[r] \in Nat
  BY MigrationAssumption DEF MigrationInv, ReadIsCurrent, MigrationTypeOK
<1>2. v \in 1 .. Knows[r] /\ v \notin recorded
  BY <1>1 DEF Todo
<1>3. schema <= v
  BY <1>1, <1>2 DEF MigrationInv, RecordedAsApplied
<1>4. ASSUME NEW w \in 1 .. (v - 1)
      PROVE  w \in recorded
  BY <1>1, <1>2, <1>4 DEF Todo, IsNext
<1> QED BY <1>1, <1>2, <1>3, <1>4

\* The steps that touch neither the table nor what is recorded.
LEMMA QuietStep ==
  ASSUME MigrationInv, NEW r \in Replica,
         \/ Start(r) \/ AcquireLock(r) \/ TimeOut(r) \/ ReleaseLock(r)
         \/ Throws(r) \/ LoseSession(r) \/ Crash(r)
  PROVE  MigrationInv'
<1> USE MigrationAssumption DEF MigrationInv, MigrationTypeOK, Goto, Fault, Unlocked, databaseVars
<1>1. CASE Start(r)
  BY <1>1 DEF Start, LockIsHeld, RecordedAsApplied, ReadIsCurrent, Todo
<1>2. CASE AcquireLock(r)
  BY <1>2 DEF AcquireLock, Queries, LockIsHeld, RecordedAsApplied, ReadIsCurrent, Todo
<1>3. CASE TimeOut(r)
  BY <1>3 DEF TimeOut, Queries, LockIsHeld, RecordedAsApplied, ReadIsCurrent, Todo
<1>4. CASE ReleaseLock(r)
  BY <1>4 DEF ReleaseLock, LockIsHeld, RecordedAsApplied, ReadIsCurrent, Todo
<1>5. CASE Throws(r)
  BY <1>5 DEF Throws, LockIsHeld, RecordedAsApplied, ReadIsCurrent, Todo
<1>6. CASE LoseSession(r)
  BY <1>6 DEF LoseSession, LockIsHeld, RecordedAsApplied, ReadIsCurrent, Todo
<1>7. CASE Crash(r)
  BY <1>7 DEF Crash, LockIsHeld, RecordedAsApplied, ReadIsCurrent, Todo
<1> QED BY <1>1, <1>2, <1>3, <1>4, <1>5, <1>6, <1>7

\* What is read under the lock stays true while the lock is held.
LEMMA ReadStep ==
  ASSUME MigrationInv, NEW r \in Replica, Read(r)
  PROVE  MigrationInv'
<1> USE MigrationAssumption DEF MigrationInv, MigrationTypeOK, Goto, databaseVars
<1>1. LockIsHeld' /\ RecordedAsApplied' /\ MigrationTypeOK'
  BY DEF Read, Queries, LockIsHeld, RecordedAsApplied
<1>2. ReadIsCurrent'
  BY DEF Read, Queries, ReadIsCurrent, Todo
<1> QED BY <1>1, <1>2

\* A migration's statement takes the table one version on, or leaves it.
LEMMA ApplyStep ==
  ASSUME MigrationInv, NEW r \in Replica, Apply(r)
  PROVE  MigrationInv' /\ schema <= schema'
<1>1. PICK v \in Todo(r) : IsNext(r, v) /\ schema' = Migrated(v)
  BY DEF Apply
<1>2. /\ v \in Nat /\ schema <= v
      /\ v \notin recorded /\ 1 .. (v - 1) \subseteq recorded
      /\ schema # 0 /\ v = 1 => schema = 1
  BY <1>1, NextVersion DEF Apply, Queries
<1>3. schema' = v /\ schema \in Nat
  BY <1>1, <1>2 DEF Migrated, MigrationInv, MigrationTypeOK
<1>4. /\ pc' = [pc EXCEPT ![r] = "record"]
      /\ UNCHANGED <<session, applied, lock, recorded, faults>>
  BY DEF Apply, Goto
<1>5. MigrationTypeOK' /\ LockIsHeld'
  BY <1>2, <1>3, <1>4 DEF Apply, Queries, MigrationInv, MigrationTypeOK, LockIsHeld
<1>6. RecordedAsApplied'
  BY <1>2, <1>3, <1>4 DEF MigrationInv, RecordedAsApplied
<1>7. ReadIsCurrent'
  <2>1. ASSUME NEW s \in Replica, session[s], pc'[s] \in {"apply", "record"}
        PROVE  /\ applied[s] = recorded /\ Todo(s) # {}
               /\ s = r
    BY <2>1, <1>4, Alone DEF Apply, Queries, MigrationInv, MigrationTypeOK, ReadIsCurrent
  <2>2. \A s \in Replica : pc'[s] \in {"release", "serving", "done"} => pc'[s] = pc[s]
    BY <1>4 DEF MigrationInv, MigrationTypeOK
  <2> QED BY <1>1, <1>3, <1>4, <2>1, <2>2 DEF MigrationInv, ReadIsCurrent, Todo
<1> QED BY <1>2, <1>3, <1>5, <1>6, <1>7 DEF MigrationInv

\* What is recorded is what was applied.
LEMMA RecordStep ==
  ASSUME MigrationInv, NEW r \in Replica, Record(r)
  PROVE  MigrationInv'
<1>1. PICK v \in Todo(r) :
        /\ IsNext(r, v)
        /\ recorded' = recorded \cup {v}
        /\ applied' = [applied EXCEPT ![r] = @ \cup {v}]
        /\ Goto(r, IF Todo(r) = {v} THEN "release" ELSE "apply")
  BY DEF Record
<1>2. /\ v \in Nat /\ schema <= v /\ v \notin recorded /\ 1 .. (v - 1) \subseteq recorded
  BY <1>1, NextVersion DEF Record, Queries
<1>3. schema \in Todo(r) /\ schema \in Nat /\ applied[r] = recorded
  BY DEF Record, Queries, MigrationInv, MigrationTypeOK, ReadIsCurrent
<1>4. v = schema
  BY <1>1, <1>2, <1>3 DEF IsNext
<1>5. session[r] /\ pc[r] = "record" /\ UNCHANGED <<session, lock, schema, faults>>
  BY DEF Record, Queries
<1>6. MigrationTypeOK' /\ LockIsHeld'
  BY <1>1, <1>2, <1>5, Alone DEF Goto, MigrationInv, MigrationTypeOK, LockIsHeld
<1>7. RecordedAsApplied'
  BY <1>1, <1>2, <1>3, <1>4, <1>5 DEF MigrationInv, RecordedAsApplied, Todo
<1>8. ReadIsCurrent'
  <2>1. applied'[r] = recorded' /\ Todo(r)' = Todo(r) \ {v}
    BY <1>1, <1>3 DEF MigrationInv, MigrationTypeOK, Todo
  <2>2. pc'[r] = IF Todo(r) = {v} THEN "release" ELSE "apply"
    BY <1>1 DEF Goto, MigrationInv, MigrationTypeOK
  <2>3. \A s \in Replica : s # r => pc'[s] = pc[s]
    BY <1>1 DEF Goto, MigrationInv, MigrationTypeOK
  <2>4. \A s \in Replica : s # r => ~(session[s] /\ pc[s] \in {"apply", "record"})
    BY <1>5, Alone
  <2>5. pc'[r] = "release" => 1 .. Knows[r] \subseteq recorded'
    BY <1>1, <1>3, <2>2 DEF Todo
  <2> QED BY <1>1, <1>5, <2>1, <2>2, <2>3, <2>4, <2>5 DEF MigrationInv, ReadIsCurrent
<1> QED BY <1>6, <1>7, <1>8 DEF MigrationInv

\* Every step preserves the invariant, and none takes the table back.
LEMMA NextInv == MigrationInv /\ [Next]_vars => MigrationInv' /\ schema <= schema'
<1> SUFFICES ASSUME MigrationInv, [Next]_vars
             PROVE  MigrationInv' /\ schema <= schema'
  OBVIOUS
<1>1. schema \in Nat
  BY DEF MigrationInv, MigrationTypeOK
<1>2. CASE UNCHANGED vars
  BY <1>1, <1>2 DEF vars, replicaVars, databaseVars, MigrationInv, MigrationTypeOK,
                    LockIsHeld, RecordedAsApplied, ReadIsCurrent, Todo
<1>3. ASSUME NEW r \in Replica,
             \/ Start(r) \/ AcquireLock(r) \/ TimeOut(r) \/ ReleaseLock(r)
             \/ Throws(r) \/ LoseSession(r) \/ Crash(r)
      PROVE  MigrationInv' /\ schema <= schema'
  <2>1. schema' = schema
    BY <1>3 DEF Start, AcquireLock, TimeOut, ReleaseLock, Throws, LoseSession, Crash, databaseVars
  <2> QED BY <1>1, <1>3, <2>1, QuietStep
<1>4. ASSUME NEW r \in Replica, Read(r) \/ Record(r)
      PROVE  MigrationInv' /\ schema <= schema'
  <2>1. schema' = schema
    BY <1>4 DEF Read, Record, databaseVars
  <2> QED BY <1>1, <1>4, <2>1, ReadStep, RecordStep
<1>5. ASSUME NEW r \in Replica, Apply(r)
      PROVE  MigrationInv' /\ schema <= schema'
  BY <1>5, ApplyStep
<1> QED BY <1>2, <1>3, <1>4, <1>5 DEF Next, Migrate

-----------------------------------------------------------------------------
(* The theorems *)

\* The lock goes with the session that migrates, and the table is at the last
\* version recorded, or one further.
THEOREM MigrationInvariance == Spec => []MigrationInv
BY InitInv, NextInv, PTL DEF Spec

\* A replica serves only a database that has every migration it knows.
THEOREM ServesMigrated == Spec => []ServingIsMigrated
<1>1. MigrationInv => ServingIsMigrated
  <2> SUFFICES ASSUME MigrationInv, NEW r \in Replica, pc[r] \in {"serving", "done"}
               PROVE  1 .. Knows[r] \subseteq recorded /\ Knows[r] <= schema
    BY DEF ServingIsMigrated
  <2>1. 1 .. Knows[r] \subseteq recorded
    BY DEF MigrationInv, ReadIsCurrent
  <2>2. Knows[r] \in 1 .. Knows[r]
    BY MigrationAssumption
  <2> QED BY <2>1, <2>2 DEF MigrationInv, RecordedAsApplied
<1> QED BY <1>1, MigrationInvariance, PTL

\* No replica, however late, takes the table back to an earlier version.
THEOREM SchemaOnlyGrows == Spec => SchemaNeverRegresses
<1>1. MigrationInv /\ [Next]_vars => [schema <= schema']_vars
  BY NextInv
<1> QED BY <1>1, MigrationInvariance, PTL DEF Spec, SchemaNeverRegresses

-----------------------------------------------------------------------------
(* The refinement of SchemaHistory *)

\* A migration is applied for the first time when the one before it is recorded,
\* and else leaves the table as it is.
LEMMA ApplyMaps ==
  ASSUME MigrationInv, NEW r \in Replica, Apply(r)
  PROVE  [History!Next]_(History!historyVars)
<1>1. PICK v \in Todo(r) : IsNext(r, v) /\ schema' = Migrated(v)
  BY DEF Apply
<1>2. /\ v \in Nat /\ schema <= v
      /\ v \notin recorded /\ 1 .. (v - 1) \subseteq recorded
      /\ schema # 0 /\ v = 1 => schema = 1
  BY <1>1, NextVersion DEF Apply, Queries
<1>3. schema' = v /\ schema \in Nat /\ recorded' = recorded /\ v \in 1 .. Knows[r]
  BY <1>1, <1>2 DEF Migrated, MigrationInv, MigrationTypeOK, Apply, Todo
<1>4. 1 .. (schema - 1) \subseteq recorded /\ recorded \subseteq 1 .. schema
  BY DEF MigrationInv, RecordedAsApplied
<1>5. CASE v = schema
  BY <1>3, <1>5 DEF History!historyVars
<1>6. CASE v # schema
  <2>1. schema < v
    BY <1>2, <1>3, <1>6
  <2>2. v = schema + 1
    <3>1. CASE schema + 1 < v
      <4>1. schema + 1 \in 1 .. (v - 1)
        BY <1>2, <1>3, <3>1
      <4> QED BY <1>2, <1>3, <1>4, <4>1
    <3> QED BY <1>2, <1>3, <2>1, <3>1
  <2>3. schema \in recorded \cup {0}
    BY <1>2, <1>3, <2>2
  <2> QED BY <1>3, <2>2, <2>3 DEF History!Next, History!Advance
<1> QED BY <1>5, <1>6

\* What is recorded is what the table is at.
LEMMA RecordMaps ==
  ASSUME MigrationInv, NEW r \in Replica, Record(r)
  PROVE  History!Next
<1>1. PICK v \in Todo(r) :
        IsNext(r, v) /\ v \notin recorded /\ recorded' = recorded \cup {v}
  BY DEF Record
<1>2. v \in Nat /\ schema <= v /\ v # 0
  BY <1>1, NextVersion, MigrationAssumption DEF Record, Queries, Todo
<1>3. schema \in Todo(r) /\ schema \in Nat
  BY DEF Record, Queries, MigrationInv, MigrationTypeOK, ReadIsCurrent
<1>4. v = schema
  BY <1>1, <1>2, <1>3 DEF IsNext
<1>5. schema' = schema
  BY DEF Record
<1> QED BY <1>1, <1>2, <1>4, <1>5 DEF History!Next, History!Write

LEMMA NextMaps ==
  ASSUME MigrationInv, [Next]_vars
  PROVE  [History!Next]_(History!historyVars)
<1>1. CASE UNCHANGED vars
  BY <1>1 DEF vars, databaseVars, History!historyVars
<1>2. ASSUME NEW r \in Replica,
             \/ Start(r) \/ AcquireLock(r) \/ TimeOut(r) \/ ReleaseLock(r)
             \/ Throws(r) \/ LoseSession(r) \/ Crash(r) \/ Read(r)
      PROVE  UNCHANGED History!historyVars
  BY <1>2 DEF Start, AcquireLock, TimeOut, ReleaseLock, Throws, LoseSession, Crash, Read,
              databaseVars, History!historyVars
<1> QED BY <1>1, <1>2, ApplyMaps, RecordMaps DEF Next, Migrate

\* Replicas that migrate at once, and fail at any point, leave the schema with the
\* history that a single undisturbed migrator gives it.
THEOREM HistoryRefinement == Spec => ImplementsSchemaHistory
<1>1. Init => History!Init
  BY DEF Init, History!Init
<1>2. MigrationInv /\ [Next]_vars => [History!Next]_(History!historyVars)
  BY NextMaps
<1> QED BY <1>1, <1>2, MigrationInvariance, PTL DEF Spec, ImplementsSchemaHistory, History!Spec
=============================================================================

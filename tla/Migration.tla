----------------------------- MODULE Migration -----------------------------
(***************************************************************************)
(* migrateDatabase(): replicas that start at the same time, perhaps of     *)
(* different releases, bring the schema up to date under an advisory lock  *)
(* of MySQL.  Any of them may die, lose its database session or see a      *)
(* statement fail at any point, and is then started again.                 *)
(*                                                                         *)
(* MIGRATIONS has two entries at this commit; the loop over it is modelled *)
(* for lists of any length.  An advisory lock belongs to a session, and    *)
(* the statements of a migration are run in that same session.             *)
(***************************************************************************)
EXTENDS Integers

CONSTANTS
  NULL,
  Replica,
  Knows,        \* the last version in the MIGRATIONS of each replica's release
  MigrateOnly,  \* the replicas run with ENDUROQ_DB_MIGRATE_ONLY
  MaxFaults     \* bound on deaths, lost sessions, statements that fail or hang

ASSUME MigrationAssumption ==
  /\ NULL \notin Replica
  /\ Knows \in [Replica -> Nat \ {0}]
  /\ MaxFaults \in Nat

VARIABLES
  pc,        \* where each replica's main() stands
  session,   \* whether the session of each replica's connection is alive
  applied,   \* the versions that each replica takes for applied
  lock,      \* whose session holds the lock, or NULL
  schema,    \* the version that the jobs table is at; 0 without the table
  recorded,  \* the rows of enduroq_schema_migrations
  faults

replicaVars == <<pc, session, applied>>
databaseVars == <<schema, recorded>>
vars == <<replicaVars, lock, databaseVars, faults>>

MigrationTypeOK ==
  /\ pc \in [Replica -> {"down", "lock", "read", "apply", "record",
                         "release", "abort", "serving", "done"}]
  /\ session \in [Replica -> BOOLEAN]
  /\ applied \in [Replica -> SUBSET Nat]
  /\ lock \in Replica \cup {NULL}
  /\ schema \in Nat
  /\ recorded \subseteq Nat
  /\ faults \in 0 .. MaxFaults

\* A new database, one from before there were migrations, or one that was made
\* with schema.sql.
Init ==
  /\ pc = [r \in Replica |-> "down"]
  /\ session = [r \in Replica |-> FALSE]
  /\ applied = [r \in Replica |-> {}]
  /\ lock = NULL
  /\ \/ schema \in {0, 1} /\ recorded = {}
     \/ schema = 2 /\ recorded = {1, 2}
  /\ faults = 0

Goto(r, stage) == pc' = [pc EXCEPT ![r] = stage]

\* A query of r's connection, in the given stage.
Queries(r, stage) == pc[r] = stage /\ session[r]

Todo(r) == (1 .. Knows[r]) \ applied[r]

IsNext(r, v) == v \in Todo(r) /\ \A w \in Todo(r) : v <= w

Fault == faults < MaxFaults /\ faults' = faults + 1

\* A session that ends gives back the lock it holds.
Unlocked(r) == IF lock = r THEN NULL ELSE lock

-----------------------------------------------------------------------------

Start(r) ==
  /\ pc[r] = "down"
  /\ Goto(r, "lock")
  /\ session' = [session EXCEPT ![r] = TRUE]
  /\ applied' = [applied EXCEPT ![r] = {}]
  /\ UNCHANGED <<lock, databaseVars, faults>>

\* GET_LOCK
AcquireLock(r) ==
  /\ Queries(r, "lock")
  /\ lock = NULL
  /\ lock' = r
  /\ Goto(r, "read")
  /\ UNCHANGED <<session, applied, databaseVars, faults>>

\* The lock is not given back in time: a statement of its holder hangs.
TimeOut(r) ==
  /\ Queries(r, "lock")
  /\ lock # NULL
  /\ Fault
  /\ Goto(r, "abort")
  /\ UNCHANGED <<session, applied, lock, databaseVars>>

\* The migrations table is created unless it exists, and read; a database that
\* is newer than this release is left alone.
Read(r) ==
  /\ Queries(r, "read")
  /\ IF \E v \in recorded : v > Knows[r]
     THEN Goto(r, "abort") /\ UNCHANGED applied
     ELSE /\ applied' = [applied EXCEPT ![r] = recorded]
          /\ Goto(r, IF (1 .. Knows[r]) \subseteq recorded THEN "release" ELSE "apply")
  /\ UNCHANGED <<session, lock, databaseVars, faults>>

\* What version v makes of the table: version 1 is CREATE TABLE IF NOT EXISTS,
\* the others MODIFY it, to what it was at their time.
Migrated(v) == IF v = 1 /\ schema # 0 THEN schema ELSE v

\* Mutant of Apply: the statement is run on any connection of the pool.
ApplyOnPool(r) ==
  /\ pc[r] = "apply"
  /\ \E v \in Todo(r) : IsNext(r, v) /\ schema' = Migrated(v)
  /\ Goto(r, "record")
  /\ UNCHANGED <<session, applied, lock, recorded, faults>>

Apply(r) ==
  /\ Queries(r, "apply")
  /\ \E v \in Todo(r) : IsNext(r, v) /\ schema' = Migrated(v)
  /\ Goto(r, "record")
  /\ UNCHANGED <<session, applied, lock, recorded, faults>>

\* INSERT; the primary key refuses a version that is there already.
Record(r) ==
  /\ Queries(r, "record")
  /\ \E v \in Todo(r) :
       /\ IsNext(r, v)
       /\ v \notin recorded
       /\ recorded' = recorded \cup {v}
       /\ applied' = [applied EXCEPT ![r] = @ \cup {v}]
       /\ Goto(r, IF Todo(r) = {v} THEN "release" ELSE "apply")
  /\ UNCHANGED <<session, lock, schema, faults>>

\* Mutant of ReleaseLock: the lock is left to the connection.
KeepLock(r) ==
  /\ \/ pc[r] = "release" /\ Goto(r, IF r \in MigrateOnly THEN "done" ELSE "serving")
     \/ pc[r] = "abort" /\ Goto(r, "down")
  /\ session' = [session EXCEPT ![r] = @ /\ pc'[r] = "serving"]
  /\ lock' = IF session'[r] THEN lock ELSE Unlocked(r)
  /\ UNCHANGED <<applied, databaseVars, faults>>

\* finally: RELEASE_LOCK, whose failure is ignored; it does nothing in a session
\* that does not hold the lock.  Then main() goes on, or exits.
ReleaseLock(r) ==
  /\ \/ pc[r] = "release" /\ Goto(r, IF r \in MigrateOnly THEN "done" ELSE "serving")
     \/ pc[r] = "abort" /\ Goto(r, "down")
  /\ session' = [session EXCEPT ![r] = @ /\ pc'[r] = "serving"]
  /\ lock' = Unlocked(r)
  /\ UNCHANGED <<applied, databaseVars, faults>>

\* Mutant of Throws: a failed statement is logged and passed over.
PassesOver(r) ==
  /\ pc[r] \in {"lock", "read", "apply", "record"}
  /\ IF session[r] THEN Fault ELSE UNCHANGED faults
  /\ Goto(r, IF session[r] /\ pc[r] = "apply" THEN "record" ELSE "abort")
  /\ UNCHANGED <<session, applied, lock, databaseVars>>

\* A query fails: its session is gone, or the statement fails by itself.
Throws(r) ==
  /\ pc[r] \in {"lock", "read", "apply", "record"}
  /\ IF session[r] THEN Fault ELSE UNCHANGED faults
  /\ Goto(r, "abort")
  /\ UNCHANGED <<session, applied, lock, databaseVars>>

\* Mutant of LoseSession: a lock that is not tied to the session.
LockOutlives(r) ==
  /\ session[r]
  /\ Fault
  /\ session' = [session EXCEPT ![r] = FALSE]
  /\ UNCHANGED <<pc, applied, lock, databaseVars>>

\* The server ends the session; the replica will find out with its next query.
LoseSession(r) ==
  /\ session[r]
  /\ Fault
  /\ session' = [session EXCEPT ![r] = FALSE]
  /\ lock' = Unlocked(r)
  /\ UNCHANGED <<pc, applied, databaseVars>>

\* The process dies.
Crash(r) ==
  /\ pc[r] \notin {"down", "done"}
  /\ Fault
  /\ Goto(r, "down")
  /\ session' = [session EXCEPT ![r] = FALSE]
  /\ lock' = Unlocked(r)
  /\ UNCHANGED <<applied, databaseVars>>

Migrate(r) ==
  \/ Start(r) \/ Read(r) \/ Apply(r) \/ Record(r) \/ ReleaseLock(r)
  \/ ~session[r] /\ Throws(r)

Next ==
  \E r \in Replica :
    \/ Migrate(r) \/ AcquireLock(r)
    \/ TimeOut(r) \/ Throws(r) \/ LoseSession(r) \/ Crash(r)

Spec == Init /\ [][Next]_vars

\* A replica goes on while it can, is started again when it exits, and does not
\* wait in vain for a lock that comes free again and again.
FairSpec ==
  /\ Spec
  /\ \A r \in Replica : WF_vars(Migrate(r)) /\ SF_vars(AcquireLock(r))

-----------------------------------------------------------------------------
(* Properties *)

\* A replica serves only a database that has every migration it knows: applied,
\* not just recorded, whoever applied it and whatever failed in between.
ServingIsMigrated ==
  \A r \in Replica : pc[r] \in {"serving", "done"} =>
    /\ (1 .. Knows[r]) \subseteq recorded
    /\ Knows[r] <= schema

\* No migration is run after a later one: a replica that lost the lock while it
\* migrated cannot turn the table back under the one that has it now.
SchemaNeverRegresses == [][schema <= schema']_vars

\* The inductive invariant behind both.  The lock goes with the session;
LockIsHeld ==
  /\ lock # NULL => session[lock]
  /\ \A r \in Replica :
       session[r] /\ pc[r] \in {"read", "apply", "record"} => lock = r

\* the table is at the last version recorded, or one further if a replica
\* stopped between the two statements;
RecordedAsApplied ==
  /\ (1 .. (schema - 1)) \subseteq recorded
  /\ recorded \subseteq 1 .. schema

\* and what the lock's holder has read stays true.
ReadIsCurrent ==
  \A r \in Replica :
    /\ session[r] /\ pc[r] \in {"apply", "record"} =>
         applied[r] = recorded /\ Todo(r) # {}
    /\ session[r] /\ pc[r] = "record" => schema \in Todo(r)
    /\ pc[r] \in {"release", "serving", "done"} => (1 .. Knows[r]) \subseteq recorded

MigrationInv ==
  /\ MigrationTypeOK
  /\ LockIsHeld
  /\ RecordedAsApplied
  /\ ReadIsCurrent

\* Whatever the replicas are, and whenever they start, lose the lock or die, the
\* schema has the history it would have with one migrator that is never disturbed:
\* a migration that is run again, since its record was lost, changes nothing.
History == INSTANCE SchemaHistory WITH version <- schema, history <- recorded

ImplementsSchemaHistory == History!Spec

\* Every replica of the newest release comes up in the end, however many others
\* start with it, die on the way or keep failing on the newer database.
EventuallyUp ==
  \A r \in Replica : (\A s \in Replica : Knows[s] <= Knows[r]) =>
    (pc[r] = "down" ~> pc[r] \in {"serving", "done"})
=============================================================================

--------------------------- MODULE SchemaHistory ---------------------------
(***************************************************************************)
(* What migrateDatabase() promises of the schema, without replicas, locks, *)
(* sessions or faults: the history of a database that one process migrates *)
(* alone.  Versions are applied one after another, each of them once, and  *)
(* none before the one under it is recorded.                               *)
(***************************************************************************)
EXTENDS Integers

VARIABLES
  version,    \* the migration the schema is at; 0 before the first
  history     \* the migrations that are recorded

historyVars == <<version, history>>

\* A new database, one from before there were migrations, or one that was made
\* by hand with two of them.
Init ==
  \/ version \in {0, 1} /\ history = {}
  \/ version = 2 /\ history = {1, 2}

Advance ==
  /\ version \in history \cup {0}
  /\ version' = version + 1
  /\ UNCHANGED history

Write ==
  /\ version \notin history \cup {0}
  /\ history' = history \cup {version}
  /\ UNCHANGED version

Next == Advance \/ Write

Spec == Init /\ [][Next]_historyVars
=============================================================================

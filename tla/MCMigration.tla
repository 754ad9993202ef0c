---------------------------- MODULE MCMigration ----------------------------
(* Migration with three replicas: two of the newest release, one of which   *)
(* only migrates, and one of the release before it.                         *)
EXTENDS Migration

CONSTANTS r1, r2, r3

Releases == [r \in Replica |-> IF r = r3 THEN 2 ELSE 3]
=============================================================================

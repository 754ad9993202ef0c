SPECIFICATION FairSpec
CHECK_DEADLOCK FALSE
CONSTANTS
  NULL = NULL
  r1 = r1
  r2 = r2
  r3 = r3
  Replica = {r1, r2, r3}
  Knows <- Releases
  MigrateOnly = {r2}
  MaxFaults = 2
INVARIANTS
  ServingIsMigrated
  MigrationInv
PROPERTIES
  ImplementsSchemaHistory
  EventuallyUp

SPECIFICATION FairSpec
CONSTANTS
  NULL = NULL
  Job = {j1, j2}
  Queue = {q1}
  Reaper = {reaper1, reaper2}
  MaxRetries = 2
  RunAfter <- Delays
  AckGrace = 1
  Lease = 2
  Extend <- Extends
  NackBackoff = 1
  ReapBatch = 1
  BackoffBase = 1
  BackoffCap = 2
  BackoffJitter = 2
INVARIANTS
  RetryBudget
  ResultOfLastLease
  IInv
PROPERTIES
  TerminalIsFinal
  LeaseIsNeverHandedOver
  EveryMoveCounts
  ImplementsLifecycle
  ExpiredIsReaped

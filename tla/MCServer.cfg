SPECIFICATION FairServerSpec
CONSTANTS
  q1 = q1
  NULL = NULL
  Job = {j1}
  Queue = {q1}
  Reaper = {reaper1}
  Loop = {loop1, loop2}
  QueueOf <- OneQueue
  MaxRetries = 1
  RunAfter <- AtOnce
  AckGrace = 0
  Lease = 1
  Extend <- NoExtend
  NackBackoff = 1
  ReapBatch = 1
  BackoffBase = 0
  BackoffCap = 0
  BackoffJitter = 0
  MaxStops = 2
INVARIANTS
  SucceededIsEarned
  FailedIsJustified
  EnduroqInv
  ServerInv
  GracefulStop
PROPERTIES
  AckKeepsHeartbeat
  AskedOnce
  EventuallySettled
  ShutdownEnds

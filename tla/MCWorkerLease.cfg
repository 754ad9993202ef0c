SPECIFICATION LeaseSpec
CONSTANTS
  NULL = NULL
  Job = {j1}
  Queue = {q1}
  Reaper = {reaper1}
  Watched <- First
  Slot = {s1, s2}
  MaxRetries = 1
  RunAfter <- AtOnce
  AckGrace = 3
  Lease = 2
  Extend <- Shorter
  LeaseExtend = 1
  MinInterval = 0
  HeartbeatInterval = 0
  ResultRetries = 0
  NackBackoff = 0
  ReapBatch = 1
  BackoffBase = 0
  BackoffCap = 0
  BackoffJitter = 0
INVARIANTS
  BeliefInv
  BeliefIsCovered
  OverrunInv
  OverrunIsBounded

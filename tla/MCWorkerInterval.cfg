SPECIFICATION SdkSpec
CONSTANTS
  NULL = NULL
  Job = {j1}
  Queue = {q1}
  Reaper = {reaper1}
  Watched <- First
  Slot = {s1, s2}
  MaxRetries = 0
  RunAfter <- AtOnce
  AckGrace = 6
  Lease = 6
  Extend <- NoExtend
  LeaseExtend = 6
  MinInterval = 1
  HeartbeatInterval = 1
  ResultRetries = 0
  NackBackoff = 0
  ReapBatch = 1
  BackoffBase = 0
  BackoffCap = 0
  BackoffJitter = 0
INVARIANTS
  BeatsAsAsked

SPECIFICATION SdkSpec
CONSTANTS
  NULL = NULL
  Job = {j1}
  Queue = {q1}
  Reaper = {reaper1}
  Watched <- First
  Slot = {s1, s2}
  MaxRetries = 1
  RunAfter <- AtOnce
  AckGrace = 2
  Lease = 2
  Extend <- NoExtend
  LeaseExtend = 2
  MinInterval = 1
  HeartbeatInterval = 1
  ResultRetries = 0
  NackBackoff = 0
  ReapBatch = 1
  BackoffBase = 0
  BackoffCap = 0
  BackoffJitter = 0
PROPERTIES
  OkCarriesOwnExpiry

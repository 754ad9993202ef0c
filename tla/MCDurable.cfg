SPECIFICATION Spec
CHECK_DEADLOCK FALSE
CONSTANTS
  NULL = NULL
  Job = {j1}
  Conn = {c1, c2}
  MaxRetries = 1
  MaxFaults = 2
INVARIANTS
  AcceptedIsKept

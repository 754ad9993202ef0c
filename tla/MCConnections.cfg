SPECIFICATION Spec
CONSTANTS
  NULL = NULL
  Job = {j1, j2}
  Conn = {c1, c2}
  MaxRetries = 1
  MaxFaults = 2
SYMMETRY Alike
INVARIANTS
  CancelIsKept
  ConnectionsInv
PROPERTIES
  DispatchIsCommitted
  CommittedIsKept
  ImplementsDurableJobs

\* Two callers: any answer lost, a request refused, a revocation, a batch that expires.
SPECIFICATION RaceSpec
CONSTANTS
  n1 = n1  n2 = n2  b1 = b1  b2 = b2  t1 = t1
  Client = {c1, c2}
  Name = {n1, n2}
  Batch = {b1, b2}
  Requests <- AllRequests
  NoCommand = NoCommand
  TenantOf <- OneTenant
  Lifetime = 1
  NoRow = NoRow
  NoValue = NoValue
  MaxCalls = 3
  MaxRefusals = 1
  MaxRevokes = 1
  MaxClock = 1
INVARIANTS TypeOK RefusedRenameStays
PROPERTIES OnePlace NothingLost
CHECK_DEADLOCK FALSE
SYMMETRY Symmetry

\* The whole procedure among serving processes.
SPECIFICATION RFairSpec
CONSTANTS
  s1 = s1  s2 = s2  op = op  k1 = k1  k2 = k2  b1 = b1  t1 = t1  u1 = u1  x1 = x1
  old = old  new = new
  Call = {s1, s2, op}
  Server = {s1, s2}
  Operator = op
  OldKey = old
  NewKey = new
  Ref = {k1, k2}
  MalformedRef = {}
  Batch = {b1}
  TenantOf <- MCTenantOf
  Owner = {u1}
  Value = {x1}
  Key = {old, new}
  Requests <- RotationRequests
  InitialKeyring <- OldKeyrings
  Lifetime = 1
  MaxCalls = 3
  MaxFaults = 1
  MaxClock = 0
  Nobody = Nobody
  NoRow = NoRow
  Untouched = Untouched
  NoValue = NoValue
INVARIANTS EveryServerOpensEverything NothingNamesRetiredKey
PROPERTIES RotationCompletes
CHECK_DEADLOCK FALSE

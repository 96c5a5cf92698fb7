\* A batch, its expiry and single calls, against the abstract store.
SPECIFICATION Spec
CONSTANTS
  c1 = c1  c2 = c2  c3 = c3  k1 = k1  k2 = k2  bad = bad  b1 = b1  b2 = b2  b3 = b3
  t1 = t1  t2 = t2  u1 = u1  u2 = u2  x1 = x1  x2 = x2  old = old  new = new
  Call = {c1, c2}
  Ref = {k1, bad}
  MalformedRef = {bad}
  Batch = {b1, b2}
  TenantOf <- MCTenantOf
  Owner = {u1, u2}
  Value = {x1, x2}
  Key = {new}
  Requests <- BatchRequests
  InitialKeyring <- OneKey
  Lifetime = 1
  MaxCalls = 4
  MaxFaults = 1
  MaxClock = 1
  Nobody = Nobody
  NoRow = NoRow
  Untouched = Untouched
  NoValue = NoValue
INVARIANTS HeldBatchInTime
PROPERTIES Refinement
CHECK_DEADLOCK FALSE

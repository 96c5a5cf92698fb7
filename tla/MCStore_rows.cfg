\* Single calls on one reference, and two batches that take two rows in opposite orders.
SPECIFICATION FairSpec
CONSTANTS
  c1 = c1  c2 = c2  c3 = c3  k1 = k1  k2 = k2  bad = bad  b1 = b1  b2 = b2  b3 = b3
  t1 = t1  t2 = t2  u1 = u1  u2 = u2  x1 = x1  x2 = x2  old = old  new = new
  Call = {c1, c2}
  Ref = {k1, k2}
  MalformedRef = {}
  Batch = {b1, b3}
  TenantOf <- MCTenantOf
  Owner = {u1, u2}
  Value = {x1, x2}
  Key = {new}
  Requests <- CallRequests
  InitialKeyring <- OneKey
  Lifetime = 1
  MaxCalls = 4
  MaxFaults = 1
  MaxClock = 0
  Nobody = Nobody
  NoRow = NoRow
  Untouched = Untouched
  NoValue = NoValue
INVARIANTS VersionsDense CurrentVersionOpens AuditMatchesTables
PROPERTIES EveryCallAnswered
CHECK_DEADLOCK FALSE

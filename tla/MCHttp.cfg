\* Requests of two tenants, users and workloads.
SPECIFICATION RaceSpec
CONSTANTS
  k1 = k1  k2 = k2  k3 = k3  b1 = b1  t1 = t1  t2 = t2  u1 = u1  u2 = u2
  w1 = w1  w2 = w2  x1 = x1
  user1 = user1  work1 = work1  work2 = work2  reader = reader  junk = junk
  Call = {c1, c2}
  Ref = {k1, k2, k3}
  MalformedRef = {}
  Batch = {b1}
  TenantOf <- MCTenantOf
  Token = {user1, work1, work2, reader, junk}
  Authority <- MCAuthority
  Requests <- MCRequests
  Lifetime = 1
  MaxCalls = 4
  MaxClock = 1
  NoRow = NoRow
  NoValue = NoValue
  NoPrincipal = NoPrincipal
  NoOwner = NoOwner
SYMMETRY CallSymmetry
PROPERTIES EffectsAuthorized UserActsOnlyOnOwned
CHECK_DEADLOCK FALSE

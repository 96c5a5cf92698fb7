\* Two operations of one process, a delete of another, store calls that fail, a death.
SPECIFICATION Spec
CONSTANTS
  a = a  b = b  p1 = p1  p2 = p2  c1 = c1  c2 = c2  c3 = c3
  Client = {c1, c2, c3}
  Process = {p1, p2}
  ProcessOf <- TwoProcesses
  Name = {a, b}
  Requests <- RequestsOf
  NoRequest = NoRequest
  Nobody = Nobody
  LateFaults = FALSE
  MaxCalls = 4
  MaxFaults = 2
  MaxDeaths = 1
SYMMETRY ClientSymmetry
INVARIANTS TypeOK OneNameEach
PROPERTIES NothingLost CreatedOverwritesNothing
CHECK_DEADLOCK FALSE

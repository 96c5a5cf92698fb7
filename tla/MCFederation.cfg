\* Two commands at once, any of them failing at any step.
SPECIFICATION RaceSpec
CONSTANTS
  c1 = c1  c2 = c2  dn = dn  wn = wn  kc = kc  rm = rm  op = op  n1 = n1  n2 = n2  loc = loc
  Command = {c1, c2}
  Namespace = {dn, wn}
  DefaultNamespace = dn
  Backend = {kc, rm, op}
  DefaultBackend = kc
  Name = {n1, n2}
  Locator = {loc}
  NoMount = NoMount
  Absent = Absent
  Requests <- AllRequests
  Environments <- MCEnvironments
  Capabilities <- MCCapabilities
  BindingRequired = {op}
  Remotes = {rm}
  NoRequest = NoRequest
  NoBackend = NoBackend
  MaxOpen = 2
  MaxCalls = 4
  MaxFaults = 1
SYMMETRY Processes
INVARIANTS TypeOK
PROPERTIES SecretsReachable BindingsHaveNamespace BindingsNeverMove
CHECK_DEADLOCK FALSE

\* Scenarios of up to MaxCalls commands that reach the stack, in the library and in the CLI.
SPECIFICATION WorldSpec
CONSTANTS
  me = me  dn = dn  wn = wn  kc = kc  rm = rm  vault = vault  ro = ro  rw = rw
  n1 = n1  nf = nf  loc = loc
  Command = {me}
  Namespace = {dn, wn}
  DefaultNamespace = dn
  Backend = {kc, rm, vault, ro, rw}
  DefaultBackend = kc
  Name = {n1, nf}
  Locator = {loc}
  NoMount = NoMount
  Absent = Absent
  Requests <- MCRequests
  Environments <- MCEnvironments
  Capabilities <- MCCapabilities
  BindingRequired = {vault, ro}
  Remotes = {rm}
  NoRequest = NoRequest
  NoBackend = NoBackend
  MaxOpen = 1
  MaxCalls = 2
  MaxFaults = 0
  Targets = {"library", "cli"}
  Inputs <- MCInputs
  Kind <- MCKind
  Fakes = {vault, ro, rw}
  ReadOnlyFake = ro
  ReadWriteFake = rw
  FixtureName = nf
  FixtureLocator = loc
  NoInput = NoInput
  Outcomes <- MCOutcomes
INVARIANTS TrueBranch ArrangedHolds ForcedTaken ViewShowsAll
PROPERTIES FaultSpent

\* Two processes, three changes between them, one fault and one loss of power.
SPECIFICATION FairSpec
CONSTANTS
  p1 = p1  p2 = p2  dn = dn  wn = wn  kc = kc  rm = rm  n1 = n1  loc = loc
  Client = {p1, p2}
  Namespace = {dn, wn}
  DefaultNamespace = dn
  Backend = {kc, rm}
  DefaultBackend = kc
  Name = {n1}
  Locator = {loc}
  NoMount = NoMount
  Absent = Absent
  Changes <- ConfigChanges
  Written <- HandWritten
  NoChange = NoChange
  Nobody = Nobody
  Torn = Torn
  MaxCalls = 3
  MaxFaults = 1
  MaxLosses = 1
INVARIANTS TypeOK WholeFile
PROPERTIES AnsweredIsDurable Refinement ChangesAnswered

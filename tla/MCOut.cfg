\* Two commands read into one path.
SPECIFICATION Spec
CONSTANTS
  p1 = p1  p2 = p2
  Process = {p1, p2}
  Nothing = Nothing
  MaxFaults = 3
  MaxOthers = 3
INVARIANTS WholeOrNothing AnswerTellsFile TempRemoved
PROPERTIES NeverReplaces
CHECK_DEADLOCK FALSE

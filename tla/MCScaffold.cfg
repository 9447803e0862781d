CONSTANTS
  Procs = {p1, p2}
  Paths = {q1, q2}
  Exports = {1, 2}
  CutsOf <- MCCutsOf
  MaxEdits = 2
  User = User
  Absent = Absent
SPECIFICATION Spec
INVARIANTS
  OkMeansComplete
  WriteErrorMeansGone
PROPERTIES
  OthersOutputsUntouched
  ActiveAnchorsKept
  IndexNeverBreaks
CHECK_DEADLOCK FALSE

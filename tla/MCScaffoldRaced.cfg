CONSTANTS
  Procs = {p1, p2}
  Paths = {q1, q2}
  Exports = {1, 2}
  CutsOf <- MCCutsOf
  MaxEdits = 0
  User = User
  Absent = Absent
SPECIFICATION Spec
PROPERTIES
  GeneratesNewOnly
CHECK_DEADLOCK FALSE

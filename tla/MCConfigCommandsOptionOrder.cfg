CONSTANTS
  a1 = a1
  a2 = a2
  f1 = f1
  f2 = f2
  Procs = {p1}
  Anchors = {a1}
  Files = {f1, f2}
  Requests <- MCRequests
  Checkouts <- MCCheckouts
  Configs <- MCConfigs
  MaxEdits = 0
  Exclusive = TRUE
  Absent = Absent
  Invalid = Invalid
  None = None
SPECIFICATION Spec
INVARIANTS
  OptionOrderIrrelevant
CHECK_DEADLOCK FALSE

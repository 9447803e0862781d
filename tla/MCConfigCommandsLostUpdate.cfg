CONSTANTS
  a1 = a1
  a2 = a2
  f1 = f1
  f2 = f2
  Procs = {p1, p2}
  Anchors = {a1, a2}
  Files = {f1, f2}
  Requests <- MCRacedRequests
  Checkouts <- MCRacedCheckouts
  Configs <- MCRacedConfigs
  MaxEdits = 0
  Exclusive = FALSE
  Absent = Absent
  Invalid = Invalid
  None = None
SPECIFICATION Spec
PROPERTIES
  MapTouchesItsAnchorOnly
CHECK_DEADLOCK FALSE

CONSTANTS
  f1 = f1
  f2 = f2
  f3 = f3
  a1 = a1
  Anchors = {a1, a2}
  Files = {f1, f2, f3}
  Inputs <- MCInputs
  None = None
SPECIFICATION FairSpec
INVARIANTS
  ReachedExact
  AnchorsAccounted
  UntracedRule
  MetricsAgree
PROPERTIES
  ScanEnds
CHECK_DEADLOCK FALSE

CONSTANTS
  w1 = w1
  w2 = w2
  pidA = pidA
  pidB = pidB
  Writers = {w1, w2}
  Pids = {pidA}
  PidOf <- MCPidOf
  Candidates = 2
  Size = 2
  Initial = Initial
  Foreign = Foreign
  Absent = Absent
SPECIFICATION FairSpec
INVARIANTS
  DiskTargetComplete
  FailedNeverVisible
PROPERTIES
  WriteErrorMeansClean
  ForeignTempsUntouched
  ImplementsStore
  EveryAttemptEnds
CHECK_DEADLOCK FALSE

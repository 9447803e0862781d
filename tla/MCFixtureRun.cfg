CONSTANTS
  NONE = NONE
  NoValue = NONE
  a = a
  b = b
  r1 = r1
  Runners = {r1, r2}
  Catalog <- MCCatalog
  Selections <- MCSelections
  Outputs = {a}
  Codes = {0, 1}
  MaxChunks = 2
  TreesAfter <- MCTreesAfter
  Traces <- MCTraces
  MaxFaults = 1
SPECIFICATION FairSpec
INVARIANTS
  PassMeansObserved
  VerdictJustified
  CleanedUp
  ExitZeroMeansAllPassed
PROPERTIES
  ResultsKept
  EveryRunnerEnds
CHECK_DEADLOCK FALSE

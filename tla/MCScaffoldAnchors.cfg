CONSTANTS
  Ids <- MCIds
  Kinds <- MCKinds
  Codes <- MCCodes
  Specs <- MCSpecs
  MaxEdits = 1
SPECIFICATION Spec
INVARIANTS
  CollisionsAcrossBases
  RerunAddsNothing
CHECK_DEADLOCK FALSE

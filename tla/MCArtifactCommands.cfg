SPECIFICATION Spec
CONSTANTS
  Anchors <- MCAnchors
  Paths <- MCPaths
  Texts <- MCTexts
  Wrong = Wrong
  Null = Null
  Refused = Refused
  OtherDashed = {"-x"}
  AnchorTokens <- MCAnchorTokens
  PathTokens <- MCPathTokens
  Projects <- MCProjects
  Inputs <- MCInputs
  ArgLists <- MCArgLists
  AnchorOf <- MCAnchorOf
  PathOf <- MCPathOf
  ToolVersion = "version"
  MaxActions = 3
  MaxEdits = 1
INVARIANTS
  WhatIsWrittenIsRead
  GateExact
  DiffReconstructs
  ExplainShortest
  OptionsInAnyOrder
CHECK_DEADLOCK FALSE

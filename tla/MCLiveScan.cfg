CONSTANTS
  None = None
  Broken = Broken
  Paths <- MCPaths
  Above <- MCAbove
  Parent <- MCParent
  ProductRoot = "src"
  SpecRoots = {"specs", "src/Docs"}
  Ignored <- MCIgnored
  LowerCase <- MCLowerCase
  TsNames <- MCTsNames
  SpecNames <- MCSpecNames
  OddNames <- MCOddNames
  RootTsconfig = "tsconfig.json"
  Tsconfigs = {"tsconfig.json", "lib/base.json"}
  Anchors = {"a1", "a2"}
  Names <- MCNames
  Relative = {"./a", "./b", "./d", "./d/x", "./e", "./gen/g", "../lib/l"}
  Stems <- MCStems
  StemOf <- MCStemOf
  Place <- MCPlace
  AliasPrefixes = {"@/", "@/d/"}
  PrefixLength <- MCPrefixLength
  Splice <- MCSplice
  Dirs <- MCDirs
  DirOf <- MCDirOf
  Below <- MCBelow
  RootDir = ""
  PublicDirs = {"src", "src/src", "src/lib"}
  Checkouts <- MCCheckouts
  InitialCheckouts <- MCCheckouts
  MaxCheckouts = 1
  Mappings <- MCMappings
SPECIFICATION FairRunSpec
INVARIANTS
  OutcomeExact
  ProductExact
  OneView
  GraphExact
  ReportExact
PROPERTIES
  RunEnds
CHECK_DEADLOCK FALSE

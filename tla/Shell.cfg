SPECIFICATION ShellSpec
CHECK_DEADLOCK FALSE
VIEW MCView
CONSTANTS
  Clusters <- MCClusters
  Root = 2
  SlotsPerBlock = 2
  Names = {"F", "D"}
  Stored <- MCStored
  Paths <- MCPaths
  Texts = {"x", "y"}
  Contents <- MCContents
  AnyParent = FALSE
  MaxWrites = 13
  MaxFaults = 0
  Data <- MCData
  MaxCalls = 4
  MaxOpens = 2
  MaxSize = 4
INVARIANTS
  ShellTypeOK
  OpenFilesKeepVolume
PROPERTIES
  CommandsLookFirst
  WritesStayInFile
  StaleNeedsReplacement

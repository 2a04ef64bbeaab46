SPECIFICATION Spec
CONSTANTS
  Clusters <- MCClusters
  Root = 2
  SlotsPerBlock = 2
  Names = {"F", "D"}
  Stored <- MCStored
  Paths <- MCPaths
  Texts = {"x", "y"}
  Contents <- MCContents
  AnyParent = FALSE
  MaxWrites = 13
  MaxFaults = 1
INVARIANTS
  TypeOK
  NoCrossLinks
  DirectoriesWellFormed
PROPERTIES
  DamageNeedsWindow
  LeaksNeedFailure
  ImplementsFileTree

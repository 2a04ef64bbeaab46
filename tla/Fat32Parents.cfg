SPECIFICATION Spec
CONSTANTS
  Clusters <- MCClusters
  Root = 2
  SlotsPerBlock = 2
  Names = {"F", "D"}
  Stored <- MCStored
  Paths <- MCPaths
  Texts = {"x", "y"}
  Contents <- MCContents
  AnyParent = TRUE
  MaxWrites = 13
  MaxFaults = 0
INVARIANT
  ParentsAreDirectories

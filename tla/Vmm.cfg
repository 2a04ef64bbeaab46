SPECIFICATION Spec
CONSTANTS
  TotalFrames = 7
  FrameSize = 2
  UsizeModulus = 16
  StandardRanges <- MCStandard
  Fanout = 3
  FlagBits = {"writable", "user", "no_execute"}
  ParentBits = {"writable", "user"}
  BootHugePages = 3
  BootFlags <- MCBootFlags
  Virts <- MCVirts
  Phys <- MCPhys
  Ranges <- MCRanges
  Given <- MCGiven
  MaxOps = 2
  MaxOthers = 1
INVARIANTS
  TypeOK
  ValidateHolds
  RegionsMatchTables
  TakenFramesAreOwned
PROPERTIES
  ImplementsPageMap
CHECK_DEADLOCK FALSE

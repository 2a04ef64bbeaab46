SPECIFICATION Spec
CONSTANTS
  TotalFrames = 7
  FrameSize = 2
  UsizeModulus = 16
  StandardRanges <- MCStandard
  MemMaps <- MCMaps
  Addrs <- MCAddrs
  Counts <- MCCounts
  LateRegions <- MCLate
  ValidationModes = {TRUE}
  MaxCounter = 1
INVARIANTS
  TypeOK
  CountMatches
  NextFreeIsFree
  BootReservesNonRam
  LargestBlockIsAllocatable
PROPERTIES
  SelfTestIsNeutral
  ImplementsFrameStore

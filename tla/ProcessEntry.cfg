SPECIFICATION Spec
CONSTANTS
  TotalFrames = 32
  FrameSize = 4
  UsizeModulus = 64
  StandardRanges <- MCStandard
  Fanout = 6
  FlagBits = {"writable", "user"}
  ParentBits = {"writable", "user"}
  KernelRW = {"writable"}
  UserRO = {"user"}
  UserRW = {"writable", "user"}
  BootHugePages = 5
  BootFlags = {"writable"}
  MaxProcesses = 2
  UserStackTop = 2584
  UserStackSize = 8
  KernelStackSize = 8
  ContextSize = 1
  ContextEntries = {2, 3, 4, 5}
  SelectorEntries = {2, 5}
  KernelPages = {2, 3}
  Images <- MCImages
  MemorySizes <- MCMemorySizes
  MaxFailed = 5
  MaxOthers = 2
INVARIANTS
  EntryIsMapped

SPECIFICATION LiveSpec
CONSTANTS
  Strikes <- MCAllStrikes
  MainDevices = {"vga", "serial"}
  MaxStrikes = 2
INVARIANTS
  TypeOK
  LockedMeansMasked
  PanicStaysMasked
PROPERTY
  PanicReports
CHECK_DEADLOCK FALSE

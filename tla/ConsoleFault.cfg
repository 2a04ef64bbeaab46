SPECIFICATION LiveSpec
CONSTANTS
  Strikes = {"page_fault"}
  MainDevices = {"vga"}
  MaxStrikes = 1
PROPERTY
  PageFaultHalts
CHECK_DEADLOCK FALSE

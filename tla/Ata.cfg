SPECIFICATION Spec
CONSTANTS
  Capacity = 3
  LbaModulus = 4
  U32Modulus = 8
  Value = {"a", "b"}
  MaxRetries = 3
  PollTimeout = 2
  Requests <- MCRequests
INVARIANTS
  TypeOK
  ReadReturnsDisk
  WriteIsDurable
  FailureIsPrefix
PROPERTIES
  CallsEnd

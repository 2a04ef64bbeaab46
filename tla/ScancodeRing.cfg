SPECIFICATION LiveSpec
CONSTANTS
  Size = 4
  Codes = {z, k}
  Zero = z
  NoCode = NoCode
INVARIANTS
  TypeOK
  HandlerNeverSpins
PROPERTIES
  ImplementsQueue
  EveryByteReceived
  KeyboardServed

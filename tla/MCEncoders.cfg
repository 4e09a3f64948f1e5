CONSTANTS
  MaxCalls = 4
  MaxHeld = 2
  Hints = {h1}
  Constraints = {k1, k2}
  NoAu = NoAu
  Bytes <- MCBytes
  MaxLen = 6
  Sizes = {1, 2}
  Sets <- MCSets
SPECIFICATION MCSpec
INVARIANTS
  PartsTypeOK
  CallbackContained
  ConversionExact
PROPERTY ImplementsSeam
CHECK_DEADLOCK FALSE

CONSTANTS
  Sizes = {s1, s2}
  U32 = 4
  QueueBound = 2
  DamageDriven = TRUE
  NoFrame = NoFrame
SPECIFICATION Spec
INVARIANT TypeOK
PROPERTIES
  ResolutionChangesAtIdr
  
  RequestNotLost
  NewestSizeWins
  ClosedStopsThread
CHECK_DEADLOCK FALSE

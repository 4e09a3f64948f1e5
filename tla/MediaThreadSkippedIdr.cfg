CONSTANTS
  Sizes = {s1, s2}
  U32 = 4
  QueueBound = 2
  DamageDriven = TRUE
  NoFrame = NoFrame
SPECIFICATION Spec
PROPERTY NextFrameAnswersRequest
CHECK_DEADLOCK FALSE

CONSTANTS
  LastSeq = 5
  Count <- MCCount
  Keyframes <- MCKeyframes
  Window = 2
  RateLimit = 2
  MaxTime = 4
  StaleCap = 1
  MAX_PAYLOAD = 2
  U16 = 4
  Displays = 2
  Foreign <- MCForeign
  Bodies <- MCBodies
  MaxFrames = 2
  InFlight = 3
  MaxAsked = 2
SPECIFICATION MCSpec
INVARIANTS
  PartsTypeOK
  CountersBalance
  FramesRestored
  AcceptedAsBuilt
PROPERTIES
  FateIsFinal
  ImplementsFrameStream
  FreezeEnds
  RequestsEnd
CHECK_DEADLOCK FALSE

CONSTANTS
  MinDim = 4
  HostMax <- MCHostMax
  U64 = 16
  U16 = 4
  InitSize <- MCInitSize
  HasExtras = TRUE
  Dims <- MCDims
  StreamKeys <- MCStreamKeys
  MaxGeneration = 4
  ClientHellos <- MCClientHellos
  ClientRequests <- MCClientRequests
  QueueBound = 3
  Inline = 2
  Radix = 3
  LenBytes = 4
  MAX_FRAME_BODY = 30
  EncodeItem <- Encode
  DecodeItem <- Decode
  WireMessages <- MCWireMessages
  Foreign <- MCForeign
  MaxFrames = 2
  WINDOW = 2
  Thetas <- MCThetas
  Starts <- MCStarts
  MaxLeg = 2
  MaxPushes = 4
SPECIFICATION PartsSpec
INVARIANTS
  PartsTypeOK
  NoFalseAccusation
  ActiveIsAcked
  QuietAgreement
  StreamReadFaithfully
  EstimateTrustworthy
PROPERTIES
  NegotiationsComplete
  FinishedIsNoticed
CHECK_DEADLOCK FALSE

CONSTANTS
  MinDim = 4
  HostMax <- MCHostMax
  U64 = 16
  U16 = 4
  InitSize <- MCInitSize
  HasExtras = TRUE
  Dims <- MCDims
  StreamKeys <- MCStreamKeys
  MaxGeneration = 4
SPECIFICATION Spec
INVARIANT WithinClientMax

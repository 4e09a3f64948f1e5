CONSTANTS
  MinDim = 4
  HostMax <- MCHostMax
  U64 = 16
  U16 = 4
  InitSize <- MCInitSize
  HasExtras = TRUE
  Dims = {5}
  StreamKeys = {0}
  MaxGeneration = 2
  Conns = {c1, c2}
  Primary = primary
  Extras = {extra}
SPECIFICATION HostSpec
PROPERTY CloseFlushes
CHECK_DEADLOCK FALSE

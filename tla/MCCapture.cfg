CONSTANTS
  Buffers = {b1, b2, b3}
  MaxFrames = 4
  Displays = {d1, d2}
SPECIFICATION MCSpec
INVARIANTS
  BuffersKeptApart
  ReportedOnce
  NoOrphanThread
  TargetHonoured
PROPERTIES
  CallersReturn
  ImplementsFreshFrames
  MacImplementsFreshFrames
CHECK_DEADLOCK FALSE

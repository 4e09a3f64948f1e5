CONSTANTS
  Buffers = {b1, b2, b3}
  MaxFrames = 4
  Displays = {d1, d2}
SPECIFICATION MCSpec
INVARIANT NeverBorrowedTwice
CHECK_DEADLOCK FALSE

SPECIFICATION Spec
CONSTANTS
  NLeds = 1
  NRgb = 2
  PrbsBits = 4
  FifoSize = 1
  MaxKeys = 2
  MaxResets = 1
INVARIANT WholeFrames
PROPERTIES BootShowsCommitted RandomMoves KeysAreExecuted
CHECK_DEADLOCK FALSE

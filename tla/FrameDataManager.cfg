SPECIFICATION Spec
CONSTANTS
  MAX_FRAMES_AHEAD = 2
  Ids = {1}
  IsLocal = FALSE
  RunAhead = 2
  MaxFrame = 7
INVARIANTS TypeOK ExecutedFramesKept
PROPERTY RingIsAWindow
CHECK_DEADLOCK FALSE

CONSTANTS
  MAX_SLOTS = 3
  Player = {0, 1, 2}
  RunAhead = 1
  FRAMES_TO_KEEP = 2
  UINT_RANGE = 64
  FirstFrame = 2
  MaxFrame = 3
  Troubles = {"DEATH", "DISORDER"}
  MaxTrouble = 2
SPECIFICATION Spec
PROPERTY RightFrame
CHECK_DEADLOCK FALSE

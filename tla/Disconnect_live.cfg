CONSTANTS
  MAX_SLOTS = 3
  Player = {0, 1, 2}
  RunAhead = 1
  FRAMES_TO_KEEP = 2
  UINT_RANGE = 64
  FirstFrame = 2
  MaxFrame = 4
  Troubles = {"DEATH", "VOTE", "SCREEN", "DISORDER"}
  MaxTrouble = 1
SPECIFICATION FairSpec
PROPERTY GameGoesOn
CHECK_DEADLOCK FALSE

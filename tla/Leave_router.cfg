SPECIFICATION FairSpec
CONSTANTS
  Player = {0, 1, 2}
  RunAhead = 1
  FRAMES_TO_KEEP = 2
  FirstFrame = 3
  MaxFrame = 6
  Leavers = {0}
  LeaveBy = 3
PROPERTY LeavingIsSeen
CHECK_DEADLOCK FALSE

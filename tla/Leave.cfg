SPECIFICATION FairSpec
CONSTANTS
  Player = {0, 1, 2}
  RunAhead = 2
  FRAMES_TO_KEEP = 3
  FirstFrame = 4
  MaxFrame = 8
  Leavers = {0, 1}
  LeaveBy = 4
INVARIANTS TypeOK KeptForCatchUp NothingForgotten NobodyWaitsInVain
PROPERTIES PlaysOneGame NobodyLeftBehind ClientsLeaveInOrder
CHECK_DEADLOCK FALSE

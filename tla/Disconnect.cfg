CONSTANTS
  MAX_SLOTS = 3
  Player = {0, 1, 2}
  RunAhead = 2
  FRAMES_TO_KEEP = 2
  UINT_RANGE = 64
  FirstFrame = 2
  MaxFrame = 3
  Troubles = {"DEATH", "QUIT", "VOTE", "SCREEN", "DISORDER"}
  MaxTrouble = 2
SPECIFICATION Spec
INVARIANTS TypeOK NoStaleVote OneIssuer SameExecution GoneAreDestroyed
PROPERTY DisconnectedTogether
CHECK_DEADLOCK FALSE

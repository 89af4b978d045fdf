SPECIFICATION FairSpec
CONSTANTS
  MAX_FRAMES_AHEAD = 2
  Player = {0, 1}
  Router = 0
  MIN_RUNAHEAD = 1
  InitialRunAhead = 1
  MaxFrame = 9
  MaxCommands = 1
  MaxLate = 1
INVARIANTS TypeOK NobodyWaitsInVain SameCommandsEverywhere NeverResend WithinTheRing
PROPERTY EveryFrameExecuted
CHECK_DEADLOCK FALSE

SPECIFICATION Spec
CONSTANTS
  MAX_FRAMES_AHEAD = 6
  Player = {0, 1}
  Router = 0
  MIN_RUNAHEAD = 1
  InitialRunAhead = 3
  MaxFrame = 6
  MaxCommands = 2
  MaxLate = 0
INVARIANTS AnnouncedCountsHold
PROPERTY KeepsThePromise
CHECK_DEADLOCK FALSE

SPECIFICATION Spec
CONSTANTS
  Players = {0, 1}
  ID_SPAN = 8
  Gap = 1
  NumChunks = {2, 3}
  MaxCommands = 1
INVARIANT OnlyWhatWasSent
PROPERTY EveryBigCommandArrives
CHECK_DEADLOCK FALSE

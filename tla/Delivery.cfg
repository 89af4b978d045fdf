CONSTANTS
  Player = {r, a, b, c}
  A = a
  Router = r
  Cmd <- OneOfEachKind
  MaxSent = 1
  MaxLost = 3
  MaxAgain = 2
SPECIFICATION FairSpec
INVARIANTS TypeOK NothingForgotten StillOnItsWay
PROPERTIES KeepsThePromise ResendingStops
CHECK_DEADLOCK FALSE

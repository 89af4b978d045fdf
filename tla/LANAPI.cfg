SPECIFICATION FairSpec
CONSTANTS
  Client = {a, b}
  NumSlots = 2
  MaxOptions = 2
  MaxMoves = 3
  MaxLost = 1
INVARIANTS TypeOK CountdownAccepted StartedAgree
PROPERTIES LobbyAgrees NobodyWaitsForTheHost
CHECK_DEADLOCK FALSE

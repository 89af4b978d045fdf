SPECIFICATION Spec
CONSTANTS
  ID_SPAN = 8
  Types = {4, 5}
  MAX_SLOTS = 3
  Players = {0, 2}
  Ids <- IdsOfEach
INVARIANTS TypeOK SameSetSameOrder JoiningKeepsTheOrder

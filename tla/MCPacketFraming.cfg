SPECIFICATION FairSpec
CONSTANTS
  Sizes = {1, 2, 5}
  B = 5
  Cap = 11
INVARIANTS
  RoomLeft
PROPERTIES
  InOrder
  AllHandled
CHECK_DEADLOCK FALSE

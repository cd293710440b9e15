SPECIFICATION BoardSpec
CONSTANTS
  N = 2
  Board_X = 2
  MaxKeys = 2
  MaxPosted = 2
INVARIANTS
  OwnPiece
  ShowsAll
  NobodyWaits
CHECK_DEADLOCK FALSE

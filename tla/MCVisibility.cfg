SPECIFICATION BothSpec
CONSTANTS
  Users = {u1, u2}
  Npcs = {n1}
  Other = Other
  L = 3
  V = 1
  Workers = 2
  MaxDeeds = 3
SYMMETRY Symmetry
INVARIANTS
  TypeOK
  ShownIsListed
  ListedIsSeen
  Placed
  GoneIsForgotten
PROPERTIES
  SoloMoveRepairs
CHECK_DEADLOCK FALSE

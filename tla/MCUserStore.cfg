SPECIFICATION FairSpec
CONSTANTS
  Slots = {s1, s2}
  Names = {a, b}
  MaxMade = 1
  MaxQueue = 1
  Sessions = 2
  None = None
INVARIANTS
  OwnRow
PROPERTIES
  StayerIsSaved

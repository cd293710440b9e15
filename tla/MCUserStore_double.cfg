SPECIFICATION Spec
CONSTANTS
  Slots = {s1, s2}
  Names = {a}
  MaxMade = 1
  MaxQueue = 1
  Sessions = 3
  None = None
INVARIANTS
  NoDoubleLogin

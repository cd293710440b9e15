SPECIFICATION Spec
CONSTANTS
  Workers = {w1, w2}
  Ids = {i1, i2}
  MAX_CLIENTS = 3
  MAX_TEST = 2
  MIN_ACTIVE = 1
  DELAY_LIMIT = 0
  DELAY_LIMIT2 = 1
  MAXINT = 9
  Delays = {0, 2}
  MaxSends = 1
  MaxDrops = 1
SYMMETRY Symmetry
INVARIANTS
  CountExact
  
  Heard
  MapRight
CHECK_DEADLOCK FALSE

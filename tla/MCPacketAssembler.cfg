SPECIFICATION AssemblerFairSpec
CONSTANTS
  Sizes = {1, 2, 5}
  B = 5
  Cap = 11
PROPERTIES
  InOrder
  AllHandled
CHECK_DEADLOCK FALSE

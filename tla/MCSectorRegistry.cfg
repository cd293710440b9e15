SPECIFICATION Spec
CONSTANTS
  Users = {u1}
  Npcs = {n1}
  W = 4
  S = 2
  V = 2
  Overlap = {}
INVARIANTS
  ExclusiveAtHome
  
  
  

SPECIFICATION Spec
CONSTANTS
  Npcs = {n1}
  Players = {p1}
  Workers = {w1, w2}
  Chains = {c1, c2}
  Kills = {k1, k2}
  MoveDelay = 0
  RespawnDelay = 1
  None = None
SYMMETRY Symmetry
INVARIANTS
  NeverStuck
  OneChainUnlessCleared
  DeadWillRespawn

SPECIFICATION TimedLiveSpec
CONSTANTS
  Npcs = {n1}
  Players = {p1}
  Workers = {w1}
  Chains = {c1, c2}
  Kills = {k1}
  MoveDelay = 1
  RespawnDelay = 3
  None = None
INVARIANTS
  DeadChainStops
PROPERTIES
  DeadComesBack
  UnseenSleeps

SPECIFICATION FairSpec
CONSTANTS
  Monsters = {m1, m2}
  Strength = {2}
  HpPerLevel = 3
  HealShare = 3
  ExpBase = 1
  Rewards = {4}
  MaxDeeds = 4
  TopLevel = 1
INVARIANTS
  
  ChainsCounted
  LifeLeft
  NoOverheal
  LevelPaid

  
CHECK_DEADLOCK FALSE

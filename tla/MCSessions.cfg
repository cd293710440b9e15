SPECIFICATION FairSpec
CONSTANTS
  N = 2
  C = 2
INVARIANTS
  TypeOK
  Heard
  NoStranger
PROPERTIES
  LeaverGoes
CHECK_DEADLOCK FALSE

SPECIFICATION FairSpec
CONSTANTS
  Options <- MCOptions
  Horizon = 20
CHECK_DEADLOCK FALSE
INVARIANTS
  TypeOK
  GivesUpLast
  ElapsedBounded
PROPERTIES
  CallEnds

CONSTANTS
  Ids = {i1, i2}
  NoId = NoId
  Other = Other
  MaxDay = 2
SPECIFICATION FairSpec
CHECK_DEADLOCK FALSE
INVARIANTS CompletedEarned
PROPERTIES RunSettles

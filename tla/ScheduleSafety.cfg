CONSTANTS
  Ids = {i1, i2, i3}
  NoId = NoId
  Other = Other
  MaxDay = 1
SPECIFICATION Spec
CHECK_DEADLOCK FALSE
SYMMETRY IdSymmetry
INVARIANTS StatusOfLatest RecoveredOnce
PROPERTIES ServedNotReplayed

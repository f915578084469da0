CONSTANTS
  Keys = {k1, k2}
  Widths = {1, 2}
  MaxBytes = 5
  KeepRows = 2
  MaxPending = 2
  Retention = 1
  MaxDay = 2
  MaxWrites = 6
SPECIFICATION Spec
CHECK_DEADLOCK FALSE
SYMMETRY KeySymmetry
PROPERTIES SettledNeverReopens

CONSTANTS
  Conns = {c1, c2}
  NoConn = NoConn
  Capacity = 1
  MaxChunk = 1
  MaxBytes = 1
SPECIFICATION FairSpec
CHECK_DEADLOCK FALSE
PROPERTY UnattendedPruned

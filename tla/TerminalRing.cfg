CONSTANTS
  Conns = {c1, c2}
  NoConn = NoConn
  Capacity = 2
  MaxChunk = 1
  MaxBytes = 3
SPECIFICATION Spec
SYMMETRY ConnSymmetry
CHECK_DEADLOCK FALSE
INVARIANTS TypeOK ShellClosed ScreenTrue ExitIsLast
PROPERTIES RecordOutlivesClose

CONSTANTS
  Conns = {c1, c2}
  NoConn = NoConn
  Capacity = 1
  MaxChunk = 1
  MaxBytes = 2
SPECIFICATION FairSpec
CHECK_DEADLOCK FALSE
INVARIANTS TypeOK ShellClosed ScreenTrue ExitIsLast
PROPERTIES RecordOutlivesClose DetachedPruned

CONSTANTS
  Receipts = {r1}
  Tasks = {t1, t2}
  Sweeper = t1
  NoReceipt = NoReceipt
  MaxPending = 1
  SweepLimit = 1
  MaxFailures = 0
  MaxCrashes = 0
SPECIFICATION Spec
CHECK_DEADLOCK FALSE
INVARIANTS InterruptedMeansCrash

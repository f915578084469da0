CONSTANTS
  Receipts = {r1, r2}
  Tasks = {t1, t2}
  Sweeper = t1
  NoReceipt = NoReceipt
  MaxPending = 1
  SweepLimit = 1
  MaxFailures = 1
  MaxCrashes = 1
SPECIFICATION FairSpec
CHECK_DEADLOCK FALSE
INVARIANTS AtMostOneTurn OutcomeMatchesTurn PendingBounded DeletedStaysDead
PROPERTIES SettledStays OpenSettles

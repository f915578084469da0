CONSTANTS
  Tasks = {t1, t2}
  NoTask = NoTask
  AutoKinds = {"quota"}
  Cap <- MCCap
  NetworkCap = 1
  Events = {"drain", "other", "reset", "restart"}
  MaxFires = 2
  MaxArms = 2
  MaxTurns = 1
SPECIFICATION FairSpec
CHECK_DEADLOCK FALSE
INVARIANTS LoopRegistered NetworkCapped
PROPERTIES PendingFires

CONSTANTS
  Tasks = {t1, t2, t3}
  NoTask = NoTask
  AutoKinds = {"quota"}
  Cap <- MCCap
  NetworkCap = 1
  Events = {}
  MaxFires = 2
  MaxArms = 0
  MaxTurns = 1
SPECIFICATION Spec
CHECK_DEADLOCK FALSE
INVARIANTS StopCancels

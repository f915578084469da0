CONSTANTS
  Msgs = {m1}
  NoSteer = NoSteer
  Dispatching = Dispatching
  MaxSteers = 1
SPECIFICATION FairSpec
CHECK_DEADLOCK FALSE

PROPERTIES EveryStopSettles

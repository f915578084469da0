CONSTANTS
  Msgs = {m1, m2}
  NoSteer = NoSteer
  Dispatching = Dispatching
  MaxSteers = 1
SPECIFICATION FairSpec
CHECK_DEADLOCK FALSE

PROPERTIES StopSettles

CONSTANTS
  Msgs = {m1, m2}
  NoSteer = NoSteer
  Dispatching = Dispatching
  MaxSteers = 1
SPECIFICATION Spec
CHECK_DEADLOCK FALSE

PROPERTIES StopKeepsEarlyEcho

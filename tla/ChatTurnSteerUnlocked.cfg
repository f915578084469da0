CONSTANTS
  Msgs = {m1, m2, m3}
  NoSteer = NoSteer
  Dispatching = Dispatching
  MaxSteers = 2
SPECIFICATION Spec
CHECK_DEADLOCK FALSE

PROPERTIES ConfirmedStaysLocked

CONSTANTS
  Msgs = {m1, m2, m3}
  NoSteer = NoSteer
  Dispatching = Dispatching
  MaxSteers = 1
SPECIFICATION Spec
CHECK_DEADLOCK FALSE
SYMMETRY SendSymmetry
INVARIANTS OneOwner AcceptedKept StopHolds LockedOnlyInTurn
PROPERTIES ImplementsLifecycle

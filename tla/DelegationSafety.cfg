CONSTANTS
  Attempts = {a1, a2}
  NoAttempt = NoAttempt
  Clients = {c1, c2}
  EndKinds = {"answered"}
SPECIFICATION Spec
CHECK_DEADLOCK FALSE
SYMMETRY DelegationSymmetry
INVARIANTS OneLive CardNamesHolder DoneUnlinked
PROPERTIES ImplementsContract

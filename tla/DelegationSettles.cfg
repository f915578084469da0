CONSTANTS
  Attempts = {a1}
  NoAttempt = NoAttempt
  Clients = {c1, c2}
  EndKinds = {"stopped", "error", "answered", "asking", "paused", "lost"}
SPECIFICATION FairSpec
CHECK_DEADLOCK FALSE

PROPERTIES TurnEndSettles

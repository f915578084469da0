CONSTANTS
  Attempts = {a1}
  NoAttempt = NoAttempt
  Clients = {c1, c2}
  EndKinds = {"stopped", "error", "answered", "asking", "paused", "lost"}
SPECIFICATION Spec
CHECK_DEADLOCK FALSE
INVARIANTS FreeIsDelegable ReleasedIsResult ReviewIdle
PROPERTIES DetachKeepsResult DetachUnlinks ReleasedForGood

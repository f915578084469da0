CONSTANTS
  Turns = {t1, t2}
  Drains = {d1, d2}
  Watchers = {w1, w2}
  None = None
  MaxWork = 2
SPECIFICATION Spec
INVARIANTS TurnKeepsSlot TurnReadsAlone PipeDrained NoneStranded BadgeClears

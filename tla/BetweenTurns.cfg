CONSTANTS
  Turns = {t1}
  Drains = {d1, d2}
  Watchers = {w1, w2}
  None = None
  MaxWork = 2
SPECIFICATION FairSpec
INVARIANTS OnePerChat SlotOwned ParkOwned BadgeWatched
PROPERTIES ParkReleased

CONSTANTS
  Adapters = {a1, a2}
  Venues = {kalshi, manifold}
  Limiters = {l1, l2}
  Intervals = {0, 1, 3}
  MaxLimiters = 1
  MaxTime = 6
  Absent = Absent
SYMMETRY Sym
SPECIFICATION PacingSpec
INVARIANTS OneSchedule IntervalsHonoured
PROPERTIES PacedApart
CHECK_DEADLOCK FALSE

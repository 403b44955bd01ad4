CONSTANTS
  v = v
  w = w
  c = c
  Paths = {v, w}
  Commons = {c}
  Plain = Plain
  None = None
  Throttle = 3
  Debounce = 4
  MaxGestures = 3
  MaxChanges = 2
  MaxMoves = 1
SPECIFICATION WatchSpec
INVARIANTS SharedIsExact WatchFollowsTab NothingMissed
SYMMETRY Alike
CHECK_DEADLOCK FALSE

CONSTANTS
  v = v
  w = w
  b = b
  c = c
  x = x
  y = y
  None = None
  Trees = {v, w}
  Branches = {b, c}
  Works = {x, y}
  Home <- HomeOf
  MaxStashes = 3
  MaxMoves = 2
SPECIFICATION Spec
INVARIANTS FailureRollsBack
PROPERTY NothingDisappears
CHECK_DEADLOCK FALSE
SYMMETRY Alike

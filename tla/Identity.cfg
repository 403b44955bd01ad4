CONSTANTS
  a = a
  b = b
  main = main
  None = None
  Cards = {a, b}
  Signing = {a}
  Paths = {main}
  KeyOf <- OneTree
  Before <- CardA
  Composers = {main}
  Fields = {"name", "sign"}
  MaxCalls = 2
  MaxSyncs = 1
  MaxEdits = 1
SPECIFICATION Spec
INVARIANTS InClickOrder MarkerNamesTheCard ShownIsTrue
PROPERTY CommitsAreWhole
CHECK_DEADLOCK FALSE

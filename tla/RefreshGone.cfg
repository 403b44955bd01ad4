CONSTANTS
  a = a
  None = None
  Repos = {a}
  WriteKinds = {}
  MaxIntents = 1
  MaxReads = 2
SPECIFICATION Spec
PROPERTIES GoneIsNoticed
CHECK_DEADLOCK FALSE

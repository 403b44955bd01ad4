CONSTANTS
  q = q
  r = r
  read = read
  dialog = dialog
  None = None
  Paths = {q, r}
  Reader = read
  Dialog = dialog
  MaxSessions = 2
  MaxGestures = 3
  MaxReads = 1
SPECIFICATION FairSpec
INVARIANTS ClosedFailsAll OneSession WatchSurvives
PROPERTY CallsEnd
CHECK_DEADLOCK FALSE

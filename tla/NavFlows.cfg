CONSTANTS
  a = a
  b = b
  w = w
  l = l
  None = None
  Picks = {a, w, l}
  Worktrees = {w}
  Canon <- MCCanon
  MainOf <- MCMainOf
  Launches <- RestoredLaunches
  MaxOpens = 2
  MaxReads = 1
  MaxWrites = 1
  MaxLocates = 1
  MaxLabels = 1
SPECIFICATION FairSpec
PROPERTIES StaleOwnersStayStale RestoreYields SpinnerIsReleased
CHECK_DEADLOCK FALSE

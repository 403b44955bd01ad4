CONSTANTS
  a = a
  b = b
  w = w
  l = l
  None = None
  Picks = {a, w, l}
  Worktrees = {w}
  Canon <- MCCanon
  MainOf <- MCMainOf
  Launches <- FreshLaunch
  MaxOpens = 4
  MaxReads = 1
  MaxWrites = 0
  MaxLocates = 0
  MaxLabels = 0
SPECIFICATION Spec
INVARIANTS PendingIsLatestOpen DisplayedHasTab TabsOwnLeasesAndWatches
PROPERTIES StandDownIsFinal ClosedTabStaysClosed ImplementsScreen
CHECK_DEADLOCK FALSE

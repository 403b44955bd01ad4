CONSTANTS
  a = a
  None = None
  Repos = {a}
  WriteKinds = {"move"}
  MaxIntents = 2
  MaxReads = 1
SPECIFICATION Spec
INVARIANT SpinnersHaveOwners
PROPERTIES EarlierSessionsAreSilent NewerOpenWins
CHECK_DEADLOCK FALSE

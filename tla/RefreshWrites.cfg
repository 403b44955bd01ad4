CONSTANTS
  a = a
  None = None
  Repos = {a}
  WriteKinds = {"fetch", "checkout", "merge"}
  MaxIntents = 1
  MaxReads = 1
SPECIFICATION FairSpec
INVARIANTS DeferredWaitsForLoading WaiterHasReplay
PROPERTIES LoadingEnds DeferredIsReplayed
CHECK_DEADLOCK FALSE

SPECIFICATION FairSpec
CONSTANTS
  Flows = {r1, r2}
  Accounts = {a, b}
  None = None
  MaxSignOuts = 1
INVARIANTS NeverBusy CancelBeatsStore NoOrphanToken
PROPERTY RunEnds
CHECK_DEADLOCK FALSE

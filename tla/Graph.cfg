CONSTANTS
  Rows = 4
  Outside = 2
  Context = 1
SPECIFICATION Spec
INVARIANTS FirstParentLinesRunFree LastMergeLinesRunFree MarkersStandClear QueryIsExact
CHECK_DEADLOCK FALSE

SPECIFICATION Spec
CONSTANT Flows = {f1, f2, f3, f4}
INVARIANTS OneFlow SlotIsClean
PROPERTY RecordedCancelWins
CHECK_DEADLOCK FALSE

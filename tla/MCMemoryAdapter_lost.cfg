SPECIFICATION Spec
CONSTANTS
  Writers = {w1, w2}
  MaxCalls = 2
INVARIANTS CommittedRecordsStay
CHECK_DEADLOCK FALSE

SPECIFICATION Spec
CONSTANTS
  Writers = {w1, w2, w3}
  MaxCalls = 5
INVARIANTS LedgerReadable LossShowsInVersions
SYMMETRY Interchangeable
CHECK_DEADLOCK FALSE

SPECIFICATION Spec
CONSTANTS
  Callers = {c1}
  NoCaller = NoCaller
  Unset = Unset
  Unparsable = Unparsable
  Naive = Naive
  Requests <- SharedRootRequests
  Faults = {}
  MaxCalls = 4
  MaxFaults = 0
  MaxClock = 2
INVARIANTS BudgetHeldUpToDelay
CHECK_DEADLOCK FALSE

SPECIFICATION FairSpec
CONSTANTS
  Callers = {c1, c2}
  NoCaller = NoCaller
  Unset = Unset
  Unparsable = Unparsable
  Naive = Naive
  Requests <- ConcurrentRequests
  Faults = {"crash", "lock_error", "budget_error", "rate_error"}
  MaxCalls = 3
  MaxFaults = 1
  MaxClock = 1
INVARIANTS BudgetNeverOvercounts
PROPERTIES EveryCallReturns
CHECK_DEADLOCK FALSE

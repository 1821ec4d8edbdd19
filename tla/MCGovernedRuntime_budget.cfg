SPECIFICATION Spec
CONSTANTS
  Callers = {c1}
  NoCaller = NoCaller
  Unset = Unset
  Unparsable = Unparsable
  Naive = Naive
  Requests <- BudgetRequests
  Faults = {}
  MaxCalls = 4
  MaxFaults = 0
  MaxClock = 4
INVARIANTS BudgetHeldUpToDelay RateLimitedByOwnEffects
CHECK_DEADLOCK FALSE

SPECIFICATION Spec
CONSTANTS
  Callers = {c1}
  NoCaller = NoCaller
  Unset = Unset
  Unparsable = Unparsable
  Naive = Naive
  Requests <- OneKeyRequest
  Faults = {"crash"}
  MaxCalls = 2
  MaxFaults = 1
  MaxClock = 0
INVARIANTS AtMostOncePerKey
CHECK_DEADLOCK FALSE

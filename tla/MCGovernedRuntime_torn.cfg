SPECIFICATION Spec
CONSTANTS
  Callers = {c1}
  NoCaller = NoCaller
  Unset = Unset
  Unparsable = Unparsable
  Naive = Naive
  Requests <- OneKeyRequest
  Faults = {"record_torn"}
  MaxCalls = 2
  MaxFaults = 1
  MaxClock = 0
INVARIANTS RecordFailureOnlyCostsDedupe
CHECK_DEADLOCK FALSE

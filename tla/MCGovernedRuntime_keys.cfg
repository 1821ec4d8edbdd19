SPECIFICATION Spec
CONSTANTS
  Callers = {c1, c2}
  NoCaller = NoCaller
  Unset = Unset
  Unparsable = Unparsable
  Naive = Naive
  Requests <- SafetyRequests
  Faults = {"crash", "lock_error", "lookup_error", "record_error", "record_torn", "record_unterminated", "unverified"}
  MaxCalls = 3
  MaxFaults = 2
  MaxClock = 1
SYMMETRY Interchangeable
INVARIANTS TypeOK AtMostOneRecorded OnlyFaultsRepeatEffects ReplayIsFaithful EffectsAuthorized CustodyHonored
PROPERTIES NoEffectAfterRecord
CHECK_DEADLOCK FALSE

SPECIFICATION Spec
CONSTANTS
  Writers = {w1, w2}
  Contents = {"a", "b"}
  MaxCalls = 3
  MaxOutside = 2
  MaxFaults = 1
SYMMETRY Interchangeable
INVARIANTS TypeOK TargetWhole NothingOutside OneCreatorWins LateRejectionsChangeNothing TempsRemoved
PROPERTY ImplementsAtomicWrite
CHECK_DEADLOCK FALSE

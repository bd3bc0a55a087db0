SPECIFICATION Spec
CONSTANTS
  Batches <- Mixed
  Usages = {"low", "high"}
  Overlap = TRUE
  MaxParallel = 2
  TailFloor = 2
  MaxSteps = 2
  MaxTurns = 2
  MaxRounds = 3
  MaxPasses = 1
  MaxCrashes = 1
CHECK_DEADLOCK FALSE
INVARIANTS
  PairingHolds
  LoopGuards
PROPERTIES
  LedgerIsTrue

SPECIFICATION Spec
CONSTANTS
  Files = {"f"}
  Legacy = {}
  Scopes = {"code", "conversation", "both"}
  Serial = FALSE
  MaxTurns = 3
  MaxWrites = 3
  MaxMessages = 5
  MaxCompacts = 1
  MaxSummaries = 1
  MaxRewinds = 1
  MaxFaults = 1
  MaxRestarts = 1
CHECK_DEADLOCK FALSE
INVARIANTS
  BoundsRight
PROPERTIES
  RestoreExact
  SnapshotsHold

SPECIFICATION FairSpec
CONSTANTS
  NoGoal = NoGoal
  Goals = {a}
  MaxTurns = 2
  MaxRuns = 2
  MaxWork = 1
  MaxSets = 1
CHECK_DEADLOCK FALSE
INVARIANTS
  TurnsAreApart
PROPERTIES
  StopsWhenTold

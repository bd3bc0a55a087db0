SPECIFICATION MCSpec
CONSTANTS
  Foci = {"tui", "http", "fan"}
  Plain = {"plain"}
  Refs = {"refs"}
  Goals = {"goal"}
  MaxTurns = 2
  MaxReplies = 1
  MaxPrompts = 2
  MaxChan = 2
  MaxShown = 3
  Submits = {"submit1", "submit2"}
  Switches = {"switch1", "switch2"}
  Approvals = {"approve"}
  MaxAsks = 2
  Subs = {"s1", "s2"}
  Emitters = {"turn", "job"}
  Buffer = 2
  MaxFrames = 4
CHECK_DEADLOCK FALSE
INVARIANTS
  ViewIsTrue
  CommandsMeetTheirTurn
  SwitchIsClean
PROPERTIES
  NothingForTheGone
  FrontsSettle

SPECIFICATION MCSpec
CONSTANTS
  Foci = {"sessions", "config", "memory", "boot", "tree"}
  Gating = "patient"
  MaxSessions = 3
  MaxIds = 4
  MaxPasses = 1
  MaxFolds = 1
  MaxOrders = 4
  Commands = {"p1", "p2"}
  Tables = {"s1", "s2"}
  Starts <- ConfigStarts
  MaxChanges = 3
  Facts = {"a", "b"}
  Writers = {"w1", "w2"}
  MaxWrites = 3
  Servers = {"a", "b", "codegraph"}
  Tier <- OneOfEach
  SlugOf <- SharedSlug
  Concurrency = 1
  DemoteAfter = 1
  MaxSamples = 1
  MaxBuilds = 2
  MaxEdits = 1
  Stamps <- Minutes
  Legacy <- OldName
  BranchNames <- SomeNames
  Refs <- SomeRefs
  ListCap = 2
  ColdAfter = 2
  Scrollback = FALSE
  MaxTicks = 5
  MaxFaults = 2
CHECK_DEADLOCK FALSE
INVARIANTS
  KeptApart
  NothingMissing
PROPERTIES
  EditsHold
  BuildsEnd

SPECIFICATION FairSpec
CONSTANTS
  Execs = {e1, e2}
  Users = {u1, u2}
  Gatings = {"terminal", "server"}
  MaxCommands = 2
  MaxClients = 3
CHECK_DEADLOCK FALSE
INVARIANTS
  ServersAreUsable
PROPERTIES
  CallsReturn

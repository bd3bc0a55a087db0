SPECIFICATION MCSpec
CONSTANTS
  Foci = {"stream", "auth", "hooks", "flow", "todo", "wire"}
  Kinds = {"openai", "anthropic", "responses"}
  StreamCalls = {1, 2}
  MaxText = 1
  MaxArgs = 2
  Clients = {"planner", "executor"}
  Senders = {"g1", "g2", "g3"}
  ClientOf <- TwoAndOne
  MaxIssued = 3
  HookFiles <- SettingsFiles
  Policies <- PolicyFiles
  ToolCalls <- SomeCalls
  Lines <- CommandLines
  Agents = {"a1", "a2", "a3"}
  MaxConcurrent = 1
  MaxAgents = 2
  MaxTokens = 1
  Tools = {"read", "task"}
  Meta = {"task"}
  Texts = {"a", "b"}
  MaxItems = 2
  MaxReceipts = 3
  MaxMessages = 3
  Thinking = TRUE
CHECK_DEADLOCK FALSE
INVARIANTS
  WireIsTrue
  WorkIsAllowed
PROPERTIES
  OneWholeAnswer
  AllEnd

SPECIFICATION MCSpec
CONSTANTS
  Foci = {"stdio", "lspconn", "lsp", "acp", "http"}
  Calls = {"c1", "c2", "c3"}
  PipeCap = 2
  MaxLines = 1
  Notify = {"c3"}
  MaxEvents = 1
  MaxSessions = 2
  LspCalls = {"c1", "c2"}
  MaxRetries = 1
  LspPipeCap = 1
  LspMaxLines = 1
  MaxAsks = 1
  Repeats = TRUE
  MaxBusy = 2
  Reads = TRUE
  Queries = {"c1", "c2"}
  MaxEdits = 2
  MaxSpawns = 2
  MaxPublish = 1
  Opens = {"load1", "load2"}
  Prompts = {"prompt1", "prompt2"}
  Cancels = {"cancel"}
  Sessions = {"s"}
  For <- OneSession
  MaxFrames = 4
  CallOrder <- InTurn
  LspOrder <- Pair
  LoadOrder <- Loads
  PromptOrder <- Turns
CHECK_DEADLOCK FALSE
INVARIANTS
  AnswersAreOwn
  NothingLeftBehind
PROPERTIES
  ImplementsRpc
  CallsEnd

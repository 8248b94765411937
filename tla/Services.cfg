CONSTANTS
  e1 = e1  e2 = e2  e3 = e3
  Wire = {"completions", "mistral", "anthropic", "responses", "codex", "google", "bedrock", "radius"}
  Names = {"read"}
  MaxRetries = 1
  Pieces = {0, 2}
  MaxCalls = 2
  MaxAsked = 1
  MaxUpdates = 3
  MaxDeaths = 1
  Client = {k1, k2}
  NoClient = NoClient
  Loads <- RpcLoads
  Environments <- Envs
  SettingsFiles <- Files
  Selections <- AskedFor
  Catalogs <- Cats
  PageLimit = 4
  MaxCommands = 3
  ToolCall = {x1, x2}
  Ext = {e1, e2, e3}
  Found <- FoundFiles
  InWorkspace = {e1, e3}
  Operator = {e1}
  Disabled = {}
  NoCall = NoCall
  MaxQuestions = 1
  MaxExtDeaths = 1
SPECIFICATION ServicesSpec
CONSTRAINT FewOthers
SYMMETRY Alike
INVARIANTS
  ServicesTypeOK
  AnswersAreWhole
  RequestsArePaired
  ForgottenAreHandled
  ResubmittedAfterDeath
  StreamFramed
  AnswersReach
  KeyOwn
  RunsOnlyApproved
CHECK_DEADLOCK FALSE

CONSTANTS
  t1 = t1  t2 = t2  m1 = m1  b1 = b1  f1 = f1  c1 = c1  p1 = p1  p2 = p2
  NoOne = NoOne
  TurnShapes <- LogShapes
  Turn = {t1, t2}
  Compactor = {m1}
  Brancher = {b1}
  Overlap = TRUE
  Detector = {t1}
  MaxFailures = 1
  MaxEntries = 6
  MaxToolEntries = 1
  TreeShapes <- CompactedShapes
  KeepTurns = 1
  TokenBudgets = {0, 2, 4}
  MaxLog = 15
  MaxBranches = 1
  Client = {k1, k2}
  LinkKey = {"chat", "tab"}
  Workspace = {"w", "v"}
  Canonical = 0
  NoClient = NoClient
  MaxLines = 2
  MaxTornLines = 1
  Turns = {t1, t2}
  Backfills = {f1}
  Conversations = {c1}
  Processes = {p1, p2}
  Mortal = {p1, p2}
  ConversationOf <- OneConversationOf
  StartsIn <- StartProcess
  OldNode = old
  Local = {id}
  Nobody = nobody
  MaxMishaps = 1
  Worker = {w1, w2}
  NoWorker = NoWorker
  MaxTokens = 3
  MaxFaults = 1
  d1 = d1  d2 = d2
  NoEditor = NoEditor
  Editor = {d1, d2}
  LockOf <- OneLock
  Letter = {"a", "b"}
  Texts <- Contents
  EditLists <- SomeEdits
  LineLengths = {0, 1, 3, 6}
  MaxFileLines = 5
  MaxReadLines = 3
  MaxReadBytes = 5
  SpillBytes = 2
  TailBytes = 3
  MaxOutput = 7
SPECIFICATION StoresSpec
INVARIANTS
  StoresTypeOK
  TurnWhole
  TurnsDoNotCut
  ParentsExist
  NothingForgotten
  ResultsKeepTheirCalls
  OneConversation
  CheckpointCovers
  RelatedExist
  StoredTokenGood
  EditsExact
  OutputComplete
PROPERTY
  OthersKept
CHECK_DEADLOCK FALSE

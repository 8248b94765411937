\* One process may die; turns fail, are canceled and are not always saved.
CONSTANTS
  t1 = t1  t2 = t2  t3 = t3
  c1 = c1
  h1 = h1  h2 = h2
  None = None
  Turn = {t1, t2}
  Conversation = {c1}
  ConversationOf <- OneConversation
  Handle = {h1, h2}
  Mortal = {h2}
  Lease = 1
  Cancellable = {t1, t2}
  Failing = {t1, t2}
  Impatient = {}
  StallFree = TRUE
  Unreliable = {}
  SaveMayFail = TRUE
  MaxAppends = 3
SPECIFICATION RunFairSpec
PROPERTY EveryTurnRuns
CHECK_DEADLOCK FALSE

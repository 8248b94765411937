\* Nobody cancels, nothing fails; two submitters poll one conversation.
CONSTANTS
  t1 = t1  t2 = t2  t3 = t3
  c1 = c1
  h1 = h1  h2 = h2
  None = None
  Turn = {t1, t2}
  Conversation = {c1}
  ConversationOf <- OneConversation
  Handle = {h1, h2}
  Mortal = {}
  Lease = 1
  Cancellable = {}
  Failing = {}
  Impatient = {}
  StallFree = TRUE
  Unreliable = {}
  SaveMayFail = FALSE
  MaxAppends = 3
SPECIFICATION RunFairSpec
PROPERTY SubmitterReturns
CHECK_DEADLOCK FALSE

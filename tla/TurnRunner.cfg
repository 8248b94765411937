\* Two processes, one of which may crash and fail to use the queue file, three
\* turns; nobody cancels through the queue, no live worker outlives its lease.
CONSTANTS
  t1 = t1  t2 = t2  t3 = t3
  c1 = c1
  h1 = h1  h2 = h2
  None = None
  Turn = {t1, t2, t3}
  Conversation = {c1}
  ConversationOf <- OneConversation
  Handle = {h1, h2}
  Mortal = {h2}
  Lease = 1
  Cancellable = {}
  Failing = {t1, t2, t3}
  Impatient = {}
  StallFree = TRUE
  Unreliable = {h2}
  SaveMayFail = FALSE
  MaxAppends = 4
SPECIFICATION RunSpec
INVARIANTS
  OneRunner
  TranscriptInOrder
SYMMETRY SameTurns
CHECK_DEADLOCK FALSE

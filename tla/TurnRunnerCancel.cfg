\* As TurnRunner.cfg, but turns may be canceled and leases may run out.
CONSTANTS
  t1 = t1  t2 = t2  t3 = t3
  c1 = c1
  h1 = h1  h2 = h2
  None = None
  Turn = {t1, t2}
  Conversation = {c1}
  ConversationOf <- OneConversation
  Handle = {h1, h2}
  Mortal = {h2}
  Lease = 1
  Cancellable = {t1, t2}
  Failing = {t1, t2}
  Impatient = {t1}
  StallFree = FALSE
  Unreliable = {}
  SaveMayFail = FALSE
  MaxAppends = 4
SPECIFICATION RunWatchSpec
INVARIANTS
  CompleteIsRecorded
  CancelHitsItsTurn
PROPERTY LostRunStops
CHECK_DEADLOCK FALSE

\* Three processes, two of which may crash, two conversations.
CONSTANTS
  t1 = t1  t2 = t2  t3 = t3  t4 = t4
  c1 = c1  c2 = c2
  h1 = h1  h2 = h2  h3 = h3
  None = None
  Turn = {t1, t2, t3, t4}
  Conversation = {c1, c2}
  ConversationOf <- ThreeAndOne
  Handle = {h1, h2, h3}
  Mortal = {h2, h3}
  Lease = 2
SPECIFICATION Spec
INVARIANTS
  TypeOK
  OneActive
  InOrder
  ViewCurrent
PROPERTIES
  LeaseRespected
  ImplementsFifo
SYMMETRY SameTurns

CONSTANTS
  t1 = t1  t2 = t2  t3 = t3  m = m  b = b
  NoOne = NoOne
  TurnShapes <- OneAnswer
  Turn = {t1, t2, t3}
  Compactor = {m}
  Brancher = {}
  Overlap = FALSE
  Detector = {}
  MaxFailures = 0
  MaxEntries = 9
  MaxToolEntries = 0
SPECIFICATION LogSpec
INVARIANT SavedStaysActive
SYMMETRY SameTurns
CHECK_DEADLOCK FALSE

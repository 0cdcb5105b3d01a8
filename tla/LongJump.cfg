SPECIFICATION Spec
CONSTANTS
  t1 = t1
  t2 = t2
  NoThread = NoThread
  Threads = {t1}
  N = 15
  Start <- LongStart
  Kind <- LongKind
  Entries = {1}
  MaxBlock = 15
  MaxRounds = 1
INVARIANTS
  ContextIntact
CHECK_DEADLOCK FALSE

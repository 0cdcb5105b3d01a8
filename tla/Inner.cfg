SPECIFICATION FairSpec
CONSTANTS
  t1 = t1
  t2 = t2
  NoThread = NoThread
  Threads = {t1, t2}
  N = 5
  Start <- InnerStart
  Kind <- InnerKind
  Entries = {1, 3}
  MaxBlock = 3
  MaxRounds = 1
INVARIANTS
  PatchesDisjoint
  RewritesConfined
PROPERTIES
  JumptableStable
  ImplementsNative
CHECK_DEADLOCK FALSE

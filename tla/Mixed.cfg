SPECIFICATION FairSpec
CONSTANTS
  t1 = t1
  t2 = t2
  NoThread = NoThread
  Threads = {t1, t2}
  N = 6
  Start <- MixedStart
  Kind <- MixedKind
  Entries = {1}
  MaxBlock = 15
  MaxRounds = 1
INVARIANTS
  MutualExclusion
  PatchComplete
  ContextIntact
PROPERTIES
  EveryRoundEnds
  CompiledOnce
CHECK_DEADLOCK FALSE

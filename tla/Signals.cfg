SPECIFICATION SignalsFairSpec
CONSTANTS
  t1 = t1
  t2 = t2
  h = h
  NoThread = NoThread
  Threads = {t1, t2, h}
  Handlers = {h}
  Interrupted <- InterruptsT2
  Loader = t1
  N = 4
  Start <- OddStart
  Kind <- OddKind
  Entries = {1, 2, 4}
  MaxBlock = 15
  MaxRounds = 0
INVARIANTS
  SignalsTypeOK
  ReencodeNotReentered
  ReadyBeforeUse
  OnlyNestedSignalsKill
PROPERTIES
  EverySignalReturns
  ImplementsNative
CHECK_DEADLOCK FALSE

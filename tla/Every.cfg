SPECIFICATION Spec
CONSTANTS
  Blocks <- AllBlocks
  Strategies <- BothStrategies
  Xmms <- SixXmms
  Gprs <- AllGprs
  Freed = {"kept"}
INVARIANTS
  TypeOK
  StoresConfined
  GprsKept
  RspTracked
  FaultsExact

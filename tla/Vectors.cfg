SPECIFICATION Spec
CONSTANTS
  Blocks <- ResultBlocks
  Strategies <- BothStrategies
  Xmms <- SixXmms
  Gprs <- AllGprs
  Freed = {"kept", "reused"}
INVARIANTS
  VectorsExact
  GprsExact
  MemoryExact

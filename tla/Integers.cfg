SPECIFICATION Spec
CONSTANTS
  Blocks <- IntegerBlocks
  Strategies <- BothStrategies
  Xmms <- SixXmms
  Gprs <- AllGprs
  Freed = {"kept"}
INVARIANTS
  GprsMatch
  FlagsMatch

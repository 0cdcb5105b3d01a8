SPECIFICATION Spec
CONSTANTS
  Blocks <- MoveBlocks
  Strategies <- BothStrategies
  Xmms <- SixXmms
  Gprs <- AllGprs
  Freed = {"kept"}
INVARIANTS
  FlagsMatch

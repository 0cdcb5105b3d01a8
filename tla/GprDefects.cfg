SPECIFICATION Spec
CONSTANTS
  Blocks <- WrongGprs
  Strategies <- OnlyFarJump
  Xmms <- SixXmms
  Gprs <- AllGprs
  Freed = {"kept"}
INVARIANTS
  GprsMatch

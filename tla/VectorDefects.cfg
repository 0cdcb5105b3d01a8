SPECIFICATION Spec
CONSTANTS
  Blocks <- WrongVectors
  Strategies <- OnlyFarJump
  Xmms <- AllXmms
  Gprs <- AllGprs
  Freed = {"reused"}
INVARIANTS
  VectorsMatch

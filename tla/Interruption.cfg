SPECIFICATION InterruptedSpec
CONSTANTS
  Blocks <- ShortBlocks
  Strategies <- FarJump
  Xmms <- SixXmms
  Gprs <- AllGprs
  Freed = {"kept"}
  HandlerCode <- Handlers
INVARIANTS
  OnlyLiveSlotsLost

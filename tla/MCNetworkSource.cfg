\* Streams: is the source of a spike its PE?
CONSTANTS
  W = 2
  H = 2
  NumPe = 4
  NumTimesteps = 2
  Warmup = 1
  Measure = 1
  CreditInit = 16
  Watchdog = 30
  Tau = 2
  VThreshold = 4
  AgeThresh <- Never
  PotThresh <- Lowest
  UseDnp = FALSE
  SkipPruned = FALSE
  DnpSlots = 0
  PhysRatio = 25
  Flit <- MCFlit
  Image <- Streams
  Coprocs <- NoCoprocs
  Inert <- NoPe
  InputSeqs <- StreamInput
SPECIFICATION Spec
CHECK_DEADLOCK FALSE
INVARIANT SourceIsOrigin

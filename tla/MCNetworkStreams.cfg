\* A 2 x 2 mesh with ample credits: two streams into the corner PE, under a watchdog
\* that the longest of them exceeds.
CONSTANTS
  W = 2
  H = 2
  NumPe = 4
  NumTimesteps = 2
  Warmup = 1
  Measure = 1
  CreditInit = 16
  Watchdog = 34
  Tau = 2
  VThreshold = 4
  AgeThresh <- Never
  PotThresh <- Lowest
  UseDnp = FALSE
  SkipPruned = FALSE
  DnpSlots = 0
  PhysRatio = 25
  Flit <- MCFlit
  Image <- Streams
  Coprocs <- NoCoprocs
  Inert <- NoPe
  InputSeqs <- StreamInput
SPECIFICATION Spec
CHECK_DEADLOCK FALSE
INVARIANT SpikesOfThisTimestep
INVARIANT SilentBetween
PROPERTY ImplementsDelayLine

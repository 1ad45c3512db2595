\* A transformer block over 7 PEs on a 4 x 2 mesh, credits 1, a warm-up of 1 timestep,
\* with dynamic pruning and the sticky skip: slots for two of four neurons.
CONSTANTS
  W = 4
  H = 2
  NumPe = 7
  NumTimesteps = 4
  Warmup = 1
  Measure = 3
  CreditInit = 1
  Watchdog = 60
  Tau = 2
  VThreshold = 4
  AgeThresh = 2
  PotThresh = 0
  UseDnp = TRUE
  SkipPruned = TRUE
  DnpSlots = 0
  PhysRatio = 60
  Flit <- MCFlit
  Image <- Block
  Coprocs <- BlockAttention
  Inert <- MatmulPe
  InputSeqs <- BlockInput
SPECIFICATION FairSpec
CHECK_DEADLOCK FALSE
PROPERTY RunEnds
PROPERTY ImplementsDelayLine

\* 2 PEs with dynamic pruning, 3 neurons in 2 slots, delays 0 and 2: is a pruned neuron
\* ever mapped again?
CONSTANTS
  W = 2
  H = 1
  NumPe = 2
  NumTimesteps = 5
  Warmup = 2
  Measure = 3
  CreditInit = 1
  Watchdog = 30
  Tau = 2
  VThreshold = 4
  AgeThresh = 2
  PotThresh = 0
  UseDnp = TRUE
  SkipPruned = TRUE
  DnpSlots = 0
  PhysRatio = 60
  Flit <- MCFlit
  Image <- Sparse
  Coprocs <- NoCoprocs
  Inert <- NoPe
  InputSeqs <- SparseInput
SPECIFICATION Spec
CHECK_DEADLOCK FALSE
PROPERTY PrunedNeverReturns

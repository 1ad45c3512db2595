\* Small models of every family, and ill-formed and unmappable graphs: they are
\* compiled, and what is written runs on the chip as in the functional simulator.
CONSTANTS
  SRAM_BYTES = 34
  NUM_PE = 24
  MESH_W = 6
  COUNT_MAX = 9
  DENDRITE_MAX = 9
  MAX_AXON_DELAY = 7
  OffsetLimit = 34
  Tau = 2
  VThreshold = 1500
  Unit = 4
  Timesteps = 12
  Warmup = 8
  Measure = 4
  AgeThresh <- Never
  PotThresh <- Lowest
  UseDnp = FALSE
  SkipPruned = FALSE
  Models <- MCModels
  Dags <- MCDags
  Profiles <- MCProfiles
  Images <- MCImages
SPECIFICATION EndSpec
INVARIANTS
  Ordered
  RefusesCycles
  PlacedLossless
  FanExact
  WrittenLoads
  ActiveKept
  ChipComputesLayers
  ModelAgrees
  PipelineMatches
CHECK_DEADLOCK FALSE

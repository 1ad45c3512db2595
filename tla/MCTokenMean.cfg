\* The mean over the tokens of a transformer is a sum on the chip.
CONSTANTS
  SRAM_BYTES = 34
  NUM_PE = 24
  MESH_W = 6
  COUNT_MAX = 9
  DENDRITE_MAX = 9
  MAX_AXON_DELAY = 7
  OffsetLimit = 34
  Tau = 2
  VThreshold = 1500
  Unit = 4
  Timesteps = 12
  Warmup = 8
  Measure = 4
  AgeThresh <- Never
  PotThresh <- Lowest
  UseDnp = FALSE
  SkipPruned = FALSE
  Models <- TokenModels
  Dags <- MCDags
  Profiles <- MCProfiles
  Images <- MCImages
SPECIFICATION EndSpec
INVARIANT MeanIsAverage
CHECK_DEADLOCK FALSE

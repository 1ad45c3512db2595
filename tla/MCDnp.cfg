\* 3 neurons share 2 slots; idle for 2 timesteps or a membrane not above 0: pruned.
CONSTANTS
  NLog = 3
  NPhys = 2
  Tau = 2
  VThreshold = 5
  AgeThresh = 2
  PotThresh = 0
  Currents <- Charging
  MaxAge = 3
SPECIFICATION Spec
INVARIANT MapsAgree
INVARIANT FreeListExact
INVARIANT OccupancyExact
PROPERTY ImplementsStore

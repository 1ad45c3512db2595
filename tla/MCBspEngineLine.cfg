\* A 3 x 1 line, credits 1, 2 timesteps: bursts between the ends.
CONSTANTS
  W = 3
  H = 1
  NumPe = 3
  NumTimesteps = 2
  CreditInit = 1
  Watchdog = 17
  Flit <- MCFlit
  Bursts <- EndsBurst
SPECIFICATION FairSpec
CHECK_DEADLOCK FALSE
INVARIANT SpikesBehindSync
PROPERTY ImplementsProtocol
PROPERTY RunEnds

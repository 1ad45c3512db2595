\* A 2 x 2 mesh with ample credits: spikes that are still queued when the
\* barrier between the two timesteps is over, and when the last one ends.
CONSTANTS
  W = 2
  H = 2
  NumPe = 4
  NumTimesteps = 2
  CreditInit = 16
  Watchdog = 100
  Flit <- MCFlit
  Bursts <- Overtaken
SPECIFICATION Spec
CHECK_DEADLOCK FALSE
INVARIANT SpikesConserved
INVARIANT DrainLeavesNothing

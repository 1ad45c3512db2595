\* 5 PEs: a root, an inner node with two leaves, and a leaf; 2 timesteps.
CONSTANTS
  NumPe = 5
  NumTimesteps = 2
SPECIFICATION FairSpec
INVARIANT NobodyReleasedEarly
INVARIANT NeverStale
INVARIANT CountedOnce
INVARIANT SilentAtBarrier
PROPERTY ImplementsBarrier
PROPERTY EveryTimestepEnds

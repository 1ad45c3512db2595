\* A 2 x 2 mesh, credits 2: hotspots and a crossing load of 3 flits per node.
CONSTANTS
  W = 2
  H = 2
  CreditInit = 2
  MaxLoad = 3
  Flit <- MCFlit
  Traffic <- Crossing
SPECIFICATION FairSpec
INVARIANT LinkCreditsConserved
INVARIANT InjectCreditsConserved
INVARIANT ExactlyOnePlace
INVARIANT InOrderPerPair
INVARIANT EjectAtMostOne
INVARIANT XyDiscipline
INVARIANT SomeFlitCanMove
PROPERTY WaitersGetCloser
PROPERTY ImplementsLockstep
PROPERTY AllDelivered

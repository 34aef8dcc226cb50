SPECIFICATION FairSpec
CONSTANTS
  Server <- Three
  Seeds <- AandB
  MaxTimeouts = 3
  End = End
  Dangling = Dangling
  MaxProbationary = 1
  CountDepth = 2
PROPERTIES NeitherListStarves ActiveServersTakeTurns
CHECK_DEADLOCK FALSE

SPECIFICATION ThreadsSpec
CONSTANTS
  Server <- AandB
  Seeds <- AandB
  MaxTimeouts = 2
  End = End
  Dangling = Dangling
  MaxProbationary = 1
  CountDepth = 1
  MaxWant = 1
  MaxRoom = 2
INVARIANTS RequestedAreThere
CHECK_DEADLOCK FALSE

SPECIFICATION Spec
CONSTANTS
  Server <- AandB
  Seeds <- JustA
  MaxTimeouts = 3
  End = End
  Dangling = Dangling
  MaxProbationary = 1
  CountDepth = 1
INVARIANTS ActiveIteratorValid
CHECK_DEADLOCK FALSE

SPECIFICATION Spec
CONSTANTS
  Server <- OneHost
  Seeds <- JustA
  MaxTimeouts = 3
  End = End
  Dangling = Dangling
  MaxProbationary = 2
  CountDepth = 2
INVARIANTS TypeOK HeldIsListed CountNeverOverstates
PROPERTIES HostsAreNotLost ImplementsServerLife
CHECK_DEADLOCK FALSE

SPECIFICATION ThreadsSpec
CONSTANTS
  Server <- AandB
  Seeds <- JustA
  MaxTimeouts = 2
  End = End
  Dangling = Dangling
  MaxProbationary = 1
  CountDepth = 1
  MaxWant = 1
  MaxRoom = 2
INVARIANTS ThreadsTypeOK ReadsPastOnlyIfShrunk OverstatesOnlyWhenOvertaken SteadyReplyIsExact
CHECK_DEADLOCK FALSE

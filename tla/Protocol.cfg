SPECIFICATION FairSpec
CONSTANTS
  MaxPacket = 60
  MaxByte = 3
  Sizes <- UpToThree
  AnyMessage <- SomeMessages
  AnyLength <- SomeLengths
  MaxMessages = 2
INVARIANTS TypeOK AcceptsTheWellFormed GeneratedIsAccepted ParsedIsWhatWasChecked
PROPERTIES WalksEnd
CHECK_DEADLOCK FALSE

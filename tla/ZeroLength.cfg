SPECIFICATION FairSpec
CONSTANTS
  MaxPacket = 60
  MaxByte = 3
  Sizes <- UpToThree
  AnyMessage <- SomeMessages
  AnyLength <- SomeLengths
  MaxMessages = 1
PROPERTIES MalformedAreIgnored
CHECK_DEADLOCK FALSE

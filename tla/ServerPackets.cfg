SPECIFICATION Spec
CONSTANTS
  Client <- LoopbackAndMapped
  MtuIp4 = 20
  MtuIp6 = 31
  DefaultEntropy = 3
  Byte = 7
  Asks <- SmallAsks
  PeerCounts <- SmallPeers
  RequestLengths <- UpToSix
INVARIANTS TypeOK FitsIntoPacket SentIsWellFormed RejectionsFillPacket CountsFitBytes
CHECK_DEADLOCK FALSE

SPECIFICATION FairSpec
CONSTANTS
  Server <- AandB
  Entry <- OneEach
  Seeds <- JustA
  PeerType <- OnlyIp4
  Supports <- OnlyAOffersPeers
  Invalid <- JustB
  Busy <- Nobody
  NoEntry = NoEntry
  NoServer = NoServer
  Retry = 1
  Timeout = 1
  Lifetime = 1
  MaxTimeouts = 3
  MaxQueue = 1
  MaxNet = 1
  MaxRefusals = 1
INVARIANTS TypeOK NotAskedTooSoon
PROPERTIES CreditIsDue RejectionsAreKept ImplementsServerLife ProbationEnds
CHECK_DEADLOCK FALSE

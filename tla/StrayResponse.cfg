SPECIFICATION Spec
CONSTANTS
  Server <- BothSockets
  Entry <- Listings
  Seeds <- JustA
  PeerType <- BothTypes
  Supports <- OnlyAOffersPeers
  Invalid <- JustB
  Busy <- BusyA
  NoEntry = NoEntry
  NoServer = NoServer
  Retry = 2
  Timeout = 1
  Lifetime = 2
  MaxTimeouts = 3
  MaxQueue = 2
  MaxNet = 1
  MaxRefusals = 1
PROPERTIES ActiveServersHaveResponded
CHECK_DEADLOCK FALSE

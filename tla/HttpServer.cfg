SPECIFICATION FairSpec
CONSTANTS
  Wsis = {1, 2}
  Muxed = {2}
  Http3 = {TRUE}
  MaxRequests = 2
  MaxBody = 1
  MaxPieces = 2
  MaxChunks = 1
  MaxSends = 2
INVARIANTS
  RequestsExact
  WriteWanted
  ServerAlive
PROPERTIES
  Exchanges
  ClosedResolves
CHECK_DEADLOCK FALSE

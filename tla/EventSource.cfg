SPECIFICATION FairSpec
CONSTANTS
  MaxConns = 2
  MaxEvent = 2
INVARIANTS
  ExactlyOnce
  OneConnection
PROPERTIES
  CloseIsFinal
CHECK_DEADLOCK FALSE

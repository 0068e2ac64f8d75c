SPECIFICATION FairSpec
CONSTANTS
  p1 = p1
  p2 = p2
  Promises = {p1, p2}
  None = None
  MaxCalls = 5
INVARIANTS
  Rejections
  NothingWaits
PROPERTIES
  Reported
  StopObeyed
CHECK_DEADLOCK FALSE

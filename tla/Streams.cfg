SPECIFICATION FairSpec
CONSTANTS
  s1 = s1
  s2 = s2
  Streams = {s1, s2}
  None = None
  MaxCalls = 7
INVARIANTS
  Pins
  WritesAnswered
  ClosedSettled
PROPERTIES
  TeardownEnds
CHECK_DEADLOCK FALSE

SPECIFICATION FairSpec
CONSTANTS
  s1 = s1
  s2 = s2
  Sockets = {s1, s2}
  Streaming = {s2}
  Codes = {1000, 3000}
  MaxCalls = 4
  MaxEvents = 2
INVARIANTS
  Lifetimes
  EventsTrue
  MessagesKept
PROPERTIES
  Closes
CHECK_DEADLOCK FALSE

SPECIFICATION FairSpec
CONSTANTS
  t1 = t1
  t2 = t2
  c1 = c1
  c2 = c2
  c3 = c3
  n1 = n1
  Threads = {t1, t2}
  Channels = {c1, c2, c3}
  Names = {n1}
  None = None
  MaxCalls = 5
  Mortal = {t2}
INVARIANTS
  Exact
  Posts
PROPERTIES
  Ordered
  Delivered
CHECK_DEADLOCK FALSE

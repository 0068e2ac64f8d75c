SPECIFICATION FairSpec
CONSTANTS
  Threads = {main, w}
  Main = main
  Mailboxes = {1, 2}
  Ports = {1, 2}
  None = None
  MaxCalls = 5
  MaxTransfer = 0
  Mortal = {main, w}
  Collectable = {1, 2}
INVARIANTS
  Memory
  NoLostWakeup
PROPERTIES
  Delivered
  TerminateReturns
CHECK_DEADLOCK FALSE

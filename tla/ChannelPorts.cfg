SPECIFICATION Spec
CONSTANTS
  Threads = {main, w}
  Main = main
  Mailboxes = {1, 2, 3, 4}
  Ports = {1, 2, 3, 4, 5, 6, 7}
  None = None
  MaxCalls = 5
  MaxTransfer = 1
  Mortal = {w}
  Collectable = {1, 2, 3, 4, 5, 6, 7}
INVARIANTS
  Memory
  Ownership
  InOrder
CHECK_DEADLOCK FALSE

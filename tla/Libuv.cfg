SPECIFICATION MCSpec
CONSTANTS
  m1 = m1
  m2 = m2
  m3 = m3
  Timers = {m1, m2, m3}
  NoTimer = NoTimer
  MaxId = 2
  Modulus = 16
  Horizon = 2
  MaxCalls = 4
  Delays <- MCDelays
  a = a
  b = b
  None = None
  Readable = "r"
  Wsis = {a, b}
  Racers = {0, 1}
  Fds = {m1, m2, m3}
  Events = {"r", "w"}
SYMMETRY Symmetry
INVARIANTS
  Registry
  TableSound
  NotDeaf
  OnlyServersHold
PROPERTIES
  ClearedIsSilent
CHECK_DEADLOCK FALSE

SPECIFICATION Spec
CONSTANTS
  c1 = c1
  c2 = c2
  b1 = b1
  b2 = b2
  Clients = {c1, c2}
  Rebuilds = {b1, b2}
  MaxSessions = 2
INVARIANT
  DtrWaits
CHECK_DEADLOCK FALSE

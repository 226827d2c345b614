CONSTANTS
  c1 = c1
  Callers = {}
  MaxUnits = 2
  MaxMessage = 2
  MaxIn = 2
  MaxPeer = 1
  HighWater = 2
  PeerResets = FALSE
SPECIFICATION Spec
INVARIANT NoAssertionFails
CHECK_DEADLOCK FALSE

CONSTANTS
  c1 = c1
  Callers = {c1}
  MaxUnits = 1
  MaxMessage = 2
  MaxIn = 2
  MaxPeer = 2
  HighWater = 2
  PeerResets = TRUE
SPECIFICATION FairSpec
INVARIANTS StreamInOrder WriteInterest ClosedOnce PollerNeverDangles FunctorsNeverDangle DestroyedDisconnected
PROPERTIES OutputDrains ClosedIsReleased
CHECK_DEADLOCK FALSE

CONSTANTS
  MaxTimers = 2
  Delays = {0, 1, 3}
  Intervals = {1, 2}
  TicksPerMs = 2
  MaxTime = 3
SPECIFICATION FairSpec
INVARIANTS SetsAgree HeapExact NeverEarlyNorTwice NoOversleep
PROPERTIES DroppedNeverFires DueTimerLeaves
CHECK_DEADLOCK FALSE

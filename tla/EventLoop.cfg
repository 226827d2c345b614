CONSTANTS
  f1 = f1
  f2 = f2
  f3 = f3
  t1 = t1
  t2 = t2
  Functors = {f1, f2, f3}
  Threads = {t1, t2}
  WakeMax = 2
SPECIFICATION FairSpec
INVARIANT NoLostWakeup
PROPERTIES ImplementsFunctorQueue QueuedFunctorRuns QuitStopsLoop
CHECK_DEADLOCK FALSE

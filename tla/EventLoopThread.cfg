CONSTANTS
  f1 = f1
  o = o
  Functors = {f1}
  Threads = {o}
  Owner = o
  WakeMax = 2
SPECIFICATION ThreadSpec
PROPERTIES StartLoopReturns DestructorReturns
CHECK_DEADLOCK FALSE

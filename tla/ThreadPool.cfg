CONSTANTS
  w1 = w1
  w2 = w2
  c1 = c1
  c2 = c2
  t1 = t1
  t2 = t2
  t3 = t3
  Workers = {w1, w2}
  Clients = {c1, c2}
  Tasks = {t1, t2, t3}
SPECIFICATION FairSpec
INVARIANTS NoTaskIsStranded StopDrains
PROPERTIES ImplementsFunctorQueue StopReturns AcceptedTaskRuns
CHECK_DEADLOCK FALSE

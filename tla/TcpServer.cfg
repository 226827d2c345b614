\* Up to two io threads; the third client finds no descriptor left.
CONSTANTS
  MaxThreads = 2
  MaxClients = 3
  FdLimit = 2
  kMaxAcceptPerLoop = 2
  StatusTimer = TRUE
SPECIFICATION FairSpec
INVARIANTS MapExact IterationSafe
PROPERTIES ShutdownCompletes BacklogDrains
CHECK_DEADLOCK FALSE

\* Two threads, up to three blocks of two slots.
CONSTANTS
  t1 = t1
  t2 = t2
  NoThread = NoThread
  Threads = {t1, t2}
  block_size_ = 2
  MaxBlocks = 3
SPECIFICATION PoolSpec
INVARIANTS NeverSharedOut Accounting
PROPERTY GrowsOnlyWhenFull
CHECK_DEADLOCK FALSE

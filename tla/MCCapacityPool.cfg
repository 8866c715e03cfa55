SPECIFICATION FairPoolSpec
CONSTANTS
  Tasks = {t1, t2, t3}
  Threads = {s1, s2}
  Capacity = 2
  MaxAttempts = 2
  MaxRequeues = 3
  WallReached = TRUE
  NoItem = NoItem
INVARIANT NoneLost
INVARIANT ReturnsAll
PROPERTY WaveReturns
CHECK_DEADLOCK FALSE

SPECIFICATION FairSpec
CONSTANTS
  w1 = w1
  w2 = w2
  Workers <- MCWorkers
  Pools <- MCPools
  MaxTasks = 3
CHECK_DEADLOCK FALSE
INVARIANT TaskOnce
INVARIANT NothingDroppedAfterWait
PROPERTY DestructorEnds

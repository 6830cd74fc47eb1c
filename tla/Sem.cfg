SPECIFICATION MCSpec
CONSTANTS
  Threads = {main, 0, 1, 2}
  InitValue = 0
  MaxSpurious = 1
  MaxDebt = 9
  MaxValue = 3
  main = main
  NUM_THREADS = 3
  NUM_ITER = 2
INVARIANTS ValueCountsWaiters 
PROPERTIES ImplementsSemaphore TestsEnd
CHECK_DEADLOCK FALSE

SPECIFICATION FairSpec
CONSTANTS
  w1 = w1
  w2 = w2
  Workers = {w1, w2}
  Main = main
  Jobs <- MCJobs
  Counters <- MCCounters
  NbWorker = 5
  Programs <- GoodPrograms
  Null = Null
  WeakFails = FALSE
INVARIANT TypeOK
INVARIANT SlotOwned
PROPERTY ImplementsPool
PROPERTY AwakeDrains
PROPERTY StopEnds
CHECK_DEADLOCK FALSE

SPECIFICATION FairSpec
CONSTANTS
  w1 = w1
  w2 = w2
  Workers = {w1, w2}
  Main = main
  Jobs <- MCJobs
  Counters <- MCCounters
  NbWorker = 3
  Programs <- OnePrograms
  Null = Null
  WeakFails = FALSE
PROPERTY WaitReturns
CHECK_DEADLOCK FALSE

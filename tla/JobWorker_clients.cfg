SPECIFICATION FairSpec
CONSTANTS
  w1 = w1
  w2 = w2
  Workers = {w1, w2}
  Main = main
  Jobs = {j1, j2, j3, j4, j5, j6}
  j1 = j1
  j2 = j2
  j3 = j3
  j4 = j4
  j5 = j5
  j6 = j6
  c1 = c1
  Counters = {c1}
  QueueSize = 4
  BufferSize = 6
  WorkSizeMod = 64
  SizeOf <- MCSizeOf
  Programs <- GoodPrograms
  Null = Null
  WeakFails = FALSE
INVARIANT TypeOK
INVARIANT OneHolder
INVARIANT BlocksDisjoint
INVARIANT CompleteMeansTaken
PROPERTY ImplementsPool
PROPERTY QueuedRuns
 
CHECK_DEADLOCK FALSE

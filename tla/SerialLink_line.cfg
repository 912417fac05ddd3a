SPECIFICATION FairSpec
CONSTANTS
  PerScreen = 2
  MaxStarts = 3
  MaxLost = 2
INVARIANT OneAtATime
INVARIANT InOrder
INVARIANT EachFrameOnce
INVARIANT StopsOnlyByLoss
PROPERTY AllExecuted
CHECK_DEADLOCK FALSE

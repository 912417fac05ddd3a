SPECIFICATION Spec
CONSTANTS
  Pages = 8
  Ahead = 5
  Blocks = 3
INVARIANT CompleteAtExit
CHECK_DEADLOCK FALSE

SPECIFICATION FairSpec
CONSTANTS
  Pages = 8
  Ahead = 5
  Blocks = 10
INVARIANT PrefixOnCrash
PROPERTY AllButLast
CHECK_DEADLOCK FALSE

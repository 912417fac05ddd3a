SPECIFICATION Spec
CONSTANTS
  Null = Null
  p1 = p1
  c1 = c1
  Producers = {p1}
  Consumers = {c1}
  Size = 3
  MaxPush = 6
  WeakFails = TRUE
INVARIANT TypeOK
INVARIANT NothingLost

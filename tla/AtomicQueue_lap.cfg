SPECIFICATION Spec
CONSTANTS
  Null = Null
  p1 = p1
  c1 = c1
  c2 = c2
  Producers = {p1}
  Consumers = {c1, c2}
  Size = 2
  MaxPush = 3
  WeakFails = FALSE
INVARIANT NothingLost

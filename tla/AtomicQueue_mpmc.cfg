SPECIFICATION FairSpec
CONSTANTS
  Null = Null
  p1 = p1
  p2 = p2
  c1 = c1
  c2 = c2
  Producers = {p1, p2}
  Consumers = {c1, c2}
  Size = 4
  MaxPush = 3
  WeakFails = FALSE
INVARIANT IInv
INVARIANT AtMostOnce
PROPERTY ImplementsFifo
PROPERTY Delivery

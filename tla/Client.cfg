\* Two goroutines, three calls, three pushes, a notifications channel of two
\* that nobody has to empty.
CONSTANTS
  c1 = c1
  c2 = c2
  Caller = {c1, c2}
  Capacity = 2
  MaxCalls = 3
  MaxPushes = 3
SPECIFICATION FairSpec
INVARIANTS
  OwnResponse
  NoResponseLost
  ReaderNeverBlocks
PROPERTIES
  NotificationsInOrder
  EveryCallReturns
  LossIsSeen
\* A client may be closed and all its calls returned.
CHECK_DEADLOCK FALSE

SPECIFICATION FairSpec
CONSTANTS
  th1 = th1
  th2 = th2
  Threads = {th1, th2}
  EventSizes = {1, 2}
  Capacity = 3
  MaxBytes = 4
  BatchSize = 2
  BatchBytes = 2
  MaxEvents = 4
CHECK_DEADLOCK FALSE
INVARIANTS
  Conservation
  QueueIsBounded
PROPERTIES
  ImplementsStream
  BarrierEnds

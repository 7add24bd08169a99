SPECIFICATION FairSpec
CONSTANTS
  Readers = {r1, r2}
  Writers = {w1}
  Capacity = 2
  PipeBuf = 2
  ReadSizes = {1, 2}
  WriteSizes = {2}
  Signalled = {r1}
  Faulty = {r1}
  NonBlocking = {}
  MaxReads = 2
  MaxWrites = 2
  MaxEnds = 1
INVARIANTS SleepersQueued NoLostWakeup BytesInOrder
PROPERTY SleepersServed
CHECK_DEADLOCK FALSE

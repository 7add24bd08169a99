SPECIFICATION Spec
CONSTANTS
  Readers = {r1}
  Writers = {w1, w2}
  Capacity = 2
  PipeBuf = 2
  ReadSizes = {1, 2}
  WriteSizes = {2, 3}
  Signalled = {w1}
  Faulty = {w1}
  NonBlocking = {r1, w2}
  MaxReads = 2
  MaxWrites = 2
  MaxEnds = 2
INVARIANTS TypeOK NoLostWakeup AtomicWrites EndsCounted
CHECK_DEADLOCK FALSE

SPECIFICATION Spec
CONSTANTS
  Readers = {r1, r2}
  Writers = {w1}
  Capacity = 2
  PipeBuf = 2
  ReadSizes = {1}
  WriteSizes = {2}
  Signalled = {}
  Faulty = {}
  NonBlocking = {}
  MaxReads = 2
  MaxWrites = 1
  MaxEnds = 1
PROPERTY EofMeansDrained
CHECK_DEADLOCK FALSE

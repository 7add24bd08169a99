SPECIFICATION FairSpec
CHECK_DEADLOCK FALSE
CONSTANTS
  w1 = w1
  w2 = w2
  k1 = k1
  k2 = k2
  Waiters = {w1, w2}
  WaitsOn <- CondWaiters
  Ops <- CondOps
  Wakers = {k1, k2}
  Addrs = {1, 2}
  Buckets = {1, 2, 3, 4, 5, 6, 7, 8, 9, 10}
  Timed = {w1}
  Signalled = {w2}
  MaxWaiters = 2
  NrWake = 1
  Retries = 16
  MaxCalls <- CondCalls
  MaxOps = 1
  MaxIrq = 1
INVARIANTS TypeOK RecordFound NoLostWake NoStrandedWaiter OneOutcome NoLeak
PROPERTY WaitEnds

SPECIFICATION Spec
CHECK_DEADLOCK FALSE
CONSTANTS
  w1 = w1
  w2 = w2
  k1 = k1
  k2 = k2
  Waiters = {w1, w2}
  Wakers = {k1}
  Addrs = {1, 2}
  WaitsOn <- FullWaiters
  Ops <- FullOps
  Buckets = {1, 2, 3, 4, 5, 6, 7, 8}
  Timed = {}
  Signalled = {}
  MaxWaiters = 1
  NrWake = 0
  Retries = 16
  MaxCalls <- FullCalls
  MaxOps = 2
  MaxIrq = 1
INVARIANTS RequeueAlwaysServes

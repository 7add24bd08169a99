SPECIFICATION Spec
CHECK_DEADLOCK FALSE
CONSTANTS
  NCpu = 3
  Pages = {p, q, s}
  Calls <- ThreeCalls
  Movers = {}
  Walkers = {}
  QueueLen = 2
  Retries = 0
  MaxCalls = 3
INVARIANTS NoMutualSpin

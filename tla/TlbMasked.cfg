SPECIFICATION Spec
CHECK_DEADLOCK FALSE
CONSTANTS
  NCpu = 3
  Pages = {p, q}
  Calls <- MixedCalls
  Movers = {}
  Walkers = {2}
  QueueLen = 2
  Retries = 0
  MaxCalls = 2
INVARIANTS NoStaleFrame

SPECIFICATION FairSpec
CHECK_DEADLOCK FALSE
CONSTANTS
  NCpu = 2
  Pages = {p, q}
  Calls <- AllCalls
  Movers = {0, 1}
  Walkers = {1}
  QueueLen = 1
  Retries = 1
  MaxCalls = 2
INVARIANTS TypeOK NoStaleFrame WriteProtected
PROPERTY CallReturns

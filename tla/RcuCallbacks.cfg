SPECIFICATION FairSpec
CONSTANTS
  Cpus = {c1, c2}
  NStack = 1
  NGeneral = 2
  General = {g1, g2}
  MaxEpoch = 4
  BacklogMedium = 2
  BacklogHigh = 3
  BudgetLow = 1
  BudgetMedium = 2
  BudgetHigh = 3
INVARIANTS TypeOK QueueOrdered NeverEarly SingleDrainer PoolConsistent PermitOwnsSlot SyncDrained
PROPERTY Monotonic
PROPERTY CallbackRuns

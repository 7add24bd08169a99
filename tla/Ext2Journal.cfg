SPECIFICATION FairSpec
CHECK_DEADLOCK FALSE
CONSTANTS
  Homes = {1, 2}
  Plans <- OneAndTwo
  MaxHomes = 2
  Base = 2
  InitSeqs = {3}
  Byte = 256
  Count <- FreeCounts
  Limit <- GroupOf512
  MaxTx = 3
  MaxErrors = 1
  MaxCrashes = 1
INVARIANTS TypeOK MountAccepts NoStaleReplay MemoryRecoverable
PROPERTY ImplementsStore
PROPERTY EventuallyMounted

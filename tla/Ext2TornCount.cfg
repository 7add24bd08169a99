SPECIFICATION Spec
CHECK_DEADLOCK FALSE
CONSTANTS
  Homes = {1, 2}
  Plans <- OneAndTwo
  MaxHomes = 2
  Base = 2
  InitSeqs = {3}
  Byte = 256
  Count <- FreeCounts
  Limit <- GroupOf300
  MaxTx = 1
  MaxErrors = 0
  MaxCrashes = 1
INVARIANTS MountAccepts

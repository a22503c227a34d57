SPECIFICATION ClustererFairSpec
CONSTANTS
  Threads = {t1, t2}
  NoThread = none
  NRows = 3
  NTokens = 5
  Requested = 3
  MaxCount = 1
INVARIANTS
  ComputedOnce
  InsertsOnWholeTables
  Partition
  WCurrent
PROPERTIES
  NeverSplit
  Ends

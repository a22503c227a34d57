SPECIFICATION RunFairSpec
CONSTANTS
  Workers = {w1, w2}
  Source = src
  d1 = d1
  d2 = d2
  Doc <- MCDoc
  EmptyDoc = empty
  Readable <- MCDoc
  Inputs <- MCInputs
  HWM = 2
  PreserveOrder = FALSE
  KillClients = FALSE
  Faults = {}
  MaxRuns = 3
INVARIANTS
  NothingLeftBehind
PROPERTIES
  EveryRunDelivers
CHECK_DEADLOCK TRUE

SPECIFICATION RunSpec
CONSTANTS
  Workers = {w1, w2}
  Source = src
  d1 = d1
  d2 = d2
  Doc <- MCDoc
  EmptyDoc = empty
  Readable <- MCDoc
  Inputs <- MCInputs
  HWM = 1
  PreserveOrder = TRUE
  KillClients = FALSE
  Faults = {"server"}
  MaxRuns = 2
INVARIANT SanityCheck
CHECK_DEADLOCK FALSE

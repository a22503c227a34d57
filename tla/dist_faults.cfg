SPECIFICATION FairSpec
CONSTANTS
  Workers = {w1, w2}
  Source = src
  d1 = d1
  d2 = d2
  bad = bad
  Doc <- MCDoc
  EmptyDoc = empty
  Readable <- MCReadable
  Inputs <- MCInputs
  HWM = 1
  PreserveOrder = TRUE
  KillClients = TRUE
  Faults = {"setup", "send", "recv", "close", "worker"}
INVARIANTS
  OrderedPrefix
  SanityCheck
  TerminateDiscardsNothing
  NothingLost
PROPERTIES
  ImplementsPipe
  ExitsOrHangsForCause
  ToldWorkersStop
CHECK_DEADLOCK FALSE

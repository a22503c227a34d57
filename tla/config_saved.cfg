SPECIFICATION Spec
CONSTANTS
  Nodes <- Worker
  AllowUnclaimed = FALSE
  Args <- WorkerArgs
  MaxArgs = 4
  File <- TheFile
  UserFiles <- WorkerFiles
INVARIANT SavedFileLoads
CHECK_DEADLOCK FALSE

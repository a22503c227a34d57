SPECIFICATION Spec
CONSTANTS
  Nodes <- Grep
  AllowUnclaimed = TRUE
  Args <- GrepArgs
  MaxArgs = 4
  File <- TheFile
  UserFiles <- GrepFiles
INVARIANTS
  StartsConfigured
  ArgumentsLand
  PlainFileLoads
CHECK_DEADLOCK FALSE

SPECIFICATION Spec
CONSTANTS
  v1 = v1
  v2 = v2
  Values = {v1, v2}
  Unset = unset
  NoDef = nodef
  NoStore = nostore
  NoDoc = nodoc
  MaxAnns = 2
  MaxEdits = 5
  Pipelines <- MCPipelines
INVARIANTS
  WireWellFormed
  WritingAgainIsTheSame
  ReadsBackWhatWasWritten
PROPERTIES
  LazyCopyIsIdentical
  ImplementsAnnotated
CHECK_DEADLOCK FALSE

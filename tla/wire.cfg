SPECIFICATION Spec
CONSTANTS
  BlockSize = 4
  NBlocks = 1
  PoolSize = 8
  NPools = 1
  MaxFields = 2
  MaxInstances = 2
  FieldValues <- MCFieldValues
  LazyFields <- MCLazyFields
INVARIANTS
  BuffersSound
  ReadsBack
  EndsWithItsValue
PROPERTIES
  ImplementsText
CHECK_DEADLOCK FALSE

SPECIFICATION Spec
CONSTANTS
  MaxText = 5
  MaxSize = 4
  OnErrors = {"SKIP", "CALL", "THROW"}
INVARIANTS
  SameAsWhole
  RefusesLongTokens
  SplitsOffThePossessive
PROPERTIES
  Ends
CHECK_DEADLOCK FALSE

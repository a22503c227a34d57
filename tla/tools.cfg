CONSTANTS
  Docs <- MCDocs
  Streams <- MCStreams
  Options <- MCOptions
  IntegerLiteral <- MCIntegerLiteral
  StringLiteral <- MCStringLiteral
  LeftmostMatch <- MCLeftmostMatch
SPECIFICATION Spec
INVARIANTS WritesWhatWasAsked ParsesTheGrammar GrepSelects
CHECK_DEADLOCK FALSE

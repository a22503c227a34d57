SPECIFICATION Spec
CONSTANTS
  MaxSentence = 3
  MaxTokens = 5
  MaxDocs = 2
INVARIANTS
  TypeOK
  SlicesTile
PROPERTIES
  SentenceStaysInItsParagraph
  EndClosesTheSentence
CHECK_DEADLOCK FALSE

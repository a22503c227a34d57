SPECIFICATION FairSpec
CONSTANTS
  Threads = {t1, t2, t3}
  NoThread = none
  Levels = {10, 20}
  Threshold = 20
  NStatements = 2
  NParts = 1
INVARIANTS
  WholeMessages
PROPERTIES
  AllReturn

SPECIFICATION FairSpec
CONSTANTS
  N = 3
  MAX_BATCH = 2
  NTasks = 2
INVARIANTS NothingOverlooked NoTaskDropped
PROPERTY FindReturns

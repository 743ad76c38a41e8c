\* Two children, pipes of two tokens, four files with three contents.
CONSTANTS
  PipeSize = 2
  Mrls <- Files
  Uuid <- Hashes
  PoolSize = 2
  MaxScans = 2
SPECIFICATION FairSpec
INVARIANTS
  PipesAgree
  NoneForgotten
PROPERTIES
  ScanReturns
CHECK_DEADLOCK FALSE

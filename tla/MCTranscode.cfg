\* Two streams of up to three blocks through a pipe that holds one.
CONSTANTS
  PipeSize = 1
  MaxBlocks = 3
  MaxOpens = 2
SPECIFICATION FairSpec
INVARIANTS
  LastReported
PROPERTIES
  CloseReturns
  ReaderEnds
CHECK_DEADLOCK FALSE

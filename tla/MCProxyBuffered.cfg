\* An image (data_rate = 0): everything is kept, readers may seek.
CONSTANTS
  r1 = r1
  r2 = r2
  Readers = {r1, r2}
  Owner = r1
  BlockSize = 2
  DataRate = 0
  Duration = 1
  PreloadPart = 10
  MaxLength = 5
SPECIFICATION FairSpec
INVARIANTS
  NoDataRace
PROPERTIES
  Implements
  SizeReturns
CHECK_DEADLOCK FALSE

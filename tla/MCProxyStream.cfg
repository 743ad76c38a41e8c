\* A transcoded stream with a preload of two blocks: ring buffer of 4 blocks.
CONSTANTS
  r1 = r1
  r2 = r2
  Readers = {r1, r2}
  Owner = r1
  BlockSize = 2
  DataRate = 1
  Duration = 8
  PreloadPart = 2
  MaxLength = 11
SPECIFICATION FairSpec
INVARIANTS
  TypeOK
  NoDataRace
  DeliveredInOrder
  CompleteAtEof
  DetachAnnounced
  ClosedIsQuiet
PROPERTIES
  Implements
  EveryReaderFinishes
  CloseCompletes
CHECK_DEADLOCK FALSE

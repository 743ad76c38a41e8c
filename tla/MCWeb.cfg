\* Two requests for one path and one for another, closed and initialized twice.
CONSTANTS
  r1 = r1
  r2 = r2
  r3 = r3
  p1 = p1
  p2 = p2
  Requests <- ThreeRequests
  Path <- PathOf
  MaxStreams = 3
  MaxInits = 2
SPECIFICATION FairSpec
INVARIANTS
  HeldWhileOpen
  OneReader
  ResponsesEnd
PROPERTIES
  CloseCompletes
CHECK_DEADLOCK FALSE

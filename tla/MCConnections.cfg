\* Two clients, two kinds of requests, two streams and one close().
CONSTANTS
  c1 = c1
  c2 = c2
  k1 = k1
  k2 = k2
  Clients = {c1, c2}
  Keys = {k1, k2}
  MaxConnections = 2
  MaxCloses = 1
SPECIFICATION FairSpec
INVARIANTS
  ListAgrees
  OneStreamPerKey
PROPERTIES
  ClientsFinish
  ConnectionsEnd
CHECK_DEADLOCK FALSE

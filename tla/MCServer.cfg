\* Two servers, two ports, one failure of libupnp and one new interface, and a
\* periodic timer that runs while a device is being registered.
CONSTANTS
  Ports = {1, 2}
  MaxServers = 2
  MaxFailures = 1
  MaxChanges = 1
  MaxOverlaps = 1
SPECIFICATION FairSpec
INVARIANTS
  NoStaleDevice
  RepublishAsserted
PROPERTIES
  Announced
  UpdatesAnnounced
CHECK_DEADLOCK FALSE

\* Three connections for two ids: one id is always used twice.
SPECIFICATION Spec
CONSTANTS
  Ws = {w1, w2, w3}
  Id = {vehicle, cockpit}
  RelayTypes = {"offer"}
  None = None
  Server = Server
  MaxInFlight = 2
SYMMETRY Symmetry
INVARIANTS
  SessionsConsistent
  RoutingIntegrity
  PeerLossIsAnnounced
  NoExitWhileConnected
\* The process exits.
CHECK_DEADLOCK FALSE

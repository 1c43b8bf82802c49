SPECIFICATION FairSpec
CONSTANTS
  Ws = {w1, w2}
  Id = {vehicle, cockpit}
  RelayTypes = {"offer"}
  None = None
  Server = Server
  MaxInFlight = 2
INVARIANT ServerInv
PROPERTY PeerLossIsNoticed
\* The process exits.
CHECK_DEADLOCK FALSE

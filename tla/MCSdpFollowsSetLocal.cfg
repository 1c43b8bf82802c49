SPECIFICATION Spec
CONSTANTS
  None = None
  Null = Null
  Page = page
  DummyId = client_dummy_id
  OtherId = vehicle_client_alpha
  MaxOperations = 5
  MaxSends = 2
INVARIANT SdpFollowsSetLocal
CHECK_DEADLOCK FALSE

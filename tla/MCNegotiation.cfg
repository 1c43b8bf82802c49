SPECIFICATION Spec
CONSTANTS
  None = None
  Null = Null
  Page = page
  DummyId = client_dummy_id
  OtherId = vehicle_client_alpha
  MaxOperations = 5
  MaxSends = 3
INVARIANTS
  FlagIsNotStale
  HandedOverInOrder
  CandidatesArriveIntact
CHECK_DEADLOCK FALSE

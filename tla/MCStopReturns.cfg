SPECIFICATION Spec
CONSTANTS
  p1 = p1
  t1 = t1
  Peers = {p1}
  AppThreads = {t1}
  MaxPcs = 0
  MaxCandidates = 0
  None = None
\* A manager is used once, and stopped.
CHECK_DEADLOCK FALSE
PROPERTY StopReturns

SPECIFICATION Spec
CONSTANTS
  Peers = {p1, p2}
  AppThreads = {t1}
  MaxPcs = 2
  MaxCandidates = 2
  p1 = p1
  p2 = p2
  t1 = t1
  None = None
\* A manager is used once, and stopped.
CHECK_DEADLOCK FALSE
SYMMETRY Symmetry
INVARIANTS
  ManagerInv
  CandidatesFollowDescription
  CandidatesAreKept
  ApplicationKnowsOfLoss
  StoppedIsSilent

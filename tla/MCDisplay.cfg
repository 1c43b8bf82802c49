\* The page connects twice, three operations of a connection are under way, and
\* three candidates come in.
SPECIFICATION Spec
CONSTANTS
  MaxPlayers = 2
  MaxChain = 3
  MaxCandidates = 3
INVARIANTS
  DisplayInv
  NoCandidateTooEarly
  NoCandidateLost
  CommandsNeedSignaling
PROPERTY OffersAreAnswered
\* The bound on players stops the page.
CHECK_DEADLOCK FALSE

SPECIFICATION Spec
CONSTANTS
  CardCount = 3
  LaneCount = 2
  MaxTurns = 5
  MaxRequests = 3
INVARIANTS
  VerdictMatchesKind
PROPERTIES
  ContractKept
CHECK_DEADLOCK FALSE

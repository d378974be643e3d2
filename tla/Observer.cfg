CONSTANTS
  n1 = n1
  n2 = n2
  Node <- TwoNodes
  NodeOrder <- TwoInOrder
  LagThreshold = 0
  MaxTerm = 3
  MaxLsn = 1
SPECIFICATION FairObserverSpec
INVARIANTS
  ObserverTypeOK
  LoopsMatchRoles
  AccusedWonOrTorn
  SteadyLeaderIsSeen
  LagReportsAreRight
PROPERTIES
  RoundsGoOn
CHECK_DEADLOCK FALSE

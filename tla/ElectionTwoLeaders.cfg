CONSTANTS
  n1 = n1
  n2 = n2
  n3 = n3
  NoNode = NoNode
  Node <- ThreeNodes
  Majority = 2
  MaxTerm = 2
  MaxLsn = 0
  MaxCrashes = 1
  MaxLate = 0
SPECIFICATION ElectionSpec
SYMMETRY NodeSymmetry
INVARIANTS
  AtMostOneLeaderPerTerm
CHECK_DEADLOCK FALSE

CONSTANTS
  n1 = n1
  n2 = n2
  n3 = n3
  r1 = r1
  r2 = r2
  NoNode = NoNode
  NoReq = NoReq
  Node <- ThreeNodes
  Candidates <- OnlySecond
  Slowable <- NoNodes
  Req <- TwoWrites
  MayTimeOut = FALSE
  Majority = 2
  MaxTerm = 2
  MaxLsn = 1
  MaxCrashes = 2
  MaxLate = 0
SPECIFICATION ElectedSpec
SYMMETRY WriteSymmetry
INVARIANTS
  AckedOnMajority
CHECK_DEADLOCK FALSE

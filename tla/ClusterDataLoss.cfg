CONSTANTS
  n1 = n1
  n2 = n2
  n3 = n3
  r1 = r1
  r2 = r2
  NoNode = NoNode
  NoReq = NoReq
  Node <- ThreeNodes
  Candidates <- FirstTwo
  Slowable <- NoNodes
  Req <- TwoWrites
  MayTimeOut = FALSE
  Majority = 2
  MaxTerm = 3
  MaxLsn = 1
  MaxCrashes = 1
  MaxLate = 0
SPECIFICATION ElectedSpec
SYMMETRY WriteSymmetry
PROPERTIES
  ConfirmedSurviveFailover
CHECK_DEADLOCK FALSE

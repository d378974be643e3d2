CONSTANTS
  n1 = n1
  n2 = n2
  n3 = n3
  r1 = r1
  r2 = r2
  NoNode = NoNode
  NoReq = NoReq
  Node <- ThreeNodes
  Candidates <- OnlyFirst
  Slowable <- FirstTwo
  Req <- TwoWrites
  MayTimeOut = FALSE
  Majority = 2
  MaxTerm = 2
  MaxLsn = 2
  MaxCrashes = 0
  MaxLate = 1
SPECIFICATION FairClusterSpec
INVARIANTS
  ClusterTypeOK
  CalmWritesGoOn
  CalmLogsAgree
PROPERTIES
  CalmWritesSucceed
CHECK_DEADLOCK FALSE

CONSTANTS
  n1 = n1
  n2 = n2
  n3 = n3
  r1 = r1
  r2 = r2
  NoNode = NoNode
  NoReq = NoReq
  Node <- ThreeNodes
  Candidates <- OnlySecond
  Slowable <- NoNodes
  Req <- TwoWrites
  MayTimeOut = TRUE
  Majority = 2
  MaxTerm = 2
  MaxLsn = 2
  MaxCrashes = 0
  MaxLate = 0
SPECIFICATION FairElectedSpec
INVARIANTS
  EntriesKeepTheirPlace
  LocksMatchHolders
PROPERTIES
  ImplementsQuorumStore
  EveryPutAnswered
CHECK_DEADLOCK FALSE

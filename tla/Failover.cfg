CONSTANTS
  n1 = n1
  n2 = n2
  n3 = n3
  NoNode = NoNode
  Node <- ThreeNodes
  Majority = 2
  MaxTerm = 5
  MaxLsn = 0
  MaxCrashes = 1
  MaxLate = 0
  Interval = 1
  MaxGap = 1
  TimeoutMin = 2
  TimeoutMax = 3
  VoteTimeout = 1
  MaxFaults = 1
SPECIFICATION ElectedSpec
INVARIANTS
  FailoverTypeOK
PROPERTIES
  NoElectionBesideLeader
  ElectsUnlessLingering
CHECK_DEADLOCK FALSE

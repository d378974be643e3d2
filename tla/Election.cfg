CONSTANTS
  n1 = n1
  n2 = n2
  n3 = n3
  NoNode = NoNode
  Node <- ThreeNodes
  Majority = 2
  MaxTerm = 2
  MaxLsn = 1
  MaxCrashes = 1
  MaxLate = 1
SPECIFICATION ElectionSpec
CONSTRAINT CrashOrTraffic
SYMMETRY NodeSymmetry
INVARIANTS
  ElectionTypeOK
  SplitNeedsForgetfulVoter
  LeadersWereElected
PROPERTIES
  TermGoesBackOnlyByWinning
CHECK_DEADLOCK FALSE

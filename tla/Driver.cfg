CONSTANTS
  n1 = n1
  n2 = n2
  n3 = n3
  b1 = b1
  b2 = b2
  Business <- Businesses
  RawBusinesses <- BusinessFile
  RawReviews <- ReviewFile
  SampleSize = 1
  MaxReviews = 1
  Node <- ThreeNodes
  NodeOrder <- InOrder
  Majority = 2
  MaxRetries = 1
  MaxPolls = 1
  MaxFaults = 1
  MaxTerm = 2
SPECIFICATION FairDriverSpec
INVARIANTS
  DriverTypeOK
  SampleIsConsistent
  StoredValuesArePrefixes
  ConvergedNodesAgree
  ConfirmedStays
  PassIsFinal
  CalmRunPasses
PROPERTIES
  DriverAdvances
  DriverEnds
CHECK_DEADLOCK FALSE

CONSTANTS
  k1 = k1
  k2 = k2
  NoKey = NoKey
  Key <- TwoKeys
  MaxTerm = 2
  MaxPuts = 3
  MaxCrashes = 2
  MaxCorruptions = 1
  Tears <- AllTears
  FsyncMayFail = TRUE
SPECIFICATION WALSpec
SYMMETRY KeySymmetry
INVARIANTS
  WALTypeOK
  LossBoundedByTears
  MemoryIsReplay
  LsnReuseNeedsTear
PROPERTIES
  RestartKeepsTerm
  ImplementsDurableLog
CHECK_DEADLOCK FALSE

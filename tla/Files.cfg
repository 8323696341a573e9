SPECIFICATION MCSpec
CONSTANTS
  Handles = {h1, h2}
  Locks = {l1, l2}
  SpareLock = l2
  OpenRequests <- MCRequests
  MaxOpens = 3
  MaxBytes = 1
  Tasks = {t1, t2}
  Plans <- MCPlans
  TempNames = {n1, n2}
  MaxNodes = 5
  MaxAttempts = 2
  MaxLength = 2
  InitialNodes <- MCNodes
  Outside <- MCOutside
  TreePath <- MCTreePath
  ListPath <- MCTreePath
  MakePath <- MCMakePath
  Limits = {1, 4}
  MaxSwaps = 1
  Contents <- MCContents
  ByteLimits = {0, 2, 3}
  ScratchSizes = {0, 2}
  MaxTransfers = 2
  MaxGrowth = 1
INVARIANTS
  LocksAreSound
  ReplacementIsAtomic
  TreeOperationsAreTrue
  TransfersAreExact
PROPERTY
  CreateOnlyNeverReplaces

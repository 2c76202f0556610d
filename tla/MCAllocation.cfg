SPECIFICATION FairSpec
CONSTANTS
  w1 = w1
  w2 = w2
  n1 = n1
  NoWorker = NoWorker
  Workers = {w1, w2}
  Instances = {n1}
  Home <- OneHome
  ListLen = 3
  NumCarriers = 2
  BlockList <- HighList
  Reserved = {0}
  AFS_INVALID_BLOCK = 15
INVARIANTS
  TypeOK
  NoDoubleAllocation
  ReservedNeverAcquired
PROPERTIES
  AtomicSpec
  AcquireReturns
CHECK_DEADLOCK FALSE

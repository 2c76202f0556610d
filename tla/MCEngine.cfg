SPECIFICATION FairSpec
CONSTANTS
  r1 = r1
  r2 = r2
  r3 = r3
  Reqs = {r1, r2, r3}
  NoReq = NoReq
  Zero = Zero
  Junk = Junk
  NumBlocks = 2
  SectorsPerBlock = 1
  NumCarriers = 2
  ListLen = 5
  BlockList <- HighList
  Reserved = {0}
  AFS_INVALID_BLOCK = 15
  Serialised = TRUE
  MaxOverwrites = 0
INVARIANTS
  TypeOK
  RestingBlocksIntact
PROPERTIES
  DeviceSpec
  RequestsEnd
CHECK_DEADLOCK FALSE

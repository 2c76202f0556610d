SPECIFICATION Spec
CONSTANTS
  r1 = r1
  r2 = r2
  r3 = r3
  Reqs = {r1, r2}
  NoReq = NoReq
  Zero = Zero
  Junk = Junk
  NumBlocks = 1
  SectorsPerBlock = 1
  NumCarriers = 2
  ListLen = 5
  BlockList <- HighList
  Reserved = {0}
  AFS_INVALID_BLOCK = 15
  Serialised = FALSE
  MaxOverwrites = 0
SYMMETRY ReqSymmetry
INVARIANT
  RestingBlocksIntact
CHECK_DEADLOCK FALSE

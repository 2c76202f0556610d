SPECIFICATION Spec
CONSTANTS
  r1 = r1
  r2 = r2
  r3 = r3
  Reqs = {r1, r2}
  NoReq = NoReq
  Zero = Zero
  Junk = Junk
  NumBlocks = 1
  SectorsPerBlock = 1
  NumCarriers = 3
  ListLen = 7
  BlockList <- HighList
  Reserved = {0}
  AFS_INVALID_BLOCK = 15
  Serialised = TRUE
  MaxOverwrites = 1
SYMMETRY ReqSymmetry
INVARIANT
  LossTolerated
CHECK_DEADLOCK FALSE

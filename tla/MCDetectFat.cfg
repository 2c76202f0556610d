CONSTANTS
  Devices <- FatAligned
  PageBytes <- Page
  SectorBytes <- Sector
  U32 <- Wrap
  MaxDetections = 1
SPECIFICATION Spec
INVARIANTS
  OnlyFreeClusters
CHECK_DEADLOCK FALSE

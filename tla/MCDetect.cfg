CONSTANTS
  Devices <- MCDevices
  PageBytes <- Page
  SectorBytes <- Sector
  U32 <- Wrap
  MaxDetections = 2
SPECIFICATION Spec
INVARIANTS
  
  FatInBounds
  Ext4ListExact
  Ext4Fits
  NtfsListUnused
  NtfsPassesAgree
  Recognised
  NothingLeftOver

  
CHECK_DEADLOCK FALSE

SPECIFICATION Spec
CONSTANTS
  NumBlocks = 2
  EntriesPerBlock = 1
  NUM_MAP_BLKS_IN_SB = 1
  NUM_MAP_BLKS_IN_PB = 2
  NUM_SUPERBLOCK_REPLICAS = 2
  DeviceSize = 10
  WrapBlocks = 16
  Free = {2, 3, 4, 5, 6, 7, 8}
  ChainLen = 3
  Chain <- ChainOf3
  AFS_INVALID_BLOCK = 31
  Arbitrary = {0, 6}
  Junk = Junk
  Passive = Passive
  MaxVersion = 2
  MaxPassive = 0
  MaxCrashes = 0
INVARIANT
  VectorRebuilt
CHECK_DEADLOCK FALSE

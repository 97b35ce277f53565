SPECIFICATION Spec
CONSTANTS
  SectorsPerBlock = 2
  SectorSize = 1
  BlocksPerGroup = 8
  InodesPerGroup = 8
  BlocksCount = 16
  Sparse = TRUE
  BlockBitmap <- ABlockBitmap
  InodeBitmap <- AInodeBitmap
  DataBlocks <- ADataBlocks
  DataSectors <- ADataSectors
  FirstTable <- ATable
  FirstFiles <- AFiles
  FreeBlockSets <- AFreeBlocks
  FreeInodeSets <- AFreeInodes
  StraySets <- AStray
  CountMod = 64
  MaxMounts = 1
  MaxCrashes = 0
INVARIANTS
  AllocatedMarked
CHECK_DEADLOCK FALSE

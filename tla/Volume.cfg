SPECIFICATION Spec
CONSTANTS
  SectorsPerBlock = 2
  SectorSize = 1
  BlocksPerGroup = 8
  InodesPerGroup = 8
  BlocksCount = 16
  Sparse = TRUE
  BlockBitmap <- ABlockBitmap
  InodeBitmap <- AInodeBitmap
  DataBlocks <- ADataBlocks
  DataSectors <- ADataSectors
  FirstTable <- ATable
  FirstFiles <- AFiles
  FreeBlockSets <- AFreeBlocks
  FreeInodeSets <- AFreeInodes
  StraySets <- NoStray
  CountMod = 64
  MaxMounts = 2
  MaxCrashes = 1
INVARIANTS
  TypeOK
  EntriesSound
  FreeInodesDrift
  UncleanMarked
  CopiesAgree
  PrivateUntilTruncated
CHECK_DEADLOCK FALSE

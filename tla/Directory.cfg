CONSTANTS
  BlockSize = 64
  SectorSize = 32
  Chunk = 16
  Names <- Created
  NameLen <- Lengths
  Offsets <- Positions
  FirstDirs <- Dirs
  MaxFiles = 5
  MaxCrashes = 2
SPECIFICATION Spec
INVARIANTS TypeOK ChainSound NothingLost
PROPERTY AppendEnds
CHECK_DEADLOCK FALSE

SPECIFICATION Spec
CONSTANTS
  Files <- TwoFiles
  Handles = {h1, h2}
  h1 = h1
  h2 = h2
  Bytes = {"w"}
  Junk = "junk"
  SectorSize = 1
  SectorsPerBlock = 2
  BlocksPerFile = 2
  FirstDisk <- TinyDisk
  FirstInodes <- TinyInodes
  FirstFree = {2}
  MaxSize = 3
  MaxCount = 1
  WithinSector = TRUE
  Sharing = TRUE
  Growth = TRUE
  Faulty = TRUE
  PowerFails = TRUE
INVARIANTS
  TypeOK
  Isolated
  SizeAfterData
PROPERTIES
  NeverShrinks
VIEW Shown
SYMMETRY HandleSymmetry
CHECK_DEADLOCK FALSE

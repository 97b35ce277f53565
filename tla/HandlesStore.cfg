SPECIFICATION Spec
CONSTANTS
  Files <- TwoFiles
  Handles = {h1, h2}
  h1 = h1
  h2 = h2
  Bytes = {"w"}
  Junk = "junk"
  SectorSize = 2
  SectorsPerBlock = 2
  BlocksPerFile = 2
  FirstDisk <- TwoDisk
  FirstInodes <- TwoInodes
  FirstFree = {2}
  MaxSize = 3
  MaxCount = 2
  WithinSector = TRUE
  Sharing = FALSE
  Growth = FALSE
  Faulty = FALSE
  PowerFails = FALSE
PROPERTIES
  Implements
SYMMETRY HandleSymmetry

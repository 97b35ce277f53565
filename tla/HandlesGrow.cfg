SPECIFICATION Spec
CONSTANTS
  Files <- TwoFiles
  Handles = {h1, h2}
  h1 = h1
  h2 = h2
  Bytes = {"w"}
  Junk = "junk"
  SectorSize = 2
  SectorsPerBlock = 2
  BlocksPerFile = 2
  FirstDisk <- TwoDisk
  FirstInodes <- TwoInodes
  FirstFree = {2}
  MaxSize = 6
  MaxCount = 2
  WithinSector = TRUE
  Sharing = FALSE
  Growth = TRUE
  Faulty = FALSE
  PowerFails = FALSE
INVARIANTS
  RightBuffer
SYMMETRY HandleSymmetry

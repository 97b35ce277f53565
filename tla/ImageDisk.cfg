CONSTANTS
  Width = 64
  BLOCK_SIZE = 4
  MaxImage = 32
  ImageSizes <- Sizes
  Tables <- TwoEntries
  Values = {v1}
  NoValue = v0
SPECIFICATION Spec
INVARIANTS TypeOK Served ReadsBack WithinImage

SPECIFICATION Spec
CONSTANTS
  Retries = 2
  Ncr = 1
  SectorBytes = 2
  AddressMod = 8
  Kinds = {"SC1", "SC2", "HC"}
  SizeOf <- Sizes
  Garbage = 8
  Blocks = {1, 2, 4}
  MaxSwaps = 2
INVARIANT WriteReported

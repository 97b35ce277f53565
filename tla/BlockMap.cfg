CONSTANTS
  Direct = 2
  Entries = 2
  Boots <- BootBlocks
  MaxHoles = 2
SPECIFICATION Spec
INVARIANTS TypeOK Translates FreesAll FreesOwn

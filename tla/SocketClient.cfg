SPECIFICATION Spec
CONSTANTS
  ReadCap = 3
  WriteCap = 3
  MaxIn = 4
  MaxOut = 3
  FullReads = FALSE
  FullWrites = FALSE
INVARIANTS TypeOK ReadWindow WriteWindow WireInOrder

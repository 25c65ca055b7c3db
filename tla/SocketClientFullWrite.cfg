SPECIFICATION Spec
CONSTANTS
  ReadCap = 1
  WriteCap = 3
  MaxIn = 0
  MaxOut = 3
  FullReads = FALSE
  FullWrites = TRUE
PROPERTY ZeroWriteKeepsPosition

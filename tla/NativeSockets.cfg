SPECIFICATION Spec
CONSTANTS
  Plain = {p1}
  Tls = {t1}
  MaxFd = 3
  MaxBlocks = 2
INVARIANTS TypeOK OwnResources ConnectedIsUsable  NothingLeaks

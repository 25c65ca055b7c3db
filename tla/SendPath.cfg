SPECIFICATION FairSpec
CONSTANTS
  MaxFrag = 2
  MaxBytes = 6
INVARIANTS
  TypeOK
  WireIsStream
  CleanClose
PROPERTIES
  ImplementsStream
  RetrySucceeds

SPECIFICATION Spec
CONSTANTS
  ReadCap = 7
  HandshakeLen = 1
  Scripts <- MCScripts
  MaxConns = 1
  ReadsOn = FALSE
PROPERTY ImplementsChannel EveryFrameTold

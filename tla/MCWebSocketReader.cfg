SPECIFICATION Spec
CONSTANTS
  ReadCap = 7
  HandshakeLen = 1
  Scripts <- MCScripts
  MaxConns = 2
  ReadsOn = FALSE
INVARIANTS TypeOK FramesInOrder BufferAligned NeverReadsFull BodyIsPayload

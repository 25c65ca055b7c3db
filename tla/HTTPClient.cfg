SPECIFICATION Spec
CONSTANTS
  Hosts = {h1}
  ReadCap = 9
  Lengths = {0, 1, 2}
  MaxConns = 2
  MaxCalls = 3
INVARIANTS TypeOK ReplyInTurn BufferContinues BodyIsReply AtMostOnce  FullOnlyIfUnfit
PROPERTY EveryCallEnds

SPECIFICATION Spec
CONSTANTS
  ReadCap = 18
  Responses <- MCResponses
INVARIANTS TypeOK MatchedIsReal ValidNotRejected 
PROPERTY ValidIsAnswered

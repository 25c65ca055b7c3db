SPECIFICATION Spec
CONSTANTS
  ReadCap = 18
  Responses <- MCResponses
INVARIANT MatchedConsumesResponse

CONSTANTS
  Calls = {a}
  Requests = {q}
  MaxInvalid = 0
  Responses <- AllResponses
  Faults <- AllFaults
  None = None
SPECIFICATION FairSpec
INVARIANTS
  CallersLearnTheOutcome
PROPERTIES
  TurnsLetGo

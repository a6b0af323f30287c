CONSTANTS
  Calls = {a, b}
  Requests = {q}
  MaxInvalid = 1
  Responses <- OnlyEnd
  Faults <- ModeFault
  None = None
SYMMETRY Symmetry
CONSTRAINT NoShutdown
SPECIFICATION Spec
INVARIANTS
  TurnsAreExclusive
  SessionBreaksOnlyFromOutside

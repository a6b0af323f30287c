SPECIFICATION Spec
CONSTANTS
  Sessions = {"s1", "s2"}
  Scenarios <- MCScenarios
CHECK_DEADLOCK FALSE
INVARIANTS
  ReadyIsConfigured
  SessionsCleanUp
PROPERTIES
  CancelledSessionsClose

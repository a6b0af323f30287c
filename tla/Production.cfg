SPECIFICATION MCSpec
CONSTANTS
  Scenarios <- MCScenarios
  MaxRepairs = 1
  MaxGeneration = 2
  FlushBytes = 3
  FlushAge = 1
  MessageMaxBytes = 5
  ActMessagesMaxBytes = 7
  PlanMaxBytes = 1
  PayloadMaxDepth = 2
  PayloadMaxNodes = 4
  SnapshotMaxBytes = 2
  ActPayloadMaxBytes = 5
  Stories <- MCStories
  Casts = {"c1", "c2"}
  Names = {"actor"}
  NameOf <- MCNameOf
INVARIANTS
  NothingOutlivesTheRun
  ReportsMatchTheRun
  NamesIdentifyActors
  ShutdownIsNeverStuck
  FailuresAreExplained
  ActsEndTruthfully
  
CHECK_DEADLOCK FALSE

CONSTANTS
  MaxEvents = 3
  MaxBytes = 4
  PauseEvents = 2
  PauseBytes = 3
  ResumeEvents = 1
  ResumeBytes = 1
  Sizes = {1, 2}
  MaxSequence = 4
  BatchEvents = 2
  BatchBytes = 3
  Setups <- MCSetups
SPECIFICATION GuardSpec
INVARIANTS
  AccountingIsExact
  
PROPERTIES
  ArchiveIsDurableLog
  RunsSettle

CONSTANTS
  MaxSequence = 2
  Sizes = {1}
  TotalLimit = 1
  StructuralReserve = 0
  RuntimeLimit = 1
  OtherShares = {0, 1}
  DiscardAttempts = 1
  None = None
SPECIFICATION FairSpec
INVARIANTS
  EventsAreAccounted
PROPERTIES
  ClosedSinkIsQuiet
  SinksClose
CHECK_DEADLOCK FALSE

SPECIFICATION MCSpec
CONSTANTS
  Cleaners = {c1, c2}
  Readers = {r1}
  MaxFaults = 1
  RunIds = {1, 2, 3}
  Times = {0, 1}
  Sizes = {1, 2}
INVARIANTS
  
  CleanupIsExact

  
CHECK_DEADLOCK FALSE

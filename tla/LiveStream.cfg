SPECIFICATION Spec
CONSTANTS
  MaxBufferedEvents = 1
  MaxBufferedFrames = 2
  LiveEdgeCapacity = 1
  SnapshotSuffix = 1
  Relevant = {2, 3}
  MaxEvents = 3
  MaxBatch = 2
  MaxFaults = 1
INVARIANTS
  
  CachedQueriesAreFresh
PROPERTIES
  ResumeLosesNothing
  
CHECK_DEADLOCK FALSE

CONSTANTS
  Parts = {"lanes", "mixed", "download", "publish", "messages", "records", "usages"}
  Scopes <- MCScopes
  Relations = {"r"}
  Details <- MCDetails
  MAX_CAUSAL_LINKS = 1
  MaxTime = 2
  MaxExact = 3
  MaxEntries = 40
  MaxBatch = 2
  Archive = TRUE
  MaxCommitted = 2
  Requested = {0, 1, 2}
  Publishers = {a, b}
  Forced = {b}
  FirstTargets = {"absent", "file", "directory"}
  MaxFaults = 1
  MaxIntrusions = 1
SPECIFICATION Spec
INVARIANTS
  SpansLieInParents
  ExportIsExact
  SnapshotIsExact
  PublicationIsDurable
PROPERTIES
  FilesSurvive
  
CHECK_DEADLOCK FALSE

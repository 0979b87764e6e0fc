SPECIFICATION Spec
CONSTANTS
  Owner = {"shutter", "filter", "beckmann"}
  DataSize <- MCDataSize
  ChunkSize = 2
  Unset = "unset"
  Graphs <- MCGraphs
  PassChanges <- OnePass
  RateChanges = {FALSE}
  MaxEdits = 1
CHECK_DEADLOCK FALSE
INVARIANTS
  FreshWhenCopied
  StaleIsNoticed
  Settles
  TablesOnDevice
  TablesRemoved
  TablesDisjoint

SPECIFICATION Spec
CONSTANTS
  Chunks = 2
  PipeChunks = 1
  Inodes = {1, 2, 3}
  SharedListener = TRUE
  MaxContent = 2
  MaxFaults = 2
INVARIANTS
  SnapshotWhole
  
  DumpWhole
PROPERTIES
  SnapshotsResume

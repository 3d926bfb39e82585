SPECIFICATION Spec
CONSTANTS
  Primary = 1
  Followers = {2, 3}
  Upstream <- ChainUpstream
  Journaled = {2, 3}
  Savers = {3}
  BrokerAck = TRUE
  BufferFrames = 1
  TimeBuffer = 3
  MaxBatch = 2
  MaxWrites = 2
  MaxFaults = 1
  MaxSaves = 1
INVARIANTS
  TypeOK
  FollowerPrefix
  NothingMissed
PROPERTIES
  CatchesUp
CHECK_DEADLOCK FALSE

SPECIFICATION Spec
CONSTANTS
  Primary = 1
  Followers = {2}
  Upstream <- PairUpstream
  Journaled = {2}
  Savers = {1}
  BrokerAck = TRUE
  BufferFrames = 1
  TimeBuffer = 3
  MaxBatch = 1
  MaxWrites = 3
  MaxFaults = 1
  MaxSaves = 1
INVARIANT
  LiveAgrees
CHECK_DEADLOCK FALSE

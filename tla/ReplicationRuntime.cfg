SPECIFICATION FairSpec
CONSTANTS
  Clients = {c1, f1}
  Followers = {f1}
  BrokerAck = TRUE
  PendingLimit = 1
  BufferFrames = 1
  MaxCommand = 2
  MaxOffset = 4
  MaxSequence = 2
CHECK_DEADLOCK FALSE
INVARIANTS
  ReplyDurable
  NoDanglingSession
  FirehoseDurable
  StreamContiguous

  

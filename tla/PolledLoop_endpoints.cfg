SPECIFICATION FairSpec
CONSTANTS
  N = 2
  Kinds = {"ping"}
  BrokerAck = FALSE
  PendingLimit = 0
  IdleSpins = 2
  SqHalves = 4
  CqRecords = 1
  RecordHalves = 4
  MaxCommands <- TwoThenOne
  MaxEpoch <- OneThenTwo
  MaxItems = 1
PROPERTIES
  
  Connected
  

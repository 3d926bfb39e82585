SPECIFICATION Spec
CONSTANTS
  N = 1
  Kinds = {"ping", "push", "block", "quit"}
  BrokerAck = TRUE
  PendingLimit = 2
  IdleSpins = 2
  SqHalves = 4
  CqRecords = 2
  RecordHalves = 2
  MaxCommands <- ThreeCommands
  MaxEpoch <- ThreeClients
  MaxItems = 1
INVARIANTS
  TypeOK
  StreamConserved
  

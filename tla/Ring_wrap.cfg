SPECIFICATION FairSpec
CONSTANTS
  Capacity = 8
  Mirror = FALSE
  MaxMessage = 5
  MaxMessages = 4
PROPERTIES FifoSpec MessageSent
CHECK_DEADLOCK FALSE

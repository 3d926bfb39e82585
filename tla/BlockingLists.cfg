SPECIFICATION Spec
CONSTANTS
  Clients = {"c1", "c2", "p"}
  Keys = {"k", "l"}
  Sends <- MCSends
  MaxSent <- MCMaxSent
INVARIANTS
  WaitersAgree
  NoneForgotten
  Conserved
  RepliesInOrder
PROPERTIES
  NoOvertaking
  TimedAnswered
  InputRuns

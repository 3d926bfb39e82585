SPECIFICATION Spec
CONSTANTS
  s1 = s1
  s2 = s2
  c1 = c1
  p1 = p1
  p2 = p2
  Session = {s1, s2}
  Resp2 = {s2}
  Channel = {c1}
  Pattern = {p1, p2}
  Matches <- Globs
  Capacity = 11
  Header = 3
  Marker = 2
  Lengths = {1}
  Overhead <- Framing
  ReplyBytes = 2
  CompactThreshold = 2
  MaxOutputs <- Outputs
  MaxWrite = 2
INVARIANTS
  TypeOK
  RegistryAgrees
  StreamWhole
  NoneDropped
  SpaceReturned
  NothingStuck

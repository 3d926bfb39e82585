SPECIFICATION Spec
CONSTANTS
  Session = {s1, s2}
  Key = {a, b}
  Op = {"SET", "DEL", "PEXPIRE", "GET", "UNWATCH"}
  Capacity = 1
  MaxTime = 1
SYMMETRY Symmetry
INVARIANTS
  TypeOK
  WatchExact
  ExecComplete

SPECIFICATION SnapshotSpec
CONSTANTS
  Key = {a, b, c, d}
  Value = {x, y}
  MaxTime = 2
  MaxKeyId = 2
  Budget = 1
SYMMETRY Symmetry
INVARIANTS
  LoadRestores
PROPERTIES
  MapSpec
  NothingSilent

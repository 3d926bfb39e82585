SPECIFICATION Spec
CONSTANTS
  Key = {"a", "b"}
  Value = {"x"}
  MaxTime = 2
  MaxKeyId = 1
  Budget = 1
INVARIANT CopyKeepsExpiry

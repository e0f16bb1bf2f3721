CONSTANTS
  Node = {n1, n2}
  Version <- MCVersion2
  Absent = Absent
  Hasty = {"edit", "delete"}
  MaxEdits = 1
  MaxFaults = 1
  MaxFailures = 1
SPECIFICATION Spec
INVARIANT TypeOK
INVARIANT GoneOnlyAfterReset
INVARIANT NothingForgotten
INVARIANT ResetUndisturbed
PROPERTY CleanedUp
CHECK_DEADLOCK FALSE

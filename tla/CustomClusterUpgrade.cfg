CONSTANTS
  Node = {n1, n2}
  Version <- MCVersion2
  Absent = Absent
  Hasty = {"edit", "delete"}
  MaxEdits = 1
  MaxFaults = 0
  MaxFailures = 1
SPECIFICATION FairSpec
PROPERTY UpgradeCompletes
CHECK_DEADLOCK FALSE

CONSTANTS
  Node = {n1, n2}
  Version <- MCVersion
  Absent = Absent
  Hasty = {"delete"}
  MaxEdits = 2
  MaxFaults = 0
  MaxFailures = 1
SPECIFICATION FairSpec
INVARIANT RecordMatchesMachines
INVARIANT ScaleInTurn
PROPERTY ScalingCompletes
PROPERTY DeletionCompletes
CHECK_DEADLOCK FALSE

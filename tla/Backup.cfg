\* A Backup and a Restore on two clusters.
SPECIFICATION FairSpec
CONSTANTS
  c1 = c1
  c2 = c2
  Cluster <- const_Cluster
  Destination <- const_Destination
  RestoreDestination <- const_RestoreDestination
  MaxRuns = 1
  MaxMishaps = 1
INVARIANTS
  BackupRestsWhenComplete
  RestoreRestsWhenComplete
PROPERTIES
  DeletionCompletes
  BackupIsReported
CHECK_DEADLOCK FALSE

\* A Migrate from one cluster to two.
SPECIFICATION FairSpec
CONSTANTS
  c1 = c1
  c2 = c2
  c3 = c3
  Cluster <- const_Cluster
  Source <- const_Source
  first = c1
  Target <- const_Target
  TargetFleet <- const_TargetFleet
  MaxMishaps = 2
INVARIANTS
  CompletedIsRestored
PROPERTIES
  RestoredAfterBackup
  MigrationCompletes
CHECK_DEADLOCK FALSE

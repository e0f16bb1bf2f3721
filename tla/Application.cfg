\* An Application of two policies on a fleet of two clusters.
SPECIFICATION FairSpec
CONSTANTS
  c1 = c1
  c2 = c2
  Cluster <- const_Cluster
  N = 2
  Rollout <- const_Rollout
  Renamed = {}
  MaxRules = 1
  MaxEdits = 1
  MaxMishaps = 2
INVARIANTS
  CanaryAfterService
PROPERTIES
  RolloutsDeleted
  Deployed
  TestLoaderFollowsSpec
CHECK_DEADLOCK FALSE

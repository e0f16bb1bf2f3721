\* A Cluster with a pod identity, failing calls, edits and deletion.
SPECIFICATION FairSpec
CONSTANTS
  PodIdentity = TRUE
  MaxEdits = 1
  MaxMishaps = 2
INVARIANTS
  CertsKept
  CAPIHasItsInfra
PROPERTIES
  CleanedUp
  BecomesReady
  DeletionCompletes
CHECK_DEADLOCK FALSE

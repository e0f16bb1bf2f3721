\* One fleet, with or without a control plane, and two attached clusters.  The fleet is not
\* deleted while its init pod runs.
SPECIFICATION FairSpec
CONSTANTS
  c1 = c1
  c2 = c2
  Cluster <- const_Cluster
  DeleteAnytime = FALSE
  MaxEdits = 1
  MaxMishaps = 1
INVARIANTS
  MemberIsLabelled
  NothingForgotten
  AllReleased
PROPERTIES
  DeletionCompletes
  MembersFollowSpec
CHECK_DEADLOCK FALSE

SPECIFICATION FairSpec
CONSTANTS
  Members <- MCMembers
  Preinstalled = {"kubectl-karmada"}
  Goals <- Goal
  MaxMishaps = 3
INVARIANTS
  OneRoot
  RemotesAfterPrimary
PROPERTY RetriesSucceed

SPECIFICATION InventoryFairSpec
CONSTANTS
  Specs <- MCSpecs
  Versions <- MCVersions
  MaxEdits = 3
INVARIANTS
  WellFormed
PROPERTY FollowsSpec
CHECK_DEADLOCK FALSE

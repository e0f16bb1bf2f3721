\* One Pipeline, its runs, failures and edits.
SPECIFICATION FairSpec
CONSTANTS
  p1 = p1
  Unbound = Unbound
  Pipelines <- const_OnePipeline
  NameOf <- const_OneName
  Specs <- const_Specs
  MaxEdits = 2
  MaxMishaps = 3
INVARIANTS
  TasksRunInOrder
PROPERTIES
  SpecApplied
CHECK_DEADLOCK FALSE

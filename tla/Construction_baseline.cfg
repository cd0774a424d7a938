CONSTANTS
  MaxGeneration = 1
  CrashBudget = 1
  MaxLanes = 4
  NamePersists = FALSE
SPECIFICATION Spec
INVARIANT BaselineComplete

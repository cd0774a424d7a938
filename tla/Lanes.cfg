CONSTANTS
  LaneCount = 4
  CallBudget = 3
SPECIFICATION FairSpec
INVARIANTS
  Quiescent
PROPERTIES
  KeepsLaneContract
  CallsEnd

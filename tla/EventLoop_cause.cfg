CONSTANTS
  c1 = c1
  c2 = c2
  c3 = c3
  Conn = {c1, c2}
  Readers = {c1}
  ConnectionLimit = 2
  OutputBudget = 0
  MaxElsewhere = 0
  PollMayFail = FALSE
SPECIFICATION FairSpec
PROPERTY ClosedForCause

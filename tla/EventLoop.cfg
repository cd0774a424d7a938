CONSTANTS
  c1 = c1
  c2 = c2
  c3 = c3
  Conn = {c1, c2}
  MaxElsewhere = 1
  Readers = {c1}
  ConnectionLimit = 2
  OutputBudget = 1
  PollMayFail = TRUE
SPECIFICATION FairSpec
INVARIANTS
  PeerTableExact
PROPERTIES
  FailedIsClosed
  OutputSent

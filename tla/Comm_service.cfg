CONSTANTS
  c1 = c1
  c2 = c2
  r1 = r1
  r2 = r2
  Conn = {c1}
  RequestIds = {r1, r2}
  Kinds <- LoadAndShutdown
  Audiences <- Nobody
  Mode = "demo"
  ConnectionLimit = 1
  OutboundLimit = 2
  FrameBudget = 3
  ConsoleBudget = 1
  PollMayFail = TRUE
  None = None
SPECIFICATION FairSpec
INVARIANT OutstandingExact
PROPERTIES
  EndsOnce
  RequestsAnswered

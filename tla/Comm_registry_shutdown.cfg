CONSTANTS
  c1 = c1
  c2 = c2
  r1 = r1
  r2 = r2
  Conn = {c1}
  RequestIds = {r1}
  Kinds <- OnlyShutdown
  Audiences <- Nobody
  Mode = "full"
  ConnectionLimit = 1
  OutboundLimit = 2
  FrameBudget = 2
  ConsoleBudget = 0
  PollMayFail = FALSE
  None = None
SPECIFICATION Spec
INVARIANT RegistryAliveUntilCleared

CONSTANTS
  c1 = c1
  c2 = c2
  r1 = r1
  r2 = r2
  Conn = {c1, c2}
  RequestIds = {r1, r2}
  Kinds <- LoadAndShutdown
  Audiences <- Everyone
  Mode = "full"
  ConnectionLimit = 2
  OutboundLimit = 2
  FrameBudget = 2
  ConsoleBudget = 0
  PollMayFail = FALSE
  None = None
SYMMETRY Symmetry
SPECIFICATION Spec
INVARIANTS
  RegistryAlive
  CloseIsLast
  LoginBoundary
  GateExact
  StoppedIsClean
PROPERTY CloseIsFinal

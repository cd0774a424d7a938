CONSTANTS
  MaxTime = 3
  Limits = {0, 1, 2}
  StartupModes <- AllStartups
  None = None
SPECIFICATION Spec
INVARIANTS
  FailsClosed
  ServesUnderLicense

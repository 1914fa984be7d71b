CONSTANTS
  Connections = {r1, r2, r3, r4}
  Unset = Unset
  Junk = Junk
  KnownLanguages <- MCKnownLanguages
  Environments <- MCEnvironments
SPECIFICATION FairProcess
CHECK_DEADLOCK FALSE
INVARIANTS
  CleanExit
  ServesAsConfigured
PROPERTY StopsOnSignal

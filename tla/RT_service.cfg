\* Two clients, two components, two managers.
CONSTANTS
  Components = {k1, k2}
  DegradedReady = TRUE
  Clients = {c1, c2}
  MaxManagers = 2
  GlobalLimit = 1
SPECIFICATION FairSpec
INVARIANTS ServingIsOpen OneOpenManager ShutdownIsSafe DegradedHasReason
PROPERTIES LegalMoves ShutdownCompletes
CHECK_DEADLOCK FALSE

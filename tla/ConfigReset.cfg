SPECIFICATION Spec
CONSTANTS
  DaliKey = {"names", "groups"}
  Last <- MCLast
  ManyFailures = FALSE
  ReloadTask = {"t1", "t2"}
  MaxUpdates = 3
PROPERTIES
  ResetReturnsToProvisioning

SPECIFICATION Spec
CONSTANTS
  NumAddr = 2
  LongAddr = {1, 2, 3}
  FirstPseudo = 4
  Inputs = FALSE
  Scanner = {"mqtt"}
  MaxScans = 1
  MaxFaults = 0
  MaxReboots = 1
  MaxRecalls = 1
CHECK_DEADLOCK FALSE
INVARIANTS
  LookupExact
PROPERTIES
  BootMapTrue
  EventuallySaved

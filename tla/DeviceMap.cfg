SPECIFICATION SafeSpec
CONSTANTS
  NumAddr = 2
  LongAddr = {1, 2}
  FirstPseudo = 4
  Inputs = TRUE
  Scanner = {mqtt, web}
  MaxScans = 2
  MaxFaults = 1
  MaxReboots = 1
  MaxRecalls = 1
CONSTRAINT OneDisturbance
SYMMETRY ScannersAlike
CHECK_DEADLOCK FALSE
INVARIANTS
  MapClosed
PROPERTIES
  NothingForgotten

SPECIFICATION Spec
CONSTANTS
  NumAddr = 3
  Unassigned = 255
  GearList <- MCGearList
  MaxDelay = 2
  Stagger = 1
  MaxDeferred = 2
INVARIANTS
  QueueMatchesSet
PROPERTIES
  UrgentFirst
  RefinesPendingPolls
  SweepsWhenQuiet

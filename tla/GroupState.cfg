SPECIFICATION Spec
CONSTANTS
  Gear = {1, 2}
  MaxLevel = 2
  StepSize = 1
  MaxRequests = 1
  MaxChanges = 2
CHECK_DEADLOCK FALSE
INVARIANTS
  RestoresLevel
  Published
PROPERTIES
  StaysSettled
  GroupConverges

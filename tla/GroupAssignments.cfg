SPECIFICATION Spec
CONSTANTS
  Gear = {1}
  Group = {1}
  Refresher = {"scan"}
  MaxCalls = 3
  MaxChanges = 1
  MaxFaults = 1
CHECK_DEADLOCK FALSE
INVARIANTS
  
  SavedWhenDone
  BrokerFollowsTable

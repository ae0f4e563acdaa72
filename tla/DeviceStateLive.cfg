SPECIFICATION Spec
CONSTANTS
  Gear = {1}
  Group = {1}
  Via = {"short"}
  Level = {0, 254}
  QueueSize = 1
  MaxFrames = 1
  MaxCommands = 1
  MaxScans = 0
  MaxFaults = 1
CHECK_DEADLOCK FALSE
PROPERTIES
  CacheConverges
  OutageNoticed
  BrokerConverges

SPECIFICATION SafeSpec
CONSTANTS
  Gear = {1}
  Group = {1}
  Via = {"short", "group"}
  Level = {0, 254}
  QueueSize = 1
  MaxFrames = 1
  MaxCommands = 1
  MaxScans = 1
  MaxFaults = 1
CONSTRAINT FramesByGroup
CHECK_DEADLOCK FALSE
INVARIANT BrokerFollowsCache
PROPERTY OnLights

SPECIFICATION DriverSpec
CONSTANTS
  IdleTicks = 2
  TxTimeout = 6
  OsTick = 2
  MaxFrames = 2
  MaxForeign = 1
CHECK_DEADLOCK FALSE
INVARIANTS
  ReplyIsOwn
  SentOnce
  HeardWhenFree
PROPERTIES
  CallReturns
  RefinesBusCalls

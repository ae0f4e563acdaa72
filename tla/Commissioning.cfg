SPECIFICATION Spec
CONSTANTS
  Device = {1, 2}
  Base = 2
  Half <- MCHalf
  NumShort = 2
  RandomAddr = {0, 1, 4, 7}
  MaxLostFrames = 1
  MaxLostReplies = 1
CHECK_DEADLOCK FALSE
INVARIANTS
  FindsSmallest
  AddressesApart
  CountTrue
PROPERTIES
  Terminates
  GetsOn

SPECIFICATION FairSpec
CONSTANTS
  here = here
  there = there
  Ends <- BothEnds
  Lengths <- ThreeLengths
  PREFIX = 2
  TEMP_BUF_SIZE = 5
  MSG_BUF_SIZE = 5
  MAX_UNSENT_MSGS = 2
  ROOM <- TwoRooms
  MaxMsgs = 3
CHECK_DEADLOCK FALSE
INVARIANTS
  InOrder
PROPERTIES
  Delivered
  JamIsForever

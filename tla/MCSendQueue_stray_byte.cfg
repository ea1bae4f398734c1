SPECIFICATION Spec
CONSTANTS
  Lengths <- TwoLengths
  MAX_UNSENT_MSGS = 2
  OffsetModulus = 8
  MaxMsgs = 4
INVARIANTS
  OnlyTheRestIsQueued

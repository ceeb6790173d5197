SPECIFICATION FairSpec
CONSTANTS
  NrMsgs = 8
  SchedInterval = 3
  Depth = 4
  MaxFaults = 1
INVARIANT AllReceived
CHECK_DEADLOCK FALSE

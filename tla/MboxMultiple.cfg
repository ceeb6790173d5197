SPECIFICATION FairSpec
CONSTANTS
  NrMsgs = 8
  SchedInterval = 3
  Depth = 4
  MaxFaults = 2
INVARIANTS
  VerdictIsRight
PROPERTY EndsWithPass
CHECK_DEADLOCK FALSE

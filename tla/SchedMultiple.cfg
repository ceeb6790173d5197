SPECIFICATION FairSpec
CONSTANTS
  n_spes = 2
  pattern_len = 4
  Depth = 2
  Physical = 1
  MaxFaults = 1
INVARIANTS
  CountsRightly
  VerdictIsRight
PROPERTY Completes
CHECK_DEADLOCK FALSE

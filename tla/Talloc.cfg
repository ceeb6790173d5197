\* Four chunks, a parent, a sibling or child and a reference, from nothing; five from Built.
SPECIFICATION MCSpec
CONSTANTS
  NULL = NULL
  Chunk = {1, 2, 3, 4, 5}
  MaxDestructors = 2
  MaxNested = 2
  Byte = {1, 2}
  MaxLength = 4
  MaxText = 12
  MAX_TALLOC_SIZE = 6
  INT_MAX = 5
  SizeMax = 16
  FAILED = FAILED
  OVERRUN = OVERRUN
INVARIANTS
  WellFormed
  IsForest
  WalksAgree
  StaleOnlyKnown
  AppendsRightly
  NoArrayWraps
PROPERTIES
  FreesOnlyOwn
  HeldSurvive
  AccountsForRest
  
\* The library may never be called again, and the model stops at a fault.
CHECK_DEADLOCK FALSE

SPECIFICATION FairSpec
CONSTANTS
  NR_GANGS = 2
  nr_spes = 2
  ITERATIONS = 2
INVARIANTS
  RingIsRight
  RingComplete
PROPERTIES
  NoOverwrite
  Completes

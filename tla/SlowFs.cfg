\* Three runs: what one leaves is what the next finds, after a clean run too.
SPECIFICATION Spec
CONSTANT MaxRuns = 3
INVARIANTS
  CleanExit
  MountedOnce
  ThreadsAreServed
  SwitchesDuringFault
PROPERTY
  TestEnds
\* Nothing is left to do after the last run.
CHECK_DEADLOCK FALSE

SPECIFICATION Spec
CONSTANT K = 3
INVARIANTS
  SearchIsRight
  GivesUpOnlyOnFailure
PROPERTY SearchEnds

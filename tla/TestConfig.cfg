SPECIFICATION Spec
CONSTANTS
  NTests = 2
  Dir <- MCDir
  Name <- MCName
  Tokens <- MCTokens
  Confs <- MCConfs
  Systems <- MCSystems
  Cells = 2
  Safe = 1
INVARIANTS
  RunsOnlyIfAllowed
  CacheIsRight

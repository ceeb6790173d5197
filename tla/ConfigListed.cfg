SPECIFICATION Spec
CONSTANTS
  NTests = 2
  Dir <- MCDir
  Name <- MCName
  Tokens <- MCOptions
  Confs <- MCConfs
  Systems <- MCSystems
  Cells = 2
  Safe = 2
INVARIANT OptionsAsListed

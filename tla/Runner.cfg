SPECIFICATION MCSpec
CONSTANTS
  NTests = 2
  Configs <- MCConfigs
  ExitCodes = {0, 1}
  Signals = {11, 14}
  CoreSignals = {11}
  SIGALRM = 14
  TPS = 2
  ReadSize = 2
  PipeSize = 2
  MaxOutput = 3
  MaxDelay = 1
  Descendants = TRUE
INVARIANTS
  TypeOK
  SoundSuccess
  FirstFailureStops
  OneTestAtATime
  KillsOwnTest
  FullTime
  OutputConserved
PROPERTIES
  ImplementsSuite
  ReadFits
  DeathNoticed
  TestsPhaseEnds

SPECIFICATION FairSpec
CONSTANTS
  NTests = 1
  Configs <- MCEnabled
  ExitCodes = {0}
  Signals = {11, 14}
  CoreSignals = {}
  SIGALRM = 14
  TPS = 2
  ReadSize = 1
  PipeSize = 1
  MaxOutput = 1
  MaxDelay = 0
  Descendants = TRUE
PROPERTY EndIsJudged

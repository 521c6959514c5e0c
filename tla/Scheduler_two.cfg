SPECIFICATION FairSpec
CONSTANTS
  Instance = {i1, i2}
  Job = {j1, j2}
  Recurring = {j1}
  SkipPolicy = {j1}
  ClaimLimit = 2
  MaxConcurrent = 2
  HandlerTimeout = 1
  StaleAfter = 2
  MissedThreshold = 1
  BaseBackoff = 1
  MaxBackoff = 2
  MaxAttempts = 2
  Period = 1
  MaxFaults = 1
INVARIANTS OneRunPerJob
PROPERTIES TerminalIsFinal OneShotsEnd

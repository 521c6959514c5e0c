SPECIFICATION Spec
CONSTANTS
  Req = {r1, r2}
  Browser = {b1}
  Session = {s1, s2}
  Challenge = {c1, c2}
  None = None
  MaxPassword = 1
  MaxSecret = 2
  MaxBatch = 2
  CodeCount = 1
  MaxAttempts = 2
  SFThreshold = 2
  SFLock = 1
  SFDecay = 2
  MaxWork = 3
  SettingsTabs = 1
SYMMETRY Symmetries
INVARIANTS SecondFactorSingleUse GuessesBounded 
CHECK_DEADLOCK FALSE

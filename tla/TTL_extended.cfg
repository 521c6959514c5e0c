SPECIFICATION Spec
CONSTANTS
  Handler = {h1}
  Durations = {2}
  MaxTTL = 3
  Lead24 = 2
  Lead1 = 1
  MaxAttempts = 2
  Late = 1
  MaxInc = 1
  MaxStarts = 1
  MaxFaults = 0
PROPERTY NeverDestroysExtended
CHECK_DEADLOCK FALSE

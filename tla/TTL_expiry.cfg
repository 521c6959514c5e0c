\* The TTL of one guest.
SPECIFICATION TTLSpec
CONSTANTS
  Routine = {h1}
  Durations = {2}
  MaxTTL = 3
  Lead24 = 2
  Lead1 = 1
  TTLAttempts = 3
  Late = 1
  MaxInc = 1
  MaxStarts = 1
  TTLFaults = 1
  Guest = {g1}
  Owner = {o1, o2}
  Schedule <- MCSchedule
  Writer = {w1, w2}
  MaxEdits = 2
  MaxGuests = 1
  None = None
INVARIANTS ExpiryHasItsJob
PROPERTY ExpiryHappens
CHECK_DEADLOCK FALSE

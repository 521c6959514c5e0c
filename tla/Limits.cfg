SPECIFICATION MCSpec
CONSTANTS
  Key = {k1, k2, k3}
  Kind <- MCKind
  Threshold <- MCThreshold
  LockBase <- MCLockBase
  LockMax <- MCLockMax
  Escalate <- MCEscalate
  Decay = 4
  Width = 3
  MaxStreaks = 1
  MaxLocks = 1
  TrackerPrune = 1
  MaxInFlight = 2
  Address = {ip, ip2, ip3}
  WatchedAddress = ip
  MaxPerIP = 2
  LoginWindow = 2
  AddressPrune = 2
  MaxEntries = 2
  ApiReq = {r1, r2}
  user = user
  Account = {user}
  ApiAddress = {ip}
  Cookie = {cookie1, cookie2}
  UserOf <- MCUserOf
  WatchedKey = user
  Absent = Absent
  ApiLimit = 1
  ApiWindow = 2
  MarkTTL = 2
  BucketPrune = 1
  MaxBuckets = 1
  MaxMarks = 1
  MaxAge = 2
INVARIANTS MapsBounded WindowsHold 
PROPERTIES ImplementsLockout LockLifts

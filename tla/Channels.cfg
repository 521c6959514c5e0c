SPECIFICATION Spec
CONSTANTS
  u1 = u1
  v1 = v1
  v2 = v2
  Conn = {c1, c2}
  User = {u1, adm}
  Admin = {adm}
  VMID = {v1, v2}
  Publisher = {p1, poller}
  Poller = poller
  Subject = {{v1, v2}}
  FirstOwner <- MCFirstOwner
  Buffer = 1
  MaxStreams = 1
  MaxFrames = 2
  MaxMoves = 1
  Req = {r1, r2}
  Sid = {s1, s2}
  SessionTTL = 1
  TicketLifetime = 3
  PVELifetime = 4
  CallTimeout = 1
  MaxBridges = 1
  MaxSessions = 2
  None = None
INVARIANTS NoSendOnClosed  NeverForeign PlacesExact
PROPERTIES StreamReleased ConsoleAnswered

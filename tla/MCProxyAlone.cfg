SPECIFICATION FairSpec
CONSTANTS
  r1 = r1
  r2 = r2
  a = a
  b = b
  c = c
  k = k
  s = s
  Accounts = {a, b, c, k}
  Relays = {k}
  NoAccount = NoAccount
  Requests = {r1}
  Streaming = {r1}
  Compact = {}
  Sessions = {s}
  SessionOf <- OneSession
  NoSession = NoSession
  RouteOf <- NoRoutes
  Start = {a, k}
  AllowIn = FALSE
  MaxRetries = 3
  CompactRounds = 2
  CapacityRetries = 1
  MaxEvents = 1
  MaxDrops = 1
INVARIANT TypeOK
PROPERTIES GivesUpOnHealthy RequestsEnd
CHECK_DEADLOCK FALSE

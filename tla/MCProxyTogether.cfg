SPECIFICATION Spec
CONSTANTS
  r1 = r1
  r2 = r2
  a = a
  b = b
  c = c
  k = k
  s = s
  Accounts = {a, b, k}
  Relays = {k}
  NoAccount = NoAccount
  Requests = {r1, r2}
  Streaming = {r1}
  Compact = {r2}
  Sessions = {s}
  SessionOf <- OneSession
  NoSession = NoSession
  RouteOf <- NoRoutes
  Start = {k}
  AllowIn = FALSE
  MaxRetries = 2
  CompactRounds = 2
  CapacityRetries = 0
  MaxEvents = 0
  MaxDrops = 1
INVARIANT OneSwitcher
PROPERTY SessionsStayOffRelays
CHECK_DEADLOCK FALSE

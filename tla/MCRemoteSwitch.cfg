SPECIFICATION FairSpec
CONSTANTS
  f = f
  o = o
  a1 = a1
  a2 = a2
  a3 = a3
  Hosts = {f}
  Accounts = {a1, a2}
  NoAccount = NoAccount
  Owners = {}
  Loops = {"fast", "quota"}
  Plus = {a2}
  Empty = {a1}
  KnownAtFirst = {a1}
  Attempts = 2
  MaxRequests = 1
  MaxCommands = 1
  MaxFaults = 1
  MaxRotations = 1
  MaxWindows = 1
  MaxEvents = 3
INVARIANTS TypeOK
PROPERTIES Converges
CHECK_DEADLOCK FALSE

SPECIFICATION Spec
CONSTANTS
  h1 = h1
  h2 = h2
  a1 = a1
  a2 = a2
  l = l
  Hosts = {h1, h2}
  Server = Server
  Accounts = {a1, a2}
  NoAccount = NoAccount
  Login <- OneLogin
  Absent = Absent
  MaxFaults = 1
  MaxCommands = 2
SYMMETRY Alike
INVARIANTS TypeOK UniqueLogin NoLoginLost

SPECIFICATION FairSpec
CONSTANTS
  Accounts = {a1, a2}
  Schedulers = {}
  Anchors = {}
  Requests = {r}
  Quotas = {}
  Switches = {s}
  NoAccount = NoAccount
  Free = Free
  AnchorAccount = NoAccount
  MaxIssued = 2
  MaxLost = 1
  MaxRestarts = 1
  Revocable = {}
  CanCodex = FALSE
INVARIANTS TypeOK NeverReused
PROPERTIES KeepsChain RefreshEnds

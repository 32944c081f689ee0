SPECIFICATION Spec
CONSTANTS
  Accounts = {a1, a2}
  Schedulers = {k}
  Anchors = {n}
  Requests = {}
  Quotas = {q}
  Switches = {}
  NoAccount = NoAccount
  Free = Free
  AnchorAccount = a1
  MaxIssued = 2
  MaxLost = 0
  MaxRestarts = 0
  Revocable = {a1}
  CanCodex = TRUE
INVARIANTS OnlyRevokedMarked LiveTokenHeld

SPECIFICATION FairSpec
CONSTANTS
  Ids = {a, b}
  OAuth = {a, b}
  None = None
  Free = Free
  Users = {u}
  Requests = {r}
  Loops = {n}
  Commands = {"add", "delete", "remove", "switch", "archive", "anchor", "clear", "force", "align", "import"}
  MaxFailures = 1
  MaxRestarts = 1
  CanLogin = TRUE
INVARIANTS TypeOK CurrentKnown
PROPERTY AnchorHeals

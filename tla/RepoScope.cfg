CONSTANTS
  Services <- mcServices
  WebProxy = "webproxy"
  HasCompose <- mcCompose
  MaxSpawns = 4
  MaxRestarts = 1
  Repo = "app"
  Areas = {x, y}
  MaxCalls = 2
  MaxVersion = 2
CONSTRAINT InboxBound
CHECK_DEADLOCK FALSE
SPECIFICATION mcSpec
INVARIANTS CommitIsScoped

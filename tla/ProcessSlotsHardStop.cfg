CONSTANTS
  Services <- mcServices
  WebProxy = "webproxy"
  HasCompose <- mcCompose
  MaxSpawns = 1
  MaxRestarts = 1
SPECIFICATION FairSpec
PROPERTY KilledProcessesEnd

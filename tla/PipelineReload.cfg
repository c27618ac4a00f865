CONSTANTS
  Services <- mcApp
  WebProxy = "webproxy"
  HasCompose <- mcFull
  CanBuild <- mcFull
  CanImage <- mcFull
  PipelineServices <- mcFull
  MaxSpawns = 2
  MaxRestarts = 0
  MaxRuns = 2
  MaxRequests = 1
  CanReload = TRUE
  OneService = "app"
CHECK_DEADLOCK FALSE
SPECIFICATION PFairSpec
INVARIANTS RunningStageIsRun AwaitsAreAnswerable
PROPERTY RunsSettle

CONSTANTS
  Services <- mcAll
  WebProxy = "webproxy"
  HasCompose <- mcFull
  CanBuild <- mcBoth
  CanImage <- mcFull
  PipelineServices <- mcBoth
  MaxSpawns = 3
  MaxRestarts = 0
  MaxRuns = 2
  MaxRequests = 1
  CanReload = FALSE
  OneService = "app"
CHECK_DEADLOCK FALSE
SPECIFICATION PSpec
INVARIANTS NotOkShowsWhere
PROPERTIES SuccessIsKept KeepsThePromise

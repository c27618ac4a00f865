CONSTANTS
  c1 = c1
  c2 = c2
  a = a
  u = u
  p1 = p1
  p2 = p2
  r1 = r1
  r2 = r2
  x = x
  y = y
  None = none
  Consumers <- mcTwo
  Tenants <- mcTenant
  PerTenant = 2
  Urgent <- mcUrgent
  Options <- mcOptions
  Whole = 8
  Half = 2
  Spacings <- mcSpacings
  Window = 5
  MaxBatch = 2
  Requests <- mcRequests
  Texts <- mcTexts
  Pattern <- mcPattern
  Location <- mcLocation
  Required <- mcRequired
  Queries <- mcQueries
  Polls <- mcPolls
  Unparsable = {1}
  NoToken = nothing
  Unchanged = unchanged
  MaxVersions = 2
  MaxDeploys = 2
  AccountIds <- mcAccounts
  NoAccount = nobody
  MaxConns = 2
  MaxFrames = 1
CHECK_DEADLOCK FALSE
SPECIFICATION mcTrafficSpec
INVARIANTS ShareKept ServerSeesWhatTheClientSent NoChangeIsMissed BridgesEndTogether FramesAreOfTheAccount
PROPERTIES TenantsProgress PriorityProgresses

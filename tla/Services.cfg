CONSTANTS
  Specs <- mcSpecs
  Uses <- mcUses
  Words <- mcWords
  DeployEnvs <- mcDeployEnvs
  e1 = e1
  e2 = e2
  c1 = c1
  c2 = c2
  None = none
  Events <- mcEvents
  Consumers <- mcConsumers
  r1 = r1
  r2 = r2
  r3 = r3
  Requests <- mcRequests
  MaxSignals = 2
CHECK_DEADLOCK FALSE
SPECIFICATION mcServicesSpec
INVARIANTS DataReachesCompute ReferencesAreWired ComputeHoldsItsIntents CleanExitIsDrained OkIsInTheLog CommittedWereHandled OnlyUnseenOutlive
PROPERTIES ShutdownEnds EventsAreHandled

CONSTANTS
  a = a
  b = b
  Local = local
  Docker = docker
  None = none
  Accounts <- mcAccounts
  Windows <- mcWindows
  BinsFor <- mcBins
  MaxSwitches = 3
  MaxReloads = 1
  Files = 2
  MaxCalls = 2
  MaxBuilds = 3
  MaxUploads = 3
  Clouds <- mcClouds
  Streams <- mcStreams
  Ring = 3
  MaxRender = 1
  MaxLines = 4
  MaxMounts = 3
CHECK_DEADLOCK FALSE
SPECIFICATION mcConsoleSpec
INVARIANTS RealAccountIsNotInvoked HistoryFitsTheWindow BeepsFollowAlerts OnlyBusyMissesABuild OverlapNeedsASecondSync ViewIsTheLog
PROPERTY SettledTargetIsShown

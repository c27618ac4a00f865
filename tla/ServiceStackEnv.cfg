CONSTANTS
  Specs <- mcSpecs
  Uses <- mcUses
  Words <- mcWords
  DeployEnvs <- mcDeployEnvs
CHECK_DEADLOCK FALSE
SPECIFICATION mcSpec
INVARIANTS EveryIdentifierIsInjected

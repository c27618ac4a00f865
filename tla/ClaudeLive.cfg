CONSTANTS
  app = app
  docs = docs
  Services <- mcOne
  Choices <- mcGates
  None = none
  Foreign = foreign
  MaxSessions = 2
  MaxTurns = 1
  MaxAsks = 1
  MaxNews = 1
SPECIFICATION FairSpec
PROPERTY EveryTurnIsHeard

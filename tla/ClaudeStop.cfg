CONSTANTS
  app = app
  docs = docs
  Services <- mcTwo
  Choices <- mcModes
  None = none
  Foreign = foreign
  MaxSessions = 2
  MaxTurns = 1
  MaxAsks = 1
  MaxNews = 1
SPECIFICATION Spec
PROPERTIES StopIsPerService

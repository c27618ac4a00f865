CONSTANTS
  app = app
  docs = docs
  Services <- mcTwo
  Choices <- mcFix
  None = none
  Foreign = foreign
  MaxSessions = 2
  MaxTurns = 1
  MaxAsks = 1
  MaxNews = 2
SYMMETRY Symmetry
SPECIFICATION Spec
INVARIANTS FiledSessionIsOpen OnlyAnEndLosesASession NoLostWakeup MapHoldsTheUnanswered PanelBelievesWhatIsFiled

CONSTANT MaxSignals = 4
SPECIFICATION Spec
INVARIANTS
  NestsAsMeant
  OnlyKillEnds
  ReportsBlockedOnly
PROPERTY
  Answered

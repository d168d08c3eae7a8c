CONSTANTS
  Client <- MCClient
  Line <- MCLine
SPECIFICATION Spec
INVARIANTS
  ReplyIsOwn
PROPERTIES
  ImplementsEchoService
  KilledIsLeft
  OnlyStuckWaits
